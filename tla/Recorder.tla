------------------------------ MODULE Recorder ------------------------------
(***************************************************************************)
(* The Moomoo research recorder: capture_research_snapshot_once and the    *)
(* two loops of moomoo_research_recorder.py, and the supervisor of         *)
(* ops/run_moomoo_research_market.sh that starts it again when it exits.   *)
(*                                                                         *)
(* Time is counted in slots, DayLen of them a day.  A slot passes while    *)
(* the process sleeps, or while it captures, which takes it at most        *)
(* Longest slots; what it does at one instant takes none.  A file holds    *)
(* the lines of one kind, ticker and date, and is only appended to; of the *)
(* lines the model keeps those of the capture being made.  A process       *)
(* killed between a record and its line end leaves the file torn: the next *)
(* record is glued to that line and cannot be read back.  What a record    *)
(* says of prices is left out, and a ticker has one underlying row.        *)
(***************************************************************************)
EXTENDS Naturals, FiniteSets, FiniteSetsExt, Functions

CONSTANTS
  Tickers,        \* the enabled symbols, numbered in sorted order
  Codes,          \* the option codes of the day
  TickerOf,       \* [Codes -> Tickers]
  Chunks,         \* the sorted codes in requests of SNAPSHOT_CODE_LIMIT
  DayLen, Open, Close,
  Weekend,        \* the days that are not weekdays
  Horizon,        \* bound: the last slot
  Interval,       \* --interval-seconds
  Poll,           \* the 60 seconds a wait for the open lasts at most
  Longest,        \* the longest capture
  Backoff,        \* the 300 seconds of the supervisor
  Loops,          \* the values of --max-loops
  MaxFaults       \* bound: requests and appends that raise, and kills

ASSUME DayAssumption ==
  /\ {DayLen, Open, Close, Horizon, Longest, MaxFaults} \subseteq Nat
  /\ {Interval, Poll, Backoff} \subseteq Nat \ {0}
  /\ Open < Close /\ Close < DayLen /\ DayLen <= Horizon
  /\ Weekend \subseteq Nat /\ Loops \subseteq Nat
ASSUME CodeAssumption ==
  /\ Tickers \subseteq Nat /\ TickerOf \in [Codes -> Tickers]
  /\ DOMAIN Chunks = 1 .. Cardinality(DOMAIN Chunks)
  /\ UNION {Chunks[i] : i \in DOMAIN Chunks} = Codes

Day(t) == t \div DayLen
Clock(t) == t % DayLen

\* A week has a weekday, so the search of _next_weekday ends.
ASSUME WeekAssumption ==
  \A d \in 1 .. Day(Horizon) + 1 : \E e \in d .. d + 7 : e \notin Weekend

\* _next_weekday
NextWeekday(d) == CHOOSE e \in d .. d + 7 :
                     e \notin Weekend /\ \A f \in d .. e - 1 : f \in Weekend

\* next_regular_session_window: the date of the session it returns.
SessionDateLate(t) ==
  IF Day(t) \in Weekend \/ Clock(t) > Close THEN NextWeekday(Day(t) + 1) ELSE Day(t)
SessionDate(t) ==
  IF Day(t) \in Weekend \/ Clock(t) >= Close THEN NextWeekday(Day(t) + 1) ELSE Day(t)
OpensAt(d) == d * DayLen + Open
ClosesAt(d) == d * DayLen + Close

VARIABLES
  mode,       \* the arguments: market hours, repeat daily, loops (0: no end)
  now, pc, wake,
  loops,      \* captures made by this process
  date,       \* the market date of the session of this turn of the loop
  began,      \* when the capture began
  chosen,     \* the codes discovered
  asked,      \* how many chunks were requested
  reply,      \* the records of the response not yet written
  lines,      \* the option lines of the capture, by code
  batches,    \* the batch line of each ticker: its number of contracts
  under,      \* the tickers whose underlying line is written
  summary,    \* option_rows_written of the summary line
  torn,       \* the files whose last line has no end
  kills, faults, damaged,
  started,    \* history: when this process started
  dates       \* history: the market dates it captured

files == <<lines, batches, under, summary, torn, damaged>>
work == <<chosen, asked, reply, began>>
vars == <<mode, now, pc, wake, loops, date, work, files, kills, faults, started, dates>>

Zero == [c \in Codes |-> 0]
NoBatch == [t \in Tickers |-> 0]
NotYet == 2 * Cardinality(Codes) + 1
File == {<<k, t>> : k \in {"underlying", "option", "batch"}, t \in Tickers} \cup {<<"captures", 0>>}
Busy == {"underlying", "options", "batches", "summary"}

Init ==
  /\ mode \in [market : BOOLEAN, repeat : BOOLEAN, loops : Loops]
  /\ mode.repeat => mode.market
  /\ now \in 0 .. DayLen - 1 /\ started = now
  /\ pc = "top" /\ wake = now /\ loops = 0 /\ date = 0 /\ began = 0
  /\ chosen = {} /\ asked = 0 /\ reply = Zero
  /\ lines = Zero /\ batches = NoBatch /\ under = {} /\ summary = NotYet
  /\ torn = {} /\ kills = 0 /\ faults = 0 /\ damaged = 0 /\ dates = {}

(***************************************************************************)
(* The loops.                                                              *)
(***************************************************************************)
TurnsLeft == mode.loops = 0 \/ loops < mode.loops

Sleep(n) == /\ pc' = "sleeping" /\ wake' = now + n

\* The top of the loop before the open: wait, a minute at most.
WaitForOpen ==
  /\ pc = "top" /\ TurnsLeft /\ mode.market
  /\ now < OpensAt(SessionDate(now))
  /\ Sleep(Min({Poll, OpensAt(SessionDate(now)) - now}))
  /\ UNCHANGED <<mode, now, loops, date, work, files, kills, faults, started, dates>>

\* Otherwise a capture begins with its discovery, which leaves out the
\* symbols whose spot or option chain was not to be had.  The branch of the
\* code between the two, for now >= closes_at, has no action: the window
\* next_regular_session_window returns never lies behind (WindowIsAhead).
BeginCapture ==
  /\ pc = "top" /\ TurnsLeft
  /\ mode.market => now >= OpensAt(SessionDate(now)) /\ now < ClosesAt(SessionDate(now))
  /\ date' = IF mode.market THEN SessionDate(now) ELSE Day(now)
  /\ began' = now /\ asked' = 0 /\ reply' = Zero
  /\ \E found \in SUBSET Tickers : chosen' = {c \in Codes : TickerOf[c] \in found}
  /\ lines' = Zero /\ batches' = NoBatch /\ under' = {} /\ summary' = NotYet
  /\ torn' = IF date' = date THEN torn ELSE {}
  /\ pc' = "underlying" /\ dates' = dates \cup {date'}
  /\ UNCHANGED <<mode, now, wake, loops, kills, faults, damaged, started>>

NoTurnLeft ==
  /\ pc = "top" /\ ~TurnsLeft /\ pc' = "stopped"
  /\ UNCHANGED <<mode, now, wake, loops, date, work, files, kills, faults, started, dates>>

\* What is left of the interval, the time of the capture taken off.
RestAfresh == Interval
Rest == IF Interval > now - began THEN Interval - (now - began) ELSE 0

\* The end of a turn: stop or go on after the close, or sleep what is left
\* of the interval, not past the close.
EndTurn ==
  /\ pc = "after" /\ loops' = loops + 1
  /\ LET more == mode.loops = 0 \/ loops' < mode.loops
     IN IF mode.market
        THEN IF now >= ClosesAt(date)
             THEN pc' = (IF mode.repeat /\ more THEN "top" ELSE "stopped") /\ wake' = wake
             ELSE Sleep(Min({Rest, ClosesAt(date) - now}))
        ELSE IF more THEN Sleep(Rest) ELSE pc' = "stopped" /\ wake' = wake
  /\ UNCHANGED <<mode, now, date, work, files, kills, faults, started, dates>>

Wake ==
  /\ pc = "sleeping" /\ now >= wake /\ pc' = "top"
  /\ UNCHANGED <<mode, now, wake, loops, date, work, files, kills, faults, started, dates>>

(***************************************************************************)
(* A capture.                                                              *)
(***************************************************************************)

\* _append_jsonl: a record and its line end.  On a torn file the record
\* goes on the unfinished line, and the line end finishes that.
AppendToTorn(f) ==
  /\ torn' = torn
  /\ damaged' = IF f \in torn THEN damaged + 1 ELSE damaged
AppendTo(f) ==
  /\ torn' = torn \ {f}
  /\ damaged' = IF f \in torn THEN damaged + 1 ELSE damaged

\* _record_underlying_snapshots writes a row for every symbol, an empty one
\* where the request failed.
Underlying(t) ==
  /\ pc = "underlying" /\ t \notin under
  /\ under' = under \cup {t} /\ AppendTo(<<"underlying", t>>)
  /\ pc' = IF under' = Tickers THEN "options" ELSE pc
  /\ UNCHANGED <<mode, now, wake, loops, date, work, lines, batches, summary, kills, faults,
                 started, dates>>

\* The request for a chunk: it fails, with a warning, or brings for each of
\* its codes no record, one or two.
Request ==
  /\ pc = "options" /\ reply = Zero
  /\ asked < Cardinality(DOMAIN Chunks) /\ asked' = asked + 1
  /\ \E n \in [Codes -> 0 .. 2] :
       /\ \A c \in Codes : n[c] > 0 => c \in chosen \cap Chunks[asked']
       /\ reply' = n
  /\ UNCHANGED <<mode, now, pc, wake, loops, date, chosen, began, files, kills, faults,
                 started, dates>>

\* The records left to write after one of code c.
LeftAgain(c) == reply
Left(c) == [reply EXCEPT ![c] = @ - 1]

\* A line for a record of the response, in the order they came in.
WriteOption(c) ==
  /\ pc = "options" /\ reply[c] > 0
  /\ reply' = Left(c)
  /\ lines' = [lines EXCEPT ![c] = @ + 1] /\ AppendTo(<<"option", TickerOf[c]>>)
  /\ UNCHANGED <<mode, now, pc, wake, loops, date, chosen, asked, began, batches, under,
                 summary, kills, faults, started, dates>>

OptionsDone ==
  /\ pc = "options" /\ reply = Zero /\ asked = Cardinality(DOMAIN Chunks)
  /\ pc' = "batches"
  /\ UNCHANGED <<mode, now, wake, loops, date, work, files, kills, faults, started, dates>>

\* batch_contracts_by_ticker: the records written for a ticker.
Total(of) == SumFunctionOnSet(lines, of)
OfTicker(t) == Total({c \in Codes : TickerOf[c] = t})

\* The contracts of a batch line.
BatchOfCodes(t) == Cardinality({c \in Codes : TickerOf[c] = t /\ lines[c] > 0})
BatchOf(t) == OfTicker(t)

\* One batch line for each ticker that has a record, in sorted order.
WriteBatch ==
  /\ pc = "batches"
  /\ LET left == {t \in Tickers : OfTicker(t) # 0 /\ batches[t] = 0}
     IN IF left = {}
        THEN pc' = "summary" /\ UNCHANGED <<batches, torn, damaged>>
        ELSE /\ batches' = [batches EXCEPT ![Min(left)] = BatchOf(Min(left))]
             /\ AppendTo(<<"batch", Min(left)>>) /\ pc' = pc
  /\ UNCHANGED <<mode, now, wake, loops, date, work, lines, under, summary, kills, faults,
                 started, dates>>

WriteSummary ==
  /\ pc = "summary" /\ pc' = "after"
  /\ summary' = Total(Codes)
  /\ AppendTo(<<"captures", 0>>)
  /\ UNCHANGED <<mode, now, wake, loops, date, work, lines, batches, under, kills, faults,
                 started, dates>>

(***************************************************************************)
(* Failures, the supervisor, time.                                         *)
(***************************************************************************)

\* A request or an append raises: main prints the error, closes the client
\* and exits.
Raise ==
  /\ faults < MaxFaults /\ faults' = faults + 1
  /\ pc \in Busy /\ pc' = "failed" /\ wake' = now + Backoff
  /\ UNCHANGED <<mode, now, loops, date, work, files, kills, started, dates>>

\* The process is killed, in a capture perhaps within an append.
Kill ==
  /\ faults < MaxFaults /\ faults' = faults + 1
  /\ pc \in Busy \cup {"sleeping", "after"} /\ pc' = "failed" /\ wake' = now + Backoff
  /\ \E f \in File \cup {<<"none", 0>>} :
       /\ f \in File => f \notin torn /\
            \/ pc = "underlying" /\ f[1] = "underlying"
            \/ pc = "options" /\ f[1] = "option"
            \/ pc = "batches" /\ f[1] = "batch"
            \/ pc = "summary" /\ f[1] = "captures"
       /\ torn' = torn \cup ({f} \cap File)
       /\ kills' = IF f \in File THEN kills + 1 ELSE kills
  /\ UNCHANGED <<mode, now, loops, date, work, lines, batches, under, summary, damaged,
                 started, dates>>

\* The loop of ops/run_moomoo_research_market.sh.
Restart ==
  /\ pc = "failed" /\ mode.repeat /\ now >= wake
  /\ pc' = "top" /\ loops' = 0 /\ started' = now /\ dates' = {}
  /\ UNCHANGED <<mode, now, wake, date, work, files, kills, faults>>

Tick ==
  /\ now < Horizon /\ now' = now + 1
  /\ \/ pc \in {"sleeping", "failed"} /\ now < wake
     \/ pc \in Busy \cup {"after"} /\ now < began + Longest
     \/ pc = "failed" /\ ~mode.repeat
  /\ UNCHANGED <<mode, pc, wake, loops, date, work, files, kills, faults, started, dates>>

\* Nothing is looked at past the horizon.
Beyond ==
  /\ pc \in {"stopped", "failed", "sleeping"} /\ (pc = "stopped" \/ now = Horizon)
  /\ UNCHANGED vars

Next ==
  \/ WaitForOpen \/ BeginCapture \/ NoTurnLeft \/ EndTurn \/ Wake
  \/ \E t \in Tickers : Underlying(t)
  \/ Request \/ (\E c \in Codes : WriteOption(c)) \/ OptionsDone
  \/ WriteBatch \/ WriteSummary
  \/ Raise \/ Kill \/ Restart \/ Tick \/ Beyond

Spec == Init /\ [][Next]_vars

(***************************************************************************)
(* Properties.                                                             *)
(***************************************************************************)
TypeOK ==
  /\ mode \in [market : BOOLEAN, repeat : BOOLEAN, loops : Loops]
  /\ now \in 0 .. Horizon /\ wake \in Nat /\ loops \in Nat
  /\ pc \in Busy \cup {"top", "sleeping", "after", "failed", "stopped"}
  /\ date \in Nat /\ began \in 0 .. now /\ started \in 0 .. now
  /\ chosen \subseteq Codes /\ asked \in 0 .. Cardinality(DOMAIN Chunks)
  /\ reply \in [Codes -> 0 .. 2] /\ lines \in [Codes -> 0 .. 2]
  /\ batches \in [Tickers -> 0 .. NotYet - 1] /\ under \subseteq Tickers
  /\ summary \in 0 .. NotYet /\ torn \subseteq File
  /\ kills \in 0 .. faults /\ faults \in 0 .. MaxFaults /\ damaged \in Nat
  /\ dates \subseteq Nat

\* The window next_regular_session_window names closes after the instant it
\* is asked at, and is the session of that instant when there is one.
WindowIsAhead ==
  /\ now < ClosesAt(SessionDate(now))
  /\ SessionDate(now) \notin Weekend
  /\ Day(now) \notin Weekend /\ Clock(now) < Close => SessionDate(now) = Day(now)

\* The three files of a capture agree: a batch line counts exactly the
\* option lines its capture wrote for the ticker, duplicates with them, and
\* once the summary line is there every ticker with option lines has its
\* batch line, every ticker its underlying line, and the total is right.
FilesAgree ==
  /\ \A t \in Tickers : batches[t] \in {0, OfTicker(t)}
  /\ summary # NotYet => /\ under = Tickers /\ summary = Total(Codes)
                         /\ \A t \in Tickers : batches[t] = OfTicker(t)

\* However often the recorder is killed within an append, each time costs
\* one acknowledged record at most: the one glued to the torn line.
LossIsBounded == damaged <= kills

\* In a session, a recorder that runs begins its captures one interval
\* apart, or as soon as a longer one is over, the first at the open or when
\* it was started: no sleep overshoots the open or adds to the interval.
NoGap ==
  LET since == Max({started, OpensAt(Day(now)), IF dates = {} THEN 0 ELSE began})
  IN /\ mode.market /\ pc \notin {"failed", "stopped"}
     /\ Day(now) \notin Weekend /\ Clock(now) \in Open .. Close - 1
     => /\ now - since <= Max({Interval, Longest})
        /\ pc = "sleeping" /\ now < wake => wake - since <= Interval

\* What the option --market-hours says without --repeat-daily: wait for the
\* next regular session and stop at its close.
StopsAtTheClose == mode.market /\ ~mode.repeat => Cardinality(dates) <= 1
=============================================================================
