----------------------------- MODULE MCRecorder -----------------------------
(***************************************************************************)
(* TLC instance of Recorder: a weekday, a day off and a weekday, two       *)
(* tickers, three codes in two requests.                                   *)
(***************************************************************************)
EXTENDS Recorder, TLC

TickerOfCode == "a" :> 1 @@ "b" :> 1 @@ "c" :> 2
CodeChunks == <<{"a", "c"}, {"b"}>>
=============================================================================
