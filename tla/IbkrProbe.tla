----------------------------- MODULE IbkrProbe -----------------------------
(***************************************************************************)
(* The IBKR commands of the collector: the handshake of ibkr_handshake.py, *)
(* the contract discovery of ibkr_contracts.py and the delayed snapshot of *)
(* ibkr_delayed_snapshot.py.                                               *)
(*                                                                         *)
(* A command is a sequence of sessions, each with a client of its own: it  *)
(* connects, waits until the gateway is ready, makes its requests and      *)
(* disconnects.  The main thread makes the requests and waits, with a      *)
(* timeout, on the events of their pending entries; the reader thread runs *)
(* the callbacks that fill the entries and set the events.  Each request   *)
(* has an id and an entry of its own, and the model names both by what is  *)
(* asked for.  The gateway answers as it likes, or not at all; the client  *)
(* library is known by how the code uses it.                               *)
(***************************************************************************)
EXTENDS Naturals, FiniteSets, Sequences, FiniteSetsExt

CONSTANTS
  Option,         \* the option contracts of the window, numbered from 4 in order
  MaxLosses       \* bound: connection losses

ASSUME OptionAssumption == Option \subseteq Nat \ 0 .. 3 /\ IsFiniteSet(Option)
ASSUME LossAssumption == MaxLosses \in Nat

\* The requests, in the order discovery makes them: the details of the
\* underlying, its spot, the parameters of its options, each option.
Details == 1
Lookup == 2
Params == 3
Name == Option \cup {Details, Lookup, Params}

Commands == {<<"handshake">>, <<"discovery">>, <<"discovery", "options">>,
             <<"underlying", "discovery", "options">>}

VARIABLES
  command, at,      \* the command, and the session it is in
  spotKnown,        \* whether discovery is given a spot
  step, result,
  made, closed,     \* clients made, and disconnected
  ready, terminal,  \* ready_event, terminal_error of the session
  reader,           \* the reader thread: off, on, or dead of an exception
  linked,           \* the socket to the gateway is open
  todo,             \* what the session has still to ask for
  awaited,          \* what it has asked for and not yet looked at
  pending,          \* the pending entries
  contracts,        \* the contracts discovered
  quotes,           \* the contracts that got their quote or an empty one
  posted,           \* the events published, of how many
  losses,
  valid, answered   \* history: nextValidId came first; requests completed

session == command[at]
main == <<command, at, spotKnown, step, result, made, closed, todo, awaited, contracts, quotes,
          posted>>
probeVars == <<main, ready, terminal, reader, linked, pending, losses, valid, answered>>

Entry == [data : 0 .. 2, set : BOOLEAN, error : BOOLEAN]
Fresh == [data |-> 0, set |-> FALSE, error |-> FALSE]
NoPending == [n \in {} |-> Fresh]
Failed(e) == [data |-> e.data, set |-> TRUE, error |-> TRUE]

\* The first requests of a session.
WindowAsked == IF session = "options" THEN Option ELSE {Details, Lookup, Params}
FirstAsked ==
  CASE session = "handshake" -> {}
    [] session = "underlying" -> {Lookup}
    [] session = "options" -> contracts
    [] session = "discovery" -> {Details, Params} \cup (IF spotKnown THEN {} ELSE {Lookup})

ProbeInit ==
  /\ command \in Commands /\ at = 1 /\ step = "connect" /\ result = "none"
  /\ spotKnown \in (IF Len(command) > 1 THEN {TRUE} ELSE BOOLEAN)
  /\ made = 0 /\ closed = 0 /\ ready = FALSE /\ terminal = FALSE /\ reader = "off"
  /\ linked = FALSE /\ todo = {} /\ awaited = {} /\ pending = NoPending
  /\ contracts = {} /\ quotes = {} /\ posted = 0 /\ losses = 0
  /\ valid = FALSE /\ answered = {}

(***************************************************************************)
(* The main thread.                                                        *)
(***************************************************************************)

\* adapter_factory and connect; refused, the adapter is disconnected too.
Connect ==
  /\ step = "connect" /\ made' = made + 1
  /\ pending' = NoPending /\ ready' = FALSE /\ terminal' = FALSE
  /\ valid' = FALSE /\ answered' = {} /\ awaited' = {}
  /\ \/ step' = "ready" /\ reader' = "on" /\ linked' = TRUE /\ UNCHANGED result
     \/ step' = "close" /\ result' = "failed" /\ reader' = "off" /\ linked' = FALSE
  /\ todo' = FirstAsked
  /\ UNCHANGED <<command, at, spotKnown, closed, contracts, quotes, posted, losses>>

\* A handshake publishes its failure as well; the other commands end.
AfterFailure == IF session = "handshake" THEN "publish" ELSE "ended"

\* _create_real_adapter: the package is missing, and there is nothing to
\* disconnect.
Unavailable ==
  /\ step = "connect" /\ step' = AfterFailure /\ result' = "failed"
  /\ UNCHANGED <<command, at, spotKnown, made, closed, ready, terminal, reader, linked, todo,
                 awaited, pending, contracts, quotes, posted, losses, valid, answered>>

rest == <<command, at, spotKnown, made, closed, ready, terminal, reader, linked,
          posted, losses, valid, answered>>
Fail == /\ step' = "close" /\ result' = "failed"
        /\ UNCHANGED <<todo, awaited, pending, contracts, quotes>>

\* wait_until_ready: the event is set by an error as well.
ReadyAtAll == ready
Proceed == ready /\ ~terminal
IsReady ==
  /\ step = "ready" /\ Proceed /\ step' = "ask"
  /\ UNCHANGED <<result, todo, awaited, pending, contracts, quotes>> /\ UNCHANGED rest
NotReady == step = "ready" /\ (terminal \/ ~ready) /\ Fail /\ UNCHANGED rest

\* A request: its entry is registered and then it is sent.  On a client that
\* is no longer connected it goes unanswered, or the library reports code
\* 504 there and then, which fails all that is pending.
Asked == Min(todo)
Ask ==
  /\ step = "ask" /\ todo # {} /\ (session = "options" \/ awaited = {})
  /\ todo' = todo \ {Asked} /\ awaited' = awaited \cup {Asked}
  /\ LET registered == [n \in DOMAIN pending \cup {Asked} |->
                          IF n = Asked THEN Fresh ELSE pending[n]]
     IN \/ pending' = registered
        \/ ~linked /\ pending' = [n \in DOMAIN registered |-> Failed(registered[n])]
  /\ step' = IF session = "options" /\ todo' # {} THEN "ask" ELSE "wait"
  /\ UNCHANGED <<result, contracts, quotes>> /\ UNCHANGED rest

\* The entries are looked at one after the other, those of the options in
\* the order they were asked for.
Looked == Min(awaited)
SetAtAll(e) == e.set
Complete(e) == e.set /\ ~e.error

\* What the answer of discovery brings: no underlying and two contracts for
\* an option are errors, the parameters give the options to resolve.
Learns ==
  LET e == pending[Looked] IN
  CASE session = "options" -> quotes' = quotes \cup {Looked} /\ UNCHANGED <<todo, contracts>>
    [] session = "discovery" /\ Looked = Params ->
         (\E window \in SUBSET Option : todo' = window) /\ UNCHANGED <<contracts, quotes>>
    [] session = "discovery" /\ Looked \in Option ->
         /\ contracts' = IF e.data = 1 THEN contracts \cup {Looked} ELSE contracts
         /\ UNCHANGED <<todo, quotes>>
    [] OTHER -> UNCHANGED <<todo, contracts, quotes>>
Unusable(e) ==
  \/ Looked \in {Details, Lookup} /\ e.data = 0
  \/ session = "discovery" /\ Looked \in Option /\ e.data = 2

Got ==
  /\ step = "wait" /\ awaited # {} /\ Complete(pending[Looked]) /\ ~Unusable(pending[Looked])
  /\ Learns /\ awaited' = awaited \ {Looked}
  /\ pending' = IF session = "options" THEN pending ELSE NoPending
  /\ step' = IF awaited' # {} THEN "wait" ELSE "ask"
  /\ UNCHANGED result /\ UNCHANGED rest
NeverOverdue(e) == FALSE
Overdue(e) == ~e.set
Broken ==
  /\ step = "wait" /\ awaited # {}
  /\ LET e == pending[Looked] IN Overdue(e) \/ (e.set /\ (e.error \/ Unusable(e)))
  /\ Fail /\ UNCHANGED rest

\* The session has asked for everything.
Served ==
  /\ step = "ask" /\ todo = {} /\ awaited = {} /\ step' = "close"
  /\ UNCHANGED <<result, todo, awaited, pending, contracts, quotes>> /\ UNCHANGED rest

\* disconnect and the join of the reader, at most a second.  An exception of
\* it is noted when there was another, and is the result when there was not.
\* No contracts: nothing is asked for and there is no options session.
DisconnectedOnSuccess == IF result = "none" THEN closed + 1 ELSE closed
Disconnected == closed + 1
LastSession == at = Len(command) \/ (session = "discovery" /\ contracts = {})
CloseClient ==
  /\ step = "close" /\ closed' = Disconnected /\ reader' = "off" /\ linked' = FALSE
  /\ todo' = {} /\ awaited' = {} /\ pending' = NoPending
  /\ \/ result' = "failed" /\ step' = AfterFailure /\ UNCHANGED at
     \/ result = "none" /\ ~LastSession /\ at' = at + 1 /\ step' = "connect" /\ UNCHANGED result
     \/ result = "none" /\ LastSession /\ step' = "publish" /\ UNCHANGED <<at, result>>
  /\ UNCHANGED <<command, spotKnown, made, ready, terminal, contracts, quotes, posted, losses,
                 valid, answered>>

\* The events: one of health, one of the underlying, the contracts, the
\* ticks; publish_events posts them one by one and stops at the first that
\* is not accepted.
Events == CASE Len(command) > 1 -> 2 + Cardinality(contracts) + Cardinality(quotes)
            [] session = "handshake" -> 1
            [] OTHER -> Cardinality(contracts)
Post ==
  /\ step = "publish"
  /\ \/ posted < Events /\ posted' = posted + 1 /\ UNCHANGED <<step, result>>
     \/ posted < Events /\ step' = "ended" /\ result' = "failed" /\ UNCHANGED posted
     \/ /\ posted = Events /\ step' = "ended" /\ UNCHANGED posted
        /\ result' = IF result = "none" THEN "ok" ELSE result
  /\ UNCHANGED <<command, at, spotKnown, made, closed, ready, terminal, reader, linked, todo,
                 awaited, pending, contracts, quotes, losses, valid, answered>>

(***************************************************************************)
(* The reader thread: the callbacks.                                       *)
(***************************************************************************)
NextValidId ==
  /\ reader = "on" /\ linked /\ ~ready /\ ready' = TRUE /\ valid' = TRUE
  /\ UNCHANGED <<main, terminal, reader, linked, pending, losses, answered>>

\* contractDetails, securityDefinitionOptionParameter, tickPrice: data for
\* an entry that is still there.
Data(n) ==
  /\ reader = "on" /\ linked /\ ~pending[n].set /\ pending[n].data < 2
  /\ pending' = [pending EXCEPT ![n].data = @ + 1]
  /\ UNCHANGED <<main, ready, terminal, reader, linked, losses, valid, answered>>

\* The end of an answer; for a quote also the codes of no data, which end it
\* empty.
End(n) ==
  /\ reader = "on" /\ linked /\ ~pending[n].set
  /\ pending' = [pending EXCEPT ![n].set = TRUE] /\ answered' = answered \cup {n}
  /\ UNCHANGED <<main, ready, terminal, reader, linked, losses, valid>>

\* An error with the id of the request, which may have its answer already:
\* _fail_matching_pending.
Refuse(n) ==
  /\ reader = "on" /\ linked
  /\ pending' = [pending EXCEPT ![n] = Failed(@)]
  /\ UNCHANGED <<main, ready, terminal, reader, linked, losses, valid, answered>>

\* A connection error, or connectionClosed after which nothing comes any
\* more: _fail_all_pending fails what is pending, what has its answer and was
\* not looked at as well.  In the options session it goes through the entries
\* while the main thread may be adding one: that raises in the reader thread
\* after some of them, and the thread is gone.
Lose ==
  /\ reader = "on" /\ linked /\ losses < MaxLosses /\ losses' = losses + 1
  /\ terminal' = TRUE
  /\ linked' \in BOOLEAN
  /\ \/ /\ pending' = [n \in DOMAIN pending |-> Failed(pending[n])]
        /\ reader' = (IF linked' THEN "on" ELSE "off") /\ ready' = TRUE
     \/ /\ session = "options" /\ step = "ask" /\ DOMAIN pending # {} /\ todo # {}
        /\ \E some \in SUBSET DOMAIN pending :
             pending' = [n \in DOMAIN pending |->
                           IF n \in some THEN Failed(pending[n]) ELSE pending[n]]
        /\ reader' = "dead" /\ ready' = ready
  /\ UNCHANGED <<main, valid, answered>>

Main == \/ Connect \/ IsReady \/ NotReady \/ Ask \/ Got \/ Broken
        \/ Served \/ CloseClient \/ Post
Reader == \/ NextValidId \/ Lose
          \/ \E n \in DOMAIN pending : Data(n) \/ End(n) \/ Refuse(n)
ProbeNext == Main \/ Unavailable \/ Reader

ProbeSpec == ProbeInit /\ [][ProbeNext]_probeVars
\* The main thread runs, and a wait ends when its timeout is over.
FairProbeSpec == ProbeSpec /\ WF_probeVars(Main)

(***************************************************************************)
(* Properties.                                                             *)
(***************************************************************************)
ProbeTypeOK ==
  /\ command \in Commands /\ at \in 1 .. Len(command) /\ spotKnown \in BOOLEAN
  /\ step \in {"connect", "ready", "ask", "wait", "close", "publish", "ended"}
  /\ result \in {"none", "ok", "failed"}
  /\ {made, closed, posted, losses} \subseteq Nat
  /\ {ready, terminal, linked, valid} \subseteq BOOLEAN /\ reader \in {"off", "on", "dead"}
  /\ todo \subseteq Name /\ awaited \subseteq DOMAIN pending /\ DOMAIN pending \subseteq Name
  /\ \A n \in DOMAIN pending : pending[n] \in Entry
  /\ contracts \subseteq Option /\ quotes \subseteq contracts /\ answered \subseteq Name

\* No request goes out, and no handshake is reported as connected, unless
\* the gateway called this client ready before any error of the connection,
\* which sets the same event.
ReadyIsEarned ==
  step \in {"ask", "wait"} \/ (command = <<"handshake">> /\ step = "publish" /\ result = "none")
    => valid

\* What a delayed snapshot sets out to publish is whole: every contract
\* discovered has its quote, and each quote is from an answer the gateway
\* completed, not from one cut short by a loss or an error.  (The events are
\* then posted one by one, and the posting may stop on the way.)
WholeSnapshot ==
  step = "publish" /\ Len(command) > 1 =>
    /\ quotes = contracts
    /\ contracts # {} => contracts \subseteq answered

\* Every client that was made is disconnected once, before the next one is
\* made with the same client id and before the command ends.
Released ==
  /\ closed <= made /\ made <= closed + 1
  /\ step \in {"connect", "publish", "ended"} => made = closed

\* Whatever the gateway and the reader thread do, the command ends.
Ends == <>(step = "ended")
=============================================================================
