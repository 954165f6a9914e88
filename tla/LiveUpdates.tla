---------------------------- MODULE LiveUpdates ----------------------------
(***************************************************************************)
(* The live updates of a dashboard: startLiveSnapshotUpdates of            *)
(* apps/web/lib/snapshotUpdates.ts over startSnapshotStream and            *)
(* startSnapshotPolling.                                                   *)
(*                                                                         *)
(* Snapshots come over a WebSocket.  When it fails the dashboard polls     *)
(* instead, and opens a new socket a while later; the first message of     *)
(* that socket ends the polling.  A snapshot whose key is that of the last *)
(* one applied is dropped, and with it the news of who delivered it.       *)
(*                                                                         *)
(* A snapshot is its number in the order in which the server publishes.    *)
(* Sockets and polling loops are objects that outlive their use: a closed  *)
(* socket may still fire events, a stopped loop may have a request under   *)
(* way.  Their names are used again once they are through.                 *)
(***************************************************************************)
EXTENDS Naturals, Sequences

CONSTANTS
  Socket, Loop,   \* WebSocket objects; loops of startSnapshotPolling
  None,           \* no handle, no snapshot
  Second,         \* the rounded second of each snapshot
  MaxVersion,     \* bound: snapshots published
  MaxInFlight     \* bound: messages on their way over a socket

ASSUME NoneType == None \notin Socket \cup Loop \cup Nat
ASSUME BoundType == MaxVersion \in Nat /\ MaxInFlight \in Nat
ASSUME SecondType ==
  /\ Second \in [0 .. MaxVersion -> Nat]
  /\ \A v, w \in 0 .. MaxVersion : v <= w => Second[v] <= Second[w]

VARIABLES
  published,            \* the server's latest snapshot
  socket, wire,         \* each socket's state, the messages on their way
  phase, carried,       \* each loop's request, the answer on its way
  alive,                \* the loops whose active flag is set
  stopStream,           \* handle: the socket it stops
  stopPolling,          \* handle: the loop it stops
  reconnectTimer,       \* whether it runs
  lastAppliedSnapshotKey, isStopped,
  status, shown         \* the last status reported, the last snapshot applied

server == <<published, wire>>
sockets == <<socket, stopStream>>
loops == <<phase, carried, alive, stopPolling>>
display == <<lastAppliedSnapshotKey, status, shown>>
vars == <<server, sockets, loops, reconnectTimer, isStopped, display>>

Version == 0 .. MaxVersion

TypeOK ==
  /\ published \in Version
  /\ socket \in [Socket -> {"none", "active", "closed"}]
  /\ wire \in [Socket -> Seq(Version)]
  /\ phase \in [Loop -> {"none", "loading", "answered", "waiting"}]
  /\ carried \in [Loop -> Version \cup {None}]
  /\ \A l \in Loop : carried[l] # None => phase[l] = "answered"
  /\ alive \subseteq Loop
  /\ stopStream \in Socket \cup {None} /\ stopPolling \in Loop \cup {None}
  /\ reconnectTimer \in BOOLEAN /\ isStopped \in BOOLEAN
  /\ lastAppliedSnapshotKey \in Nat \cup {None}
  /\ shown \in Version \cup {None}
  /\ status \in {"connecting", "streaming", "disconnected", "fallback_polling",
                 "reconnecting"}

(* The state after the call: a socket is open, nothing has arrived.        *)
Init ==
  /\ published = 0
  /\ \E s \in Socket :
       /\ socket = [t \in Socket |-> IF t = s THEN "active" ELSE "none"]
       /\ stopStream = s
  /\ wire = [s \in Socket |-> <<>>]
  /\ phase = [l \in Loop |-> "none"] /\ carried = [l \in Loop |-> None]
  /\ alive = {} /\ stopPolling = None
  /\ reconnectTimer = FALSE /\ isStopped = FALSE
  /\ lastAppliedSnapshotKey = None /\ shown = None /\ status = "connecting"

-----------------------------------------------------------------------------
(* liveSnapshotUpdateKey: mode, session, expiry and rows being the same,   *)
(* the rounded second.                                                     *)
UpdateKey(v) == Second[v]

(* applyChangedSnapshot.                                                   *)
ApplyChanged(v, source) ==
  IF UpdateKey(v) = lastAppliedSnapshotKey
  THEN UNCHANGED display
  ELSE /\ lastAppliedSnapshotKey' = UpdateKey(v)
       /\ status' = IF source = "stream" THEN "streaming" ELSE "fallback_polling"
       /\ shown' = v

(* Mutant: the loop is taken for through while its request is under way.   *)
DropsRequest(l) ==
  /\ phase' = [phase EXCEPT ![l] = "none"]
  /\ alive' = alive \ {l}

(* What startSnapshotPolling returns: it clears the timer and the flag.    *)
StopLoop(l) ==
  /\ phase' = IF phase[l] = "waiting" THEN [phase EXCEPT ![l] = "none"] ELSE phase
  /\ alive' = alive \ {l}

(* Mutant: a loop is started whether or not one runs.                      *)
AlwaysStarts ==
  \E l \in Loop :
    /\ phase[l] = "none"
    /\ phase' = [phase EXCEPT ![l] = "loading"]
    /\ alive' = alive \cup {l} /\ stopPolling' = l
    /\ UNCHANGED carried

(* startPolling.                                                           *)
StartPolling ==
  \/ stopPolling # None /\ UNCHANGED loops
  \/ /\ stopPolling = None
     /\ \E l \in Loop :
          /\ phase[l] = "none"
          /\ phase' = [phase EXCEPT ![l] = "loading"]
          /\ alive' = alive \cup {l} /\ stopPolling' = l
     /\ UNCHANGED carried

(* Mutant: the handle of a stopped loop is kept.                           *)
KeepsHandle ==
  IF stopPolling = None THEN UNCHANGED loops
  ELSE StopLoop(stopPolling) /\ UNCHANGED <<carried, stopPolling>>

(* stopPollingIfActive.                                                    *)
StopPollingIfActive ==
  IF stopPolling = None THEN UNCHANGED loops
  ELSE StopLoop(stopPolling) /\ stopPolling' = None /\ UNCHANGED carried

(* stopStreamIfActive.                                                     *)
StopStreamIfActive ==
  /\ socket' = IF stopStream = None THEN socket
               ELSE [socket EXCEPT ![stopStream] = "closed"]
  /\ stopStream' = None

-----------------------------------------------------------------------------
(* The server: it sends its latest snapshot over each connection now and   *)
(* then, and answers each poll with it, or the poll comes to nothing.      *)
Publish ==
  /\ published < MaxVersion
  /\ published' = published + 1
  /\ UNCHANGED <<wire, sockets, loops, reconnectTimer, isStopped, display>>

Send(s) ==
  /\ socket[s] # "none" /\ Len(wire[s]) < MaxInFlight
  /\ wire' = [wire EXCEPT ![s] = Append(@, published)]
  /\ UNCHANGED <<published, sockets, loops, reconnectTimer, isStopped, display>>

Answer(l, v) ==
  /\ phase[l] = "loading"
  /\ v \in {published, None}
  /\ phase' = [phase EXCEPT ![l] = "answered"]
  /\ carried' = [carried EXCEPT ![l] = v]
  /\ UNCHANGED <<server, sockets, alive, stopPolling, reconnectTimer, isStopped, display>>

-----------------------------------------------------------------------------
(* The stream                                                              *)

(* Mutant: the handlers of a socket never look at its active flag.         *)
AnyListens(s) == TRUE

Listens(s) == socket[s] = "active"

(* onmessage, with applySnapshot of openStream.                            *)
Message(s) ==
  /\ wire[s] # <<>>
  /\ wire' = [wire EXCEPT ![s] = Tail(@)]
  /\ IF Listens(s)
     THEN StopPollingIfActive /\ ApplyChanged(Head(wire[s]), "stream")
     ELSE UNCHANGED <<loops, display>>
  /\ UNCHANGED <<published, sockets, reconnectTimer, isStopped>>

(* Mutant: scheduleReconnect is forgotten.                                 *)
NeverReconnects == UNCHANGED reconnectTimer

(* scheduleReconnect.                                                      *)
ScheduleReconnect == reconnectTimer' = (reconnectTimer \/ ~isStopped)

(* onerror or onclose, with handleUnavailable.                             *)
Unavailable(s) ==
  /\ socket[s] # "none" /\ Listens(s)
  /\ StopStreamIfActive
  /\ status' = "disconnected"
  /\ StartPolling
  /\ ScheduleReconnect
  /\ UNCHANGED <<server, isStopped, lastAppliedSnapshotKey, shown>>

(* A closed socket is through with its events.                             *)
Gone(s) ==
  /\ socket[s] = "closed"
  /\ socket' = [socket EXCEPT ![s] = "none"]
  /\ wire' = [wire EXCEPT ![s] = <<>>]
  /\ UNCHANGED <<published, stopStream, loops, reconnectTimer, isStopped, display>>

(* The reconnect timer, with openStream.                                   *)
Reconnect(s) ==
  /\ reconnectTimer /\ socket[s] = "none"
  /\ reconnectTimer' = FALSE
  /\ status' = "reconnecting"
  /\ socket' = [socket EXCEPT ![s] = "active"]
  /\ stopStream' = s
  /\ UNCHANGED <<server, loops, isStopped, lastAppliedSnapshotKey, shown>>

-----------------------------------------------------------------------------
(* Polling                                                                 *)

(* Mutant: what arrives is applied whether or not the loop was stopped.    *)
AnyPolls(l) == TRUE

Polls(l) == l \in alive

(* poll, once the snapshot is loaded.                                      *)
Loaded(l) ==
  /\ phase[l] = "answered"
  /\ phase' = [phase EXCEPT ![l] = IF l \in alive THEN "waiting" ELSE "none"]
  /\ carried' = [carried EXCEPT ![l] = None]
  /\ IF Polls(l) /\ carried[l] # None THEN ApplyChanged(carried[l], "polling")
                                      ELSE UNCHANGED display
  /\ UNCHANGED <<server, sockets, alive, stopPolling, reconnectTimer, isStopped>>

PollTimer(l) ==
  /\ phase[l] = "waiting"
  /\ phase' = [phase EXCEPT ![l] = "loading"]
  /\ UNCHANGED <<server, sockets, carried, alive, stopPolling, reconnectTimer,
                 isStopped, display>>

(* What startLiveSnapshotUpdates returns.                                  *)
Stop ==
  /\ ~isStopped /\ isStopped' = TRUE
  /\ reconnectTimer' = FALSE
  /\ StopStreamIfActive
  /\ IF stopPolling = None THEN UNCHANGED <<phase, alive>> ELSE StopLoop(stopPolling)
  /\ UNCHANGED <<server, carried, stopPolling, display>>

Next ==
  \/ Publish \/ Stop
  \/ \E s \in Socket :
       Send(s) \/ Message(s) \/ Unavailable(s) \/ Gone(s) \/ Reconnect(s)
  \/ \E l \in Loop :
       \/ \E v \in {published, None} : Answer(l, v)
       \/ Loaded(l) \/ PollTimer(l)

Spec == Init /\ [][Next]_vars

(* Timers fire and events are handled; a socket that stays open delivers a *)
(* message now and then; not every poll comes to nothing.                  *)
Fairness ==
  /\ \A s \in Socket :
       WF_vars(Send(s)) /\ WF_vars(Message(s)) /\ WF_vars(Gone(s))
  /\ WF_vars(\E s \in Socket : Reconnect(s))
  /\ \A l \in Loop :
       /\ WF_vars(Loaded(l)) /\ WF_vars(PollTimer(l))
       /\ WF_vars(\E v \in {published, None} : Answer(l, v))
       /\ SF_vars(Answer(l, published))

FairSpec == Spec /\ Fairness

-----------------------------------------------------------------------------
(* Properties                                                              *)

(* After stop() nothing is left that could apply a snapshot or start       *)
(* something: no listening socket, no loop, no timer.                      *)
StopLeavesNothing ==
  isStopped =>
    /\ \A s \in Socket : ~Listens(s)
    /\ alive = {} /\ ~reconnectTimer
    /\ \A l \in Loop : phase[l] # "waiting"

(* Until then there is a way to get snapshots: a listening socket, or a    *)
(* polling loop and a socket to come.  Nor are there two of either.        *)
SourceAtAllTimes ==
  ~isStopped =>
    /\ \/ \E s \in Socket : Listens(s)
       \/ alive # {} /\ reconnectTimer
    /\ \A s, t \in Socket : Listens(s) /\ Listens(t) => s = t
    /\ \A l, m \in alive : l = m

(* The dashboard goes back to an older snapshot only when a new stream     *)
(* takes over from polling, whose answers are not ordered with it.         *)
BackOnlyAtTakeover ==
  [][shown # None /\ shown' # shown /\ ~(shown' > shown) =>
       stopPolling # None /\ stopPolling' = None]_vars

(* Nothing is applied once the dashboard has said stop.                    *)
StoppedIsQuiet == [][isStopped => UNCHANGED <<shown, status>>]_vars

(* The last snapshot's second is shown in the end and stays, whatever      *)
(* becomes of the sockets on the way, unless the dashboard stops.          *)
CatchesUp ==
  <>(published = MaxVersion) =>
    <>[](isStopped \/ lastAppliedSnapshotKey = UpdateKey(MaxVersion))

-----------------------------------------------------------------------------
(* The inductive invariant                                                 *)

(* The handles tell what is active.                                        *)
HandlesOK ==
  /\ \A s \in Socket : Listens(s) <=> stopStream = s
  /\ \A l \in Loop : phase[l] = "waiting" => l \in alive
  /\ isStopped => stopStream = None /\ alive = {} /\ ~reconnectTimer
  /\ ~isStopped =>
       /\ alive = {stopPolling} \ {None}
       /\ stopStream = None => reconnectTimer /\ stopPolling # None
       /\ stopStream # None => ~reconnectTimer

(* What is on its way was published, and over a socket it is in order.     *)
WireOK ==
  /\ \A l \in Loop : carried[l] # None => carried[l] <= published
  /\ \A s \in Socket : \A i, j \in 1 .. Len(wire[s]) :
       /\ wire[s][i] <= published
       /\ i <= j => wire[s][i] <= wire[s][j]

(* What is on its way is not older than what is shown, except over the     *)
(* socket that is to take over; or it will be dropped.                     *)
ShownOK ==
  /\ shown = None => lastAppliedSnapshotKey = None
  /\ shown # None =>
       /\ lastAppliedSnapshotKey = UpdateKey(shown) /\ shown <= published
       /\ \A l \in alive : carried[l] # None => carried[l] >= shown
       /\ stopPolling = None =>
            \A s \in Socket : Listens(s) =>
              \A i \in 1 .. Len(wire[s]) :
                \/ wire[s][i] >= shown
                \/ UpdateKey(wire[s][i]) = lastAppliedSnapshotKey

IInv == TypeOK /\ HandlesOK /\ WireOK /\ ShownOK
=============================================================================
