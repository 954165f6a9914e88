-------------------------- MODULE LiveUpdatesProof --------------------------
EXTENDS LiveUpdates, TLAPS

USE BoundType DEF Version

(* What appending to a sequence and taking its tail do to its elements.    *)
LEMMA WireSteps ==
  ASSUME NEW w \in Seq(Version), NEW v \in Version
  PROVE  /\ Append(w, v) \in Seq(Version) /\ Len(Append(w, v)) = Len(w) + 1
         /\ \A i \in 1 .. Len(w) + 1 :
              Append(w, v)[i] = IF i = Len(w) + 1 THEN v ELSE w[i]
         /\ \A i \in 1 .. Len(w) : w[i] \in Version
         /\ w # <<>> =>
              /\ Tail(w) \in Seq(Version) /\ Len(Tail(w)) = Len(w) - 1
              /\ \A i \in 1 .. Len(w) - 1 : Tail(w)[i] = w[i + 1]
              /\ Head(w) = w[1] /\ Len(w) \in Nat \ {0} /\ Head(w) \in Version
OBVIOUS

LEMMA KeyOrder ==
  ASSUME NEW v \in Version, NEW w \in Version
  PROVE  /\ UpdateKey(v) \in Nat /\ UpdateKey(v) # None
         /\ v <= w => UpdateKey(v) <= UpdateKey(w)
BY SecondType, NoneType DEF UpdateKey

LEMMA InitKeeps ==
  ASSUME Init
  PROVE  IInv
<1>1. PICK s \in Socket : stopStream = s /\
        socket = [t \in Socket |-> IF t = s THEN "active" ELSE "none"]
  BY DEF Init
<1>2. \A t \in Socket : wire[t] = <<>> /\ Len(wire[t]) = 0
  BY DEF Init
<1>3. TypeOK
  <2>1. <<>> \in Seq(Version) /\ wire = [t \in Socket |-> <<>>]
    BY DEF Init
  <2>2. wire \in [Socket -> Seq(Version)]
    BY <2>1
  <2>3. socket \in [Socket -> {"none", "active", "closed"}]
    BY <1>1
  <2>4. /\ phase \in [Loop -> {"none", "loading", "answered", "waiting"}]
        /\ carried \in [Loop -> Version \cup {None}]
        /\ \A l \in Loop : carried[l] = None
    BY DEF Init
  <2>5. 0 \in Version
    OBVIOUS
  <2>6. QED
    BY <1>1, <2>2, <2>3, <2>4, <2>5 DEF Init, TypeOK
<1>4. HandlesOK
  BY <1>1, NoneType DEF Init, HandlesOK, Listens
<1>5. WireOK /\ ShownOK
  BY <1>2 DEF Init, WireOK, ShownOK
<1>6. QED
  BY <1>3, <1>4, <1>5 DEF IInv

-----------------------------------------------------------------------------
(* The server                                                              *)

LEMMA PublishKeeps ==
  ASSUME IInv, Publish
  PROVE  IInv'
<1>1. /\ published' = published + 1 /\ published \in Nat /\ published' \in Version
      /\ UNCHANGED <<wire, socket, stopStream, phase, carried, alive, stopPolling,
                     reconnectTimer, isStopped, lastAppliedSnapshotKey, status, shown>>
  BY DEF Publish, sockets, loops, display, IInv, TypeOK
<1>2. TypeOK'
  BY <1>1 DEF IInv, TypeOK
<1>3. HandlesOK'
  BY <1>1 DEF IInv, HandlesOK, Listens
<1>4. \A s \in Socket : \A i \in 1 .. Len(wire[s]) : wire[s][i] \in Nat
  BY DEF IInv, TypeOK
<1>5. WireOK'
  <2>1. \A l \in Loop : carried[l] # None => carried[l] \in Nat
    BY DEF IInv, TypeOK
  <2>2. QED
    BY <1>1, <1>4, <2>1 DEF IInv, WireOK
<1>6. ShownOK'
  <2>1. shown # None => shown \in Nat
    BY DEF IInv, TypeOK
  <2>2. QED
    BY <1>1, <2>1 DEF IInv, ShownOK, Listens, UpdateKey
<1>7. QED
  BY <1>2, <1>3, <1>5, <1>6 DEF IInv

LEMMA SendKeeps ==
  ASSUME IInv, NEW s \in Socket, Send(s)
  PROVE  IInv'
<1>1. /\ published \in Version /\ wire \in [Socket -> Seq(Version)]
      /\ wire' = [wire EXCEPT ![s] = Append(@, published)]
      /\ UNCHANGED <<published, socket, stopStream, phase, carried, alive, stopPolling,
                     reconnectTimer, isStopped, lastAppliedSnapshotKey, status, shown>>
  BY DEF Send, sockets, loops, display, IInv, TypeOK
<1>2. /\ wire'[s] = Append(wire[s], published)
      /\ \A t \in Socket \ {s} : wire'[t] = wire[t]
  BY <1>1
<1>3. TypeOK'
  <2>1. wire' \in [Socket -> Seq(Version)]
    BY <1>1, WireSteps
  <2>2. QED
    BY <1>1, <2>1 DEF IInv, TypeOK
<1>4. HandlesOK'
  BY <1>1 DEF IInv, HandlesOK, Listens
<1> DEFINE w == wire[s]
<1>5. /\ Len(wire'[s]) = Len(w) + 1 /\ Len(w) \in Nat
      /\ \A i \in 1 .. Len(w) + 1 :
           wire'[s][i] = IF i = Len(w) + 1 THEN published ELSE w[i]
      /\ \A i \in 1 .. Len(w) : w[i] \in Version /\ w[i] <= published
  BY <1>1, <1>2, WireSteps DEF IInv, WireOK
<1>6. WireOK'
  <2>1. ASSUME NEW i \in 1 .. Len(w) + 1, NEW j \in 1 .. Len(w) + 1
        PROVE  /\ wire'[s][i] <= published
               /\ i <= j => wire'[s][i] <= wire'[s][j]
    <3>1. CASE j = Len(w) + 1
      BY <1>1, <1>5, <3>1
    <3>2. CASE j # Len(w) + 1 /\ i # Len(w) + 1
      <4>1. i \in 1 .. Len(w) /\ j \in 1 .. Len(w)
        BY <1>5, <3>2
      <4>2. QED
        BY <1>5, <3>2, <4>1 DEF IInv, WireOK
    <3>3. CASE j # Len(w) + 1 /\ i = Len(w) + 1
      BY <1>1, <1>5, <3>3
    <3>4. QED
      BY <3>1, <3>2, <3>3
  <2>2. \A t \in Socket \ {s} : \A i, j \in 1 .. Len(wire'[t]) :
          /\ wire'[t][i] <= published
          /\ i <= j => wire'[t][i] <= wire'[t][j]
    BY <1>2 DEF IInv, WireOK
  <2>3. \A l \in Loop : carried'[l] # None => carried'[l] <= published
    BY <1>1 DEF IInv, WireOK
  <2>4. \A i, j \in 1 .. Len(wire'[s]) :
          /\ wire'[s][i] <= published
          /\ i <= j => wire'[s][i] <= wire'[s][j]
    BY <1>5, <2>1
  <2>5. published' = published
    BY <1>1
  <2>6. QED
    BY <2>2, <2>3, <2>4, <2>5 DEF WireOK
<1>7. ShownOK'
  <2>1. ASSUME shown # None, stopPolling = None, NEW t \in Socket, Listens(t),
               NEW i \in 1 .. Len(wire'[t])
        PROVE  wire'[t][i] >= shown \/ UpdateKey(wire'[t][i]) = lastAppliedSnapshotKey
    <3>1. CASE t = s /\ i = Len(w) + 1
      <4>1. shown <= published /\ shown \in Nat
        BY <2>1 DEF IInv, ShownOK, TypeOK
      <4>2. QED
        BY <1>1, <1>5, <3>1, <4>1
    <3>2. CASE ~(t = s /\ i = Len(w) + 1)
      <4>1. i \in 1 .. Len(wire[t]) /\ wire'[t][i] = wire[t][i]
        BY <1>2, <1>5, <2>1, <3>2
      <4>2. QED
        BY <2>1, <4>1 DEF IInv, ShownOK
    <3>3. QED
      BY <3>1, <3>2
  <2>2. QED
    BY <1>1, <2>1 DEF IInv, ShownOK, Listens, UpdateKey
<1>8. QED
  BY <1>3, <1>4, <1>6, <1>7 DEF IInv

LEMMA AnswerKeeps ==
  ASSUME IInv, NEW l \in Loop, NEW v \in {published, None}, Answer(l, v)
  PROVE  IInv'
<1>1. /\ phase' = [phase EXCEPT ![l] = "answered"] /\ phase[l] = "loading"
      /\ carried' = [carried EXCEPT ![l] = v]
      /\ UNCHANGED <<published, wire, socket, stopStream, alive, stopPolling,
                     reconnectTimer, isStopped, lastAppliedSnapshotKey, status, shown>>
  BY DEF Answer, server, sockets, display
<1>2. TypeOK'
  BY <1>1 DEF IInv, TypeOK
<1>3. HandlesOK'
  BY <1>1 DEF IInv, TypeOK, HandlesOK, Listens
<1>4. WireOK'
  BY <1>1 DEF IInv, TypeOK, WireOK
<1>5. ShownOK'
  <2>1. shown # None => shown <= published /\ shown \in Nat /\ published \in Nat
    BY DEF IInv, ShownOK, TypeOK
  <2>2. \A m \in Loop : carried'[m] = IF m = l THEN v ELSE carried[m]
    BY <1>1 DEF IInv, TypeOK
  <2>3. shown # None => \A m \in alive : carried'[m] # None => carried'[m] >= shown
    BY <2>1, <2>2 DEF IInv, ShownOK, TypeOK
  <2>4. QED
    BY <1>1, <2>3 DEF IInv, ShownOK, Listens, UpdateKey
<1>6. QED
  BY <1>2, <1>3, <1>4, <1>5 DEF IInv

-----------------------------------------------------------------------------
(* The stream                                                              *)

(* A message is applied, and what may be shown after it.                   *)
LEMMA MessageKeeps ==
  ASSUME IInv, NEW s \in Socket, Message(s)
  PROVE  IInv' /\ (isStopped => UNCHANGED <<shown, status>>)
<1> DEFINE w == wire[s]
           m == Head(wire[s])
<1>1. /\ wire \in [Socket -> Seq(Version)] /\ w # <<>>
      /\ wire' = [wire EXCEPT ![s] = Tail(@)]
      /\ UNCHANGED <<published, socket, stopStream, reconnectTimer, isStopped>>
      /\ IF Listens(s)
         THEN StopPollingIfActive /\ ApplyChanged(m, "stream")
         ELSE UNCHANGED <<loops, display>>
  BY DEF Message, sockets, IInv, TypeOK
<1>2. /\ wire'[s] = Tail(w) /\ \A t \in Socket \ {s} : wire'[t] = wire[t]
      /\ wire'[s] \in Seq(Version) /\ Len(wire'[s]) = Len(w) - 1
      /\ \A i \in 1 .. Len(w) - 1 : wire'[s][i] = w[i + 1]
      /\ m = w[1] /\ m \in Version /\ Len(w) \in Nat \ {0}
      /\ \A i \in 1 .. Len(w) : w[i] \in Version
  BY <1>1, WireSteps
<1>3. wire' \in [Socket -> Seq(Version)]
  BY <1>1, <1>2
<1>4. \A i \in 1 .. Len(w) - 1 :
        /\ i + 1 \in 1 .. Len(w) /\ w[i + 1] \in Version /\ wire'[s][i] = w[i + 1]
        /\ m <= w[i + 1] /\ w[i + 1] <= published
  <2>1. \A i \in 1 .. Len(w) - 1 : i + 1 \in 1 .. Len(w) /\ 1 \in 1 .. Len(w) /\ 1 <= i + 1
    BY <1>2
  <2>2. QED
    BY <1>2, <2>1 DEF IInv, WireOK
<1>5. m <= published
  BY <1>2 DEF IInv, WireOK
<1>6. WireOK'
  <2>1. ASSUME NEW i \in 1 .. Len(w) - 1, NEW j \in 1 .. Len(w) - 1
        PROVE  /\ wire'[s][i] <= published
               /\ i <= j => wire'[s][i] <= wire'[s][j]
    BY <1>2, <1>4 DEF IInv, WireOK
  <2>2. carried' = carried
    BY <1>1 DEF StopPollingIfActive, loops
  <2>3. QED
    BY <1>1, <1>2, <2>1, <2>2 DEF IInv, WireOK
<1>7. CASE ~Listens(s)
  <2>1. UNCHANGED <<phase, carried, alive, stopPolling, lastAppliedSnapshotKey, status, shown>>
    BY <1>1, <1>7 DEF loops, display
  <2>2. TypeOK' /\ HandlesOK'
    BY <1>1, <1>3, <2>1 DEF IInv, TypeOK, HandlesOK, Listens
  <2>3. ShownOK'
    <3>1. \A t \in Socket : Listens(t) => wire'[t] = wire[t]
      BY <1>2, <1>7
    <3>2. QED
      BY <1>1, <2>1, <3>1 DEF IInv, ShownOK, Listens, UpdateKey
  <2>4. QED
    BY <1>6, <2>1, <2>2, <2>3 DEF IInv
<1>8. CASE Listens(s)
  <2>1. /\ stopStream = s /\ stopStream # None /\ ~isStopped
        /\ \A t \in Socket : Listens(t) => t = s
    BY <1>8, NoneType DEF IInv, HandlesOK
  <2>2. /\ stopPolling' = None /\ alive' = {} /\ carried' = carried
        /\ \/ phase' = phase /\ stopPolling = None
           \/ /\ stopPolling \in Loop
              /\ phase' = IF phase[stopPolling] = "waiting"
                         THEN [phase EXCEPT ![stopPolling] = "none"] ELSE phase
    BY <1>1, <1>8, <2>1 DEF StopPollingIfActive, StopLoop, loops, IInv, TypeOK, HandlesOK
  <2>3. /\ phase' \in [Loop -> {"none", "loading", "answered", "waiting"}]
        /\ \A l \in Loop : phase'[l] # "waiting"
        /\ \A l \in Loop : carried[l] # None => phase'[l] = "answered"
    <3>1. phase \in [Loop -> {"none", "loading", "answered", "waiting"}]
      BY DEF IInv, TypeOK
    <3>2. \A l \in Loop : /\ phase[l] = "waiting" => l = stopPolling
                          /\ carried[l] # None => phase[l] = "answered"
      BY <2>1 DEF IInv, TypeOK, HandlesOK
    <3>3. CASE phase' = phase /\ stopPolling = None
      <4>1. \A l \in Loop : phase[l] # "waiting"
        BY <3>2, <3>3, NoneType
      <4>2. QED
        BY <3>1, <3>2, <3>3, <4>1
    <3>4. CASE /\ stopPolling \in Loop
               /\ phase' = IF phase[stopPolling] = "waiting"
                          THEN [phase EXCEPT ![stopPolling] = "none"] ELSE phase
      BY <3>1, <3>2, <3>4
    <3>5. QED
      BY <2>2, <3>3, <3>4
  <2>4. \/ /\ UpdateKey(m) = lastAppliedSnapshotKey
           /\ UNCHANGED <<lastAppliedSnapshotKey, status, shown>>
        \/ /\ lastAppliedSnapshotKey' = UpdateKey(m) /\ shown' = m
           /\ status' = "streaming"
    BY <1>1, <1>8 DEF ApplyChanged, display
  <2>5. UpdateKey(m) \in Nat /\ UpdateKey(m) # None /\ m # None
    BY <1>2, KeyOrder, NoneType
  <2>6. TypeOK'
    BY <1>1, <1>2, <1>3, <2>2, <2>3, <2>4, <2>5 DEF IInv, TypeOK
  <2>7. HandlesOK'
    BY <1>1, <2>1, <2>2, <2>3 DEF IInv, HandlesOK, Listens
  <2>8. /\ shown' # None /\ shown' \in Version /\ shown' <= published
        /\ lastAppliedSnapshotKey' = UpdateKey(shown')
        /\ UpdateKey(m) = UpdateKey(shown')
    BY <1>2, <1>5, <2>4, <2>5 DEF IInv, ShownOK, TypeOK
  <2>9. ASSUME NEW i \in 1 .. Len(w) - 1
        PROVE  wire'[s][i] >= shown' \/ UpdateKey(wire'[s][i]) = lastAppliedSnapshotKey'
    <3>1. /\ wire'[s][i] \in Version /\ m <= wire'[s][i]
      BY <1>4
    <3>2. UpdateKey(m) <= UpdateKey(wire'[s][i])
      BY <1>2, <3>1, KeyOrder
    <3>3. CASE wire'[s][i] <= shown'
      <4>1. UpdateKey(wire'[s][i]) <= UpdateKey(shown')
        BY <2>8, <3>1, <3>3, KeyOrder
      <4>2. QED
        BY <2>8, <3>1, <3>2, <4>1, KeyOrder
    <3>4. QED
      BY <2>8, <3>1, <3>3
  <2>10. ShownOK'
    BY <1>1, <1>2, <2>1, <2>2, <2>8, <2>9 DEF ShownOK, Listens, UpdateKey
  <2>11. QED
    BY <1>6, <2>1, <2>6, <2>7, <2>10 DEF IInv
<1>9. QED
  BY <1>7, <1>8

LEMMA UnavailableKeeps ==
  ASSUME IInv, NEW s \in Socket, Unavailable(s)
  PROVE  IInv' /\ ~isStopped /\ shown' = shown
<1>1. /\ Listens(s) /\ stopStream = s /\ stopStream # None /\ ~isStopped
      /\ socket' = [socket EXCEPT ![s] = "closed"] /\ stopStream' = None
      /\ status' = "disconnected" /\ reconnectTimer' = TRUE
      /\ UNCHANGED <<published, wire, carried, isStopped, lastAppliedSnapshotKey, shown>>
  <2>1. Listens(s) /\ stopStream = s /\ stopStream # None /\ ~isStopped
    BY NoneType DEF Unavailable, IInv, HandlesOK
  <2>2. socket' = [socket EXCEPT ![s] = "closed"] /\ stopStream' = None
    BY <2>1 DEF Unavailable, StopStreamIfActive
  <2>3. reconnectTimer' = TRUE
    BY <2>1 DEF Unavailable, ScheduleReconnect
  <2>4. carried' = carried
    BY DEF Unavailable, StartPolling, loops
  <2>5. QED
    BY <2>1, <2>2, <2>3, <2>4 DEF Unavailable, server
<1>2. \/ /\ stopPolling # None /\ UNCHANGED <<phase, alive, stopPolling>>
      \/ /\ stopPolling = None
         /\ \E l \in Loop : /\ phase[l] = "none"
                           /\ phase' = [phase EXCEPT ![l] = "loading"]
                           /\ alive' = alive \cup {l} /\ stopPolling' = l
  BY DEF Unavailable, StartPolling, loops
<1>3. TypeOK'
  BY <1>1, <1>2 DEF IInv, TypeOK
<1>4. \A t \in Socket : ~Listens(t)'
  BY <1>1 DEF IInv, TypeOK, HandlesOK, Listens
<1>5. HandlesOK'
  <2>1. stopPolling' # None /\ alive' = {stopPolling'}
    BY <1>1, <1>2, NoneType DEF IInv, HandlesOK
  <2>2. \A l \in Loop : phase'[l] = "waiting" => l \in alive'
    BY <1>2 DEF IInv, HandlesOK, TypeOK
  <2>3. QED
    BY <1>1, <1>4, <2>1, <2>2, NoneType DEF HandlesOK
<1>6. WireOK'
  BY <1>1 DEF IInv, WireOK
<1>7. ShownOK'
  <2>1. \A l \in alive' : l \in alive \/ carried'[l] = None
    BY <1>1, <1>2 DEF IInv, TypeOK
  <2>2. QED
    BY <1>1, <1>4, <2>1 DEF IInv, ShownOK, Listens, UpdateKey
<1>8. QED
  BY <1>1, <1>3, <1>5, <1>6, <1>7 DEF IInv

LEMMA GoneKeeps ==
  ASSUME IInv, NEW s \in Socket, Gone(s)
  PROVE  IInv'
<1>1. /\ socket[s] = "closed" /\ socket' = [socket EXCEPT ![s] = "none"]
      /\ wire' = [wire EXCEPT ![s] = <<>>]
      /\ UNCHANGED <<published, stopStream, phase, carried, alive, stopPolling,
                     reconnectTimer, isStopped, lastAppliedSnapshotKey, status, shown>>
  BY DEF Gone, loops, display
<1>2. /\ wire'[s] = <<>> /\ Len(wire'[s]) = 0 /\ <<>> \in Seq(Version)
      /\ \A t \in Socket \ {s} : wire'[t] = wire[t]
  BY <1>1 DEF IInv, TypeOK
<1>3. TypeOK'
  <2>1. wire' \in [Socket -> Seq(Version)]
    BY <1>1, <1>2 DEF IInv, TypeOK
  <2>2. QED
    BY <1>1, <2>1 DEF IInv, TypeOK
<1>4. \A t \in Socket : Listens(t)' <=> Listens(t)
  BY <1>1 DEF Listens, IInv, TypeOK
<1>5. HandlesOK'
  BY <1>1, <1>4 DEF IInv, HandlesOK
<1>6. WireOK'
  BY <1>1, <1>2 DEF IInv, WireOK
<1>7. ShownOK'
  BY <1>1, <1>2, <1>4 DEF IInv, ShownOK, UpdateKey
<1>8. QED
  BY <1>3, <1>5, <1>6, <1>7 DEF IInv

LEMMA ReconnectKeeps ==
  ASSUME IInv, NEW s \in Socket, Reconnect(s)
  PROVE  IInv' /\ ~isStopped /\ shown' = shown
<1>1. /\ ~isStopped /\ stopStream = None /\ stopPolling # None
      /\ reconnectTimer' = FALSE /\ status' = "reconnecting"
      /\ socket' = [socket EXCEPT ![s] = "active"] /\ stopStream' = s
      /\ UNCHANGED <<published, wire, phase, carried, alive, stopPolling, isStopped,
                     lastAppliedSnapshotKey, shown>>
  BY DEF Reconnect, server, loops, IInv, HandlesOK
<1>2. TypeOK'
  BY <1>1 DEF IInv, TypeOK
<1>3. HandlesOK'
  <2>1. \A t \in Socket : Listens(t)' <=> t = s
    BY <1>1, NoneType DEF IInv, TypeOK, HandlesOK, Listens
  <2>2. QED
    BY <1>1, <2>1, NoneType DEF IInv, HandlesOK
<1>4. WireOK' /\ ShownOK'
  BY <1>1 DEF IInv, WireOK, ShownOK, UpdateKey
<1>5. QED
  BY <1>1, <1>2, <1>3, <1>4 DEF IInv

-----------------------------------------------------------------------------
(* Polling                                                                 *)

(* A poll's answer is applied, and never takes the display back.           *)
LEMMA LoadedKeeps ==
  ASSUME IInv, NEW l \in Loop, Loaded(l)
  PROVE  /\ IInv'
         /\ isStopped => UNCHANGED <<shown, status>>
         /\ shown # None => shown' >= shown
<1>1. /\ phase' = [phase EXCEPT ![l] = IF l \in alive THEN "waiting" ELSE "none"]
      /\ carried' = [carried EXCEPT ![l] = None]
      /\ UNCHANGED <<published, wire, socket, stopStream, alive, stopPolling,
                     reconnectTimer, isStopped>>
      /\ shown # None => shown \in Nat
  BY DEF Loaded, server, sockets, IInv, TypeOK
<1>2. \/ UNCHANGED <<lastAppliedSnapshotKey, status, shown>>
      \/ /\ l \in alive /\ carried[l] # None
         /\ lastAppliedSnapshotKey' = UpdateKey(carried[l])
         /\ shown' = carried[l] /\ status' = "fallback_polling"
  BY DEF Loaded, Polls, ApplyChanged, display
<1>3. carried[l] # None => /\ carried[l] \in Version /\ UpdateKey(carried[l]) \in Nat
                           /\ UpdateKey(carried[l]) # None
  BY KeyOrder DEF IInv, TypeOK
<1>4. TypeOK'
  BY <1>1, <1>2, <1>3 DEF IInv, TypeOK
<1>5. HandlesOK'
  BY <1>1 DEF IInv, TypeOK, HandlesOK, Listens
<1>6. WireOK'
  BY <1>1 DEF IInv, TypeOK, WireOK
<1>7. l \in alive /\ carried[l] # None => /\ shown # None => carried[l] >= shown
                                         /\ carried[l] <= published
                                         /\ stopPolling # None /\ ~isStopped
  BY DEF IInv, WireOK, ShownOK, HandlesOK
<1>8. ShownOK'
  <2>1. \A k \in alive : carried'[k] # None => k # l /\ carried'[k] = carried[k]
    BY <1>1 DEF IInv, TypeOK
  <2>2. l \in alive => alive = {l}
    BY DEF IInv, HandlesOK
  <2>3. CASE UNCHANGED <<lastAppliedSnapshotKey, status, shown>>
    BY <1>1, <2>1, <2>3 DEF IInv, ShownOK, Listens, UpdateKey
  <2>4. CASE l \in alive /\ carried[l] # None /\ shown' = carried[l]
             /\ lastAppliedSnapshotKey' = UpdateKey(carried[l])
    BY <1>1, <1>7, <2>1, <2>2, <2>4 DEF ShownOK, UpdateKey
  <2>5. QED
    BY <1>2, <2>3, <2>4
<1>9. QED
  BY <1>1, <1>2, <1>4, <1>5, <1>6, <1>7, <1>8 DEF IInv, HandlesOK

LEMMA PollTimerKeeps ==
  ASSUME IInv, NEW l \in Loop, PollTimer(l)
  PROVE  IInv'
<1>1. /\ phase[l] = "waiting" /\ phase' = [phase EXCEPT ![l] = "loading"]
      /\ UNCHANGED <<published, wire, socket, stopStream, carried, alive, stopPolling,
                     reconnectTimer, isStopped, lastAppliedSnapshotKey, status, shown>>
  BY DEF PollTimer, server, sockets, display
<1>2. TypeOK'
  BY <1>1 DEF IInv, TypeOK
<1>3. HandlesOK'
  BY <1>1 DEF IInv, TypeOK, HandlesOK, Listens
<1>4. WireOK' /\ ShownOK'
  BY <1>1 DEF IInv, WireOK, ShownOK, Listens, UpdateKey
<1>5. QED
  BY <1>2, <1>3, <1>4 DEF IInv

LEMMA StopKeeps ==
  ASSUME IInv, Stop
  PROVE  IInv' /\ ~isStopped /\ shown' = shown
<1>1. /\ ~isStopped /\ isStopped' = TRUE /\ reconnectTimer' = FALSE
      /\ socket' = IF stopStream = None THEN socket
                   ELSE [socket EXCEPT ![stopStream] = "closed"]
      /\ stopStream' = None
      /\ UNCHANGED <<published, wire, carried, stopPolling, lastAppliedSnapshotKey,
                     status, shown>>
  BY DEF Stop, StopStreamIfActive, server, display
<1>2. /\ alive' = {}
      /\ \/ phase' = phase /\ alive = {}
         \/ /\ stopPolling \in Loop /\ alive = {stopPolling}
            /\ phase' = IF phase[stopPolling] = "waiting"
                       THEN [phase EXCEPT ![stopPolling] = "none"] ELSE phase
  BY NoneType DEF Stop, StopLoop, IInv, HandlesOK, TypeOK
<1>3. TypeOK'
  <2>1. /\ phase' \in [Loop -> {"none", "loading", "answered", "waiting"}]
        /\ \A l \in Loop : carried[l] # None => phase'[l] = "answered"
    BY <1>2 DEF IInv, TypeOK
  <2>2. socket' \in [Socket -> {"none", "active", "closed"}]
    BY <1>1 DEF IInv, TypeOK
  <2>3. /\ alive' \subseteq Loop /\ stopStream' \in Socket \cup {None}
        /\ reconnectTimer' \in BOOLEAN /\ isStopped' \in BOOLEAN
        /\ UNCHANGED <<published, wire, carried, stopPolling,
                       lastAppliedSnapshotKey, status, shown>>
    BY <1>1, <1>2
  <2>4. QED
    BY <2>1, <2>2, <2>3 DEF IInv, TypeOK
<1>4. \A t \in Socket : ~Listens(t)'
  <2>1. stopStream = None => \A t \in Socket : ~Listens(t)
    BY NoneType DEF IInv, HandlesOK
  <2>2. stopStream # None => \A t \in Socket : Listens(t) => t = stopStream
    BY DEF IInv, HandlesOK
  <2>3. QED
    BY <1>1, <2>1, <2>2 DEF IInv, TypeOK, Listens
<1>5. HandlesOK'
  <2>1. \A l \in Loop : phase'[l] # "waiting"
    BY <1>2 DEF IInv, HandlesOK, TypeOK
  <2>2. QED
    BY <1>1, <1>2, <1>4, <2>1, NoneType DEF HandlesOK
<1>6. WireOK'
  BY <1>1 DEF IInv, WireOK
<1>7. ShownOK'
  BY <1>1, <1>2, <1>4 DEF IInv, ShownOK, UpdateKey
<1>8. QED
  BY <1>1, <1>3, <1>5, <1>6, <1>7 DEF IInv

-----------------------------------------------------------------------------
LEMMA StepKeeps ==
  ASSUME IInv, [Next]_vars
  PROVE  IInv'
<1>1. CASE Publish
  BY <1>1, PublishKeeps
<1>2. CASE Stop
  BY <1>2, StopKeeps
<1>3. ASSUME NEW s \in Socket,
             Send(s) \/ Message(s) \/ Unavailable(s) \/ Gone(s) \/ Reconnect(s)
      PROVE  IInv'
  BY <1>3, SendKeeps, MessageKeeps, UnavailableKeeps, GoneKeeps, ReconnectKeeps
<1>4. ASSUME NEW l \in Loop,
             \/ \E v \in {published, None} : Answer(l, v)
             \/ Loaded(l) \/ PollTimer(l)
      PROVE  IInv'
  BY <1>4, AnswerKeeps, LoadedKeeps, PollTimerKeeps
<1>5. CASE UNCHANGED vars
  BY <1>5 DEF vars, server, sockets, loops, display, IInv, TypeOK, HandlesOK, WireOK,
              ShownOK, Listens, UpdateKey
<1>6. QED
  BY <1>1, <1>2, <1>3, <1>4, <1>5 DEF Next

(* The invariant holds in every state the updates reach.                   *)
THEOREM InductiveInvariant == Spec => []IInv
<1>1. Init => IInv
  BY InitKeeps
<1>2. IInv /\ [Next]_vars => IInv'
  BY StepKeeps
<1>3. QED
  BY <1>1, <1>2, PTL DEF Spec

(* Every variable keeps its type: handles, sockets, loops and what is on its way. *)
THEOREM TypeCorrect == Spec => []TypeOK
<1>1. IInv => TypeOK
  BY DEF IInv
<1>2. QED
  BY <1>1, InductiveInvariant, PTL

(* stop() leaves no socket, loop or timer behind.                          *)
THEOREM NothingIsLeft == Spec => []StopLeavesNothing
<1>1. IInv => StopLeavesNothing
  BY NoneType DEF IInv, HandlesOK, StopLeavesNothing
<1>2. QED
  BY <1>1, InductiveInvariant, PTL

(* handleUnavailable and scheduleReconnect never leave the dashboard       *)
(* without a source, nor with two of a kind.                               *)
THEOREM AlwaysASource == Spec => []SourceAtAllTimes
<1>1. IInv => SourceAtAllTimes
  <2>1. SUFFICES ASSUME IInv, ~isStopped
                 PROVE  /\ \/ \E s \in Socket : Listens(s)
                           \/ alive # {} /\ reconnectTimer
                        /\ \A s, t \in Socket : Listens(s) /\ Listens(t) => s = t
                        /\ \A l, m \in alive : l = m
    BY DEF SourceAtAllTimes
  <2>2. (\E s \in Socket : Listens(s)) \/ (alive # {} /\ reconnectTimer)
    BY <2>1 DEF IInv, TypeOK, HandlesOK
  <2>3. \A l, m \in alive : l = m
    BY <2>1 DEF IInv, HandlesOK
  <2>4. \A s, t \in Socket : Listens(s) /\ Listens(t) => s = t
    BY <2>1 DEF IInv, HandlesOK
  <2>5. QED
    BY <2>2, <2>3, <2>4
<1>2. QED
  BY <1>1, InductiveInvariant, PTL

(* A snapshot older than the one shown is applied only when a stream takes *)
(* over from polling.                                                      *)
THEOREM OnlyTakeoverGoesBack == Spec => BackOnlyAtTakeover
<1> DEFINE Back == /\ shown # None /\ shown' # shown /\ ~(shown' > shown)
                   /\ ~(stopPolling # None /\ stopPolling' = None)
<1>1. IInv /\ [Next]_vars => ~Back
  <2>1. SUFFICES ASSUME IInv, [Next]_vars, Back
                 PROVE  FALSE
    OBVIOUS
  <2>2. CASE \E s \in Socket : Message(s)
    <3>1. PICK s \in Socket : Message(s)
      BY <2>2
    <3>2. /\ wire[s] \in Seq(Version) /\ wire[s] # <<>> /\ shown \in Nat
      BY <2>1, <3>1 DEF Message, IInv, TypeOK
    <3>3. /\ Head(wire[s]) = wire[s][1] /\ 1 \in 1 .. Len(wire[s])
          /\ wire[s][1] \in Nat
      BY <3>2, WireSteps, KeyOrder
    <3>4. /\ Listens(s) /\ StopPollingIfActive /\ shown' = Head(wire[s])
          /\ UpdateKey(Head(wire[s])) # lastAppliedSnapshotKey
      BY <2>1, <3>1 DEF Message, ApplyChanged, display
    <3>5. stopPolling = None
      BY <2>1, <3>4 DEF StopPollingIfActive
    <3>6. wire[s][1] >= shown
      BY <2>1, <3>3, <3>4, <3>5 DEF IInv, ShownOK
    <3>7. QED
      BY <2>1, <3>2, <3>3, <3>4, <3>6
  <2>3. CASE \E l \in Loop : Loaded(l)
    <3>1. shown' >= shown /\ shown \in Nat /\ shown' \in Nat \cup {None}
      BY <2>1, <2>3, LoadedKeeps DEF IInv, TypeOK
    <3>2. shown' \in Nat
      BY <2>1, <2>3, <3>1 DEF Loaded, ApplyChanged, display, IInv, TypeOK
    <3>3. QED
      BY <2>1, <3>1, <3>2
  <2>4. CASE \/ Publish \/ Stop \/ UNCHANGED vars
             \/ \E s \in Socket :
                  Send(s) \/ Unavailable(s) \/ Gone(s) \/ Reconnect(s)
             \/ \E l \in Loop :
                  PollTimer(l) \/ \E v \in {published, None} : Answer(l, v)
    BY <2>1, <2>4 DEF Publish, Stop, Send, Unavailable, Gone, Reconnect, PollTimer,
                      Answer, display, vars
  <2>5. QED
    BY <2>1, <2>2, <2>3, <2>4 DEF Next
<1>2. QED
  BY <1>1, InductiveInvariant, PTL DEF Spec, BackOnlyAtTakeover

(* Nothing reaches the dashboard once it has called stop().                *)
THEOREM StopIsQuiet == Spec => StoppedIsQuiet
<1>1. IInv /\ [Next]_vars => (isStopped => UNCHANGED <<shown, status>>)
  <2>1. SUFFICES ASSUME IInv, [Next]_vars, isStopped
                 PROVE  UNCHANGED <<shown, status>>
    OBVIOUS
  <2>2. CASE \E s \in Socket : Message(s) \/ Unavailable(s) \/ Reconnect(s)
    BY <2>1, <2>2, MessageKeeps, UnavailableKeeps, ReconnectKeeps
  <2>3. CASE \E l \in Loop : Loaded(l)
    BY <2>1, <2>3, LoadedKeeps
  <2>4. CASE \/ Publish \/ Stop \/ UNCHANGED vars
             \/ \E s \in Socket : Send(s) \/ Gone(s)
             \/ \E l \in Loop :
                  PollTimer(l) \/ \E v \in {published, None} : Answer(l, v)
    BY <2>1, <2>4 DEF Publish, Stop, Send, Gone, PollTimer, Answer, display, vars
  <2>5. QED
    BY <2>1, <2>2, <2>3, <2>4 DEF Next
<1>2. QED
  BY <1>1, InductiveInvariant, PTL DEF Spec, StoppedIsQuiet
=============================================================================
