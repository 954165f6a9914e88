----------------------- MODULE ReplayDashboardProof -----------------------
(***************************************************************************)
(* The safety of ReplayDashboard, for any sessions, timelines and speeds.  *)
(*                                                                         *)
(* The invariant ties each flag of the page to the requests under way and  *)
(* the request that counts to the selection.  Its steps go by the two      *)
(* effects of a rendering: either a frame is loaded, which establishes all *)
(* of what the invariant says of requests (Loads), or nothing is.          *)
(***************************************************************************)
EXTENDS ReplayDashboard, WellFoundedInduction, TLAPS

USE ExactType, TimesType, SomeTimes, StrideType, NoneType

(* The session of a timeline is listed.                                    *)
LEMMA ShownType ==
  ASSUME NEW listed \in SUBSET Session, NEW id \in Session \cup {None}
  PROVE  /\ Shown(listed, id) \in Session \cup {None}
         /\ Shown(listed, id) = None => listed = {}
BY DEF Shown

LEMMA EntriesType ==
  ASSUME NEW s \in Session \cup {None}, NEW state
  PROVE  EntriesOf(s, state) \in Seq(Nat \cup {None})
BY DEF EntriesOf

(* A clamped index is that of an entry, if there is one.                   *)
LEMMA ClampedType ==
  ASSUME NEW entries \in Seq(Nat \cup {None}), NEW i \in Nat \ {0}
  PROVE  /\ Clamped(i, entries) \in Nat \ {0}
         /\ entries # <<>> => Clamped(i, entries) <= Len(entries)
<1>1. entries # <<>> => Len(entries) > 0
  OBVIOUS
<1> QED
  BY <1>1 DEF Clamped

(* Playback goes to a later entry, and only at the last one stays.         *)
LEMMA NextIndexAdvances ==
  ASSUME NEW entries \in Seq(Nat \cup {None}), NEW i \in 1 .. Len(entries),
         NEW stride \in Nat \ {0}
  PROVE  /\ NextIndex(entries, i, stride) \in 1 .. Len(entries)
         /\ i < Len(entries) => NextIndex(entries, i, stride) > i
         /\ i = Len(entries) => NextIndex(entries, i, stride) = i
<1> DEFINE reached == {j \in i + 1 .. Len(entries) :
                         entries[j] # None /\ entries[j] >= entries[i] + stride}
           Less == {p \in Nat \X Nat : p[1] < p[2]}
           first == CHOOSE j \in reached : \A k \in reached : j <= k
<1>1. ASSUME reached # {} PROVE first \in reached
  <2>1. reached \subseteq Nat
    OBVIOUS
  <2>2. IsWellFoundedOn(Less, Nat)
    BY NatLessThanWellFounded DEF OpToRel
  <2>3. PICK j \in reached : \A k \in reached : <<k, j>> \notin Less
    <3> HIDE DEF reached, Less
    <3> QED BY <1>1, <2>1, <2>2, WFMin
  <2>4. \A k \in reached : j <= k
    <3> HIDE DEF reached
    <3> SUFFICES ASSUME NEW k \in reached PROVE j <= k
      OBVIOUS
    <3>1. j \in Nat /\ k \in Nat /\ <<k, j>> \notin Less
      BY <2>1, <2>3
    <3> QED BY <3>1
  <2> QED BY <2>4
<1> HIDE DEF first
<1>2. NextIndex(entries, i, stride) \in {i + 1, Len(entries)} \cup reached
  BY <1>1 DEF NextIndex, first
<1>3. i < Len(entries) => NextIndex(entries, i, stride) > i
  BY <1>2
<1>4. i = Len(entries) => NextIndex(entries, i, stride) = i
  BY DEF NextIndex
<1> QED
  BY <1>2, <1>3, <1>4

-----------------------------------------------------------------------------
Inv == TypeOK /\ IInv

(* A frame of a timeline that is displayed may be asked for.               *)
LEMMA FrameType ==
  ASSUME NEW listed \in SUBSET Session, NEW id \in Session \cup {None}, NEW state,
         NEW i \in Nat \ {0},
         id # None, EntriesOf(Shown(listed, id), state) # <<>>
  PROVE  <<id, Shown(listed, id), i>> \in Request
BY ShownType DEF EntriesOf, Request

(* Every request is of its type.                                           *)
RequestsOK ==
  /\ load \in Request \cup {None} /\ overtaken \in Request \cup {None}
  /\ replayRequestsCanceled \in BOOLEAN /\ isLoadingReplay \in BOOLEAN
  /\ scenarioRequestsCanceled \in BOOLEAN /\ isApplyingScenario \in BOOLEAN
  /\ awaited \in {"nothing", "live", "replay", "scenario"}

(* What loading a frame establishes.                                       *)
LEMMA Loads ==
  ASSUME RequestsOK, SelectedFrame' \in Request, StartLoad(SelectedFrame')
  PROVE  RequestsOK' /\ AwaitedIsUnderWay' /\ NoVainWait'
BY DEF RequestsOK, StartLoad, OvertakeLoad, AwaitedIsUnderWay, NoVainWait, SelectedFrame

(* What canceling the request of a frame preserves.                        *)
LEMMA Cancels ==
  ASSUME RequestsOK, AwaitedIsUnderWay, NoVainWait, CancelLoad, UNCHANGED applying
  PROVE  RequestsOK' /\ AwaitedIsUnderWay' /\ NoVainWait'
BY DEF RequestsOK, CancelLoad, OvertakeLoad, AwaitNoFrame, AwaitedIsUnderWay, NoVainWait,
   scenarioFlags, applying

(* What an effect that finds nothing to load preserves: the request of a   *)
(* frame that counts is still that of the frame selected.                  *)
LEMMA Stays ==
  ASSUME RequestsOK, AwaitedIsUnderWay, NoVainWait,
         UNCHANGED <<requests, applying, selectedSession>>,
         awaited = "replay" => timeline' = "unavailable" \/ SelectedFrame' = SelectedFrame,
         awaited = "replay" => timeline # "unavailable" \/ timeline' = "unavailable",
         isLoadingReplay /\ awaited # "replay" =>
           sessionsRequest' = "confirm" /\ selectedSession' # None /\ Entries' # <<>>
  PROVE  RequestsOK' /\ AwaitedIsUnderWay' /\ NoVainWait'
BY DEF RequestsOK, requests, loading, applying, scenarioFlags, AwaitedIsUnderWay, NoVainWait

(* The facts about the selection that the steps use.                       *)
LEMMA Selection ==
  ASSUME TypeOK
  PROVE  /\ SelectedSession \in Session \cup {None}
         /\ Entries \in Seq(Nat \cup {None})
         /\ Entries # <<>> /\ selectedSession # None => SelectedFrame \in Request
         /\ SelectedSession # None => Times[SelectedSession] \in Seq(Nat \cup {None})
         /\ RequestsOK
BY ShownType, EntriesType, FrameType
   DEF TypeOK, SelectedSession, Entries, SelectedFrame, RequestsOK

SelectionOK ==
  /\ replaySessions \subseteq Session /\ selectedSession \in Session \cup {None}
  /\ selectedIndex \in Nat \ {0}
  /\ timeline \in {"ready", "loading", "unavailable"}

LEMMA NextSelection ==
  ASSUME SelectionOK'
  PROVE  /\ SelectedSession' \in Session \cup {None}
         /\ Entries' \in Seq(Nat \cup {None})
         /\ Entries' # <<>> /\ selectedSession' # None => SelectedFrame' \in Request
         /\ SelectedSession' # None => Times[SelectedSession'] \in Seq(Nat \cup {None})
BY ShownType, EntriesType, FrameType
   DEF SelectionOK, SelectedSession, Entries, SelectedFrame

LEMMA TypeByParts ==
  ASSUME SelectionOK', RequestsOK',
         sessionsRequest' \in {"list", "confirm", "none"},
         scenario' \in BOOLEAN, overtakenScenario' \in BOOLEAN,
         isReplayStreamActive' \in BOOLEAN, isScenarioModeActive' \in BOOLEAN,
         isReplayModeActive' \in BOOLEAN, snapshot' \in Request \cup {Live, Scenario}
  PROVE  TypeOK'
BY DEF SelectionOK, RequestsOK, TypeOK

-----------------------------------------------------------------------------
(* The invariant holds in the initial states.                              *)
LEMMA InitInv == Init => Inv
<1> SUFFICES ASSUME Init PROVE Inv
  OBVIOUS
<1>1. TypeOK
  <2>1. selectedIndex \in Nat \ {0}
    BY DEF Init
  <2> QED
    BY <2>1 DEF Init, TypeOK
<1>2. SelectedSession = None /\ Entries = <<>>
  BY DEF Init, SelectedSession, Shown, Entries, EntriesOf
<1>3. ModesExclude /\ AwaitedIsUnderWay /\ NoVainWait /\ SelectionExists
  BY <1>2 DEF Init, ModesExclude, AwaitedIsUnderWay, NoVainWait, SelectionExists
<1> QED BY <1>1, <1>3 DEF Inv, IInv

LEMMA ListArrivesInv == Inv /\ ListArrives => Inv'
<1> SUFFICES ASSUME Inv, ListArrives PROVE Inv'
  OBVIOUS
<1> USE DEF Inv, IInv
<1>1. SelectionOK'
  BY ShownType DEF ListArrives, TypeOK, SelectionOK, FreshTimeline
<1>2. ~isLoadingReplay /\ awaited # "replay" /\ ~isReplayStreamActive
  BY DEF ListArrives, NoVainWait, AwaitedIsUnderWay, SelectionExists, TypeOK, Request
<1>3. RequestsOK' /\ AwaitedIsUnderWay' /\ NoVainWait'
  <2>1. CASE selectedSession' # None /\ Entries' # <<>>
    BY <1>1, <2>1, Selection, NextSelection, Loads DEF ListArrives, AutoLoad
  <2>2. CASE ~(selectedSession' # None /\ Entries' # <<>>)
    <3>1. UNCHANGED <<requests, applying>>
      BY <2>2 DEF ListArrives, AutoLoad
    <3> QED
      BY <1>2, <3>1, Selection
         DEF RequestsOK, requests, loading, applying, scenarioFlags, AwaitedIsUnderWay, NoVainWait
  <2> QED BY <2>1, <2>2
<1>4. SelectionExists'
  BY <1>1, <1>2, NextSelection
     DEF ListArrives, SelectionExists, FreshTimeline, Entries, EntriesOf
<1>5. ModesExclude'
  BY <1>2, <1>3 DEF ListArrives, ModesExclude, modes, AutoLoad, StartLoad, requests
<1>6. TypeOK'
  BY <1>1, <1>3, TypeByParts DEF ListArrives, TypeOK, applying, modes
<1> QED BY <1>3, <1>4, <1>5, <1>6

LEMMA ConfirmInv == Inv /\ Confirm => Inv'
BY DEF Inv, IInv, Confirm, TypeOK, ModesExclude, AwaitedIsUnderWay, NoVainWait,
       SelectionExists, SelectedSession, Entries, SelectedFrame, selection, requests, loading,
       scenarioFlags, applying, modes

LEMMA ConfirmFailsInv == Inv /\ ConfirmFails => Inv'
<1> SUFFICES ASSUME Inv, ConfirmFails PROVE Inv'
  OBVIOUS
<1> USE DEF Inv, IInv
<1>1. SelectionOK' /\ UNCHANGED <<SelectedSession, Entries, SelectedFrame>>
  BY DEF ConfirmFails, TypeOK, SelectionOK, selection, SelectedSession, Entries, SelectedFrame
<1>2. RequestsOK' /\ AwaitedIsUnderWay' /\ NoVainWait'
  <2>1. CASE selectedSession' # None /\ Entries' # <<>>
    BY <1>1, <2>1, Selection, NextSelection, Loads DEF ConfirmFails, AutoLoad
  <2>2. CASE ~(selectedSession' # None /\ Entries' # <<>>)
    <3>1. UNCHANGED <<requests, applying, selectedSession, timeline>>
      BY <2>2 DEF ConfirmFails, AutoLoad, selection
    <3>2. ~(isLoadingReplay /\ awaited # "replay")
      BY <1>1, <2>2, <3>1 DEF NoVainWait
    <3> QED
      BY <1>1, <3>1, <3>2, Selection, Stays
  <2> QED BY <2>1, <2>2
<1>3. SelectionExists'
  <2>1. awaited' = "replay" /\ awaited # "replay" => Entries # <<>>
    BY <1>1 DEF ConfirmFails, AutoLoad, requests
  <2> QED
    BY <1>1, <2>1, NextSelection
       DEF ConfirmFails, SelectionExists, selection, Entries, EntriesOf
<1>4. ModesExclude'
  BY <1>2 DEF ConfirmFails, ModesExclude, modes, AutoLoad, StartLoad, requests
<1>5. TypeOK'
  BY <1>1, <1>2, TypeByParts DEF ConfirmFails, TypeOK, applying, modes
<1> QED BY <1>2, <1>3, <1>4, <1>5

LEMMA ConfirmedInv == Inv /\ Confirmed => Inv'
<1> SUFFICES ASSUME Inv, Confirmed PROVE Inv'
  OBVIOUS
<1> USE DEF Inv, IInv
<1> DEFINE atHand == IF SelectedSession' = SelectedSession THEN timeline
                     ELSE FreshTimeline(SelectedSession')
<1>1. SelectionOK' /\ SelectedSession' \in Session \cup {None}
  <2>1. /\ replaySessions' \subseteq Session
        /\ selectedSession' \in Session \cup {None}
    BY DEF Confirmed, TypeOK
  <2>2. SelectedSession' \in Session \cup {None}
    BY <2>1, ShownType DEF SelectedSession
  <2>3. selectedIndex' \in Nat \ {0}
    <3>1. Clamped(selectedIndex, EntriesOf(SelectedSession', "ready")) \in Nat \ {0}
      BY <2>2, EntriesType, ClampedType DEF TypeOK
    <3>2. selectedIndex' \in {1, selectedIndex,
                             Clamped(selectedIndex, EntriesOf(SelectedSession', "ready"))}
      BY DEF Confirmed
    <3> QED
      BY <3>1, <3>2 DEF TypeOK
  <2> QED
    BY <2>1, <2>2, <2>3 DEF Confirmed, SelectionOK, FreshTimeline
<1>2. /\ EntriesOf(SelectedSession', atHand) # <<>> =>
           /\ SelectedSession' # None
           /\ selectedIndex' <= Len(Times[SelectedSession'])
      /\ Entries' # <<>> => selectedIndex' <= Len(Entries')
  <2>1. CASE selectedIndex' = 1
    BY <1>1, <2>1, NextSelection DEF Entries, EntriesOf
  <2>2. CASE SelectedSession' \in Exact /\ selectedIndex' = selectedIndex
    BY <1>1, <2>2, Selection
       DEF Confirmed, FreshTimeline, Entries, EntriesOf, SelectionExists
  <2>3. CASE /\ SelectedSession' \notin Exact
             /\ selectedIndex' = Clamped(selectedIndex, EntriesOf(SelectedSession', "ready"))
    BY <1>1, <2>3, EntriesType, ClampedType, Selection
       DEF Confirmed, FreshTimeline, Entries, EntriesOf, TypeOK
  <2> QED
    BY <2>1, <2>2, <2>3 DEF Confirmed
<1>3. RequestsOK' /\ AwaitedIsUnderWay' /\ NoVainWait'
  <2>1. CASE selectedSession' # None /\ EntriesOf(SelectedSession', atHand) # <<>>
    <3>1. SelectedFrame' \in Request
      BY <1>1, <1>2, <2>1 DEF SelectedFrame, SelectionOK, Request
    <3> QED
      BY <2>1, <3>1, Selection, Loads DEF Confirmed, AutoLoad
  <2>2. CASE ~(selectedSession' # None /\ EntriesOf(SelectedSession', atHand) # <<>>)
    BY <2>2, Selection, Cancels DEF Confirmed, AutoLoad
  <2> QED BY <2>1, <2>2
<1>4. awaited' = "replay" => EntriesOf(SelectedSession', atHand) # <<>>
  BY DEF Confirmed, AutoLoad, CancelLoad, AwaitNoFrame
<1>5. SelectionExists'
  BY <1>2, <1>4 DEF Confirmed, SelectionExists, FreshTimeline
<1>6. ModesExclude'
  BY DEF Confirmed, ModesExclude, modes, AutoLoad, StartLoad, CancelLoad, AwaitNoFrame
<1>7. TypeOK'
  BY <1>1, <1>3, TypeByParts DEF Confirmed, TypeOK, applying, modes
<1> QED BY <1>3, <1>5, <1>6, <1>7

LEMMA TimestampsArriveInv == Inv /\ TimestampsArrive => Inv'
<1> SUFFICES ASSUME Inv, TimestampsArrive PROVE Inv'
  OBVIOUS
<1> USE DEF Inv, IInv
<1>1. /\ SelectedSession' = SelectedSession /\ SelectedSession \in Exact /\ Entries = <<>>
      /\ timeline' = "ready" => Entries' = Times[SelectedSession]
      /\ timeline' = "unavailable" => Entries' = <<>>
  BY DEF TimestampsArrive, SelectionExists, SelectedSession, Entries, EntriesOf
<1>2. Entries' \in Seq(Nat \cup {None}) /\ ~isReplayStreamActive
  <2>1. Times[SelectedSession] \in Seq(Nat \cup {None})
    BY <1>1
  <2>2. timeline' = "ready" \/ timeline' = "unavailable"
    BY DEF TimestampsArrive
  <2>3. ~isReplayStreamActive
    BY <1>1 DEF SelectionExists
  <2>4. <<>> \in Seq(Nat \cup {None})
    OBVIOUS
  <2>5. Entries' \in Seq(Nat \cup {None})
    BY <1>1, <2>1, <2>2, <2>4, Zenon
  <2> QED
    BY <2>3, <2>5
<1>3. /\ SelectionOK'
      /\ Entries' # <<>> => selectedIndex' <= Len(Entries')
  <2>1. /\ selectedIndex' \in Nat \ {0}
        /\ Entries' # <<>> => selectedIndex' <= Len(Entries')
    BY <1>2, ClampedType DEF TimestampsArrive, TypeOK
  <2> QED
    BY <2>1 DEF TimestampsArrive, TypeOK, SelectionOK
<1>4. awaited = "replay" /\ timeline' = "ready" => SelectedFrame' = SelectedFrame
  <2> SUFFICES ASSUME awaited = "replay", timeline' = "ready"
               PROVE  selectedIndex' = selectedIndex
    BY <1>1 DEF TimestampsArrive, SelectedFrame
  <2>1. selectedIndex <= Len(Times[SelectedSession])
    BY <1>1 DEF SelectionExists
  <2> QED
    BY <1>1, <2>1 DEF TimestampsArrive, Clamped, TypeOK
<1>5. RequestsOK' /\ AwaitedIsUnderWay' /\ NoVainWait'
  <2>1. CASE sessionsRequest' = "none" /\ selectedSession' # None /\ Entries' # <<>>
    BY <1>3, <2>1, Selection, NextSelection, Loads DEF TimestampsArrive, AutoLoad
  <2>2. CASE ~(sessionsRequest' = "none" /\ selectedSession' # None /\ Entries' # <<>>)
    <3>1. UNCHANGED <<requests, applying, selectedSession>>
      BY <2>2 DEF TimestampsArrive, AutoLoad
    <3>2. ~(isLoadingReplay /\ awaited # "replay")
      BY <1>1 DEF NoVainWait
    <3> QED
      BY <1>4, <3>1, <3>2, Selection, Stays DEF TimestampsArrive
  <2> QED BY <2>1, <2>2
<1>6. SelectionExists'
  <2>1. awaited' = "replay" => selectedIndex' <= Len(Times[SelectedSession])
    <3>1. CASE timeline' = "ready"
      BY <1>1, <1>3, <3>1
    <3>2. CASE timeline' = "unavailable"
      BY <1>1, <3>2 DEF TimestampsArrive, Clamped
    <3> QED BY <3>1, <3>2 DEF TimestampsArrive
  <2> QED
    BY <1>1, <1>2, <1>3, <2>1 DEF TimestampsArrive, SelectionExists
<1>7. ModesExclude'
  BY <1>2 DEF TimestampsArrive, ModesExclude, modes, AutoLoad, StartLoad, requests
<1>8. TypeOK'
  BY <1>3, <1>5, TypeByParts DEF TimestampsArrive, TypeOK, applying, modes
<1> QED BY <1>5, <1>6, <1>7, <1>8

-----------------------------------------------------------------------------
LEMMA SelectSessionInv == Inv /\ SelectSession => Inv'
<1> SUFFICES ASSUME Inv, SelectSession PROVE Inv'
  OBVIOUS
<1> USE DEF Inv, IInv
<1>1. SelectionOK' /\ SelectedSession' = selectedSession' /\ selectedSession' \in Session
  BY DEF SelectSession, TypeOK, SelectionOK, FreshTimeline, SelectedSession, Shown
<1>2. Entries' # <<>> => selectedIndex' <= Len(Entries')
  BY <1>1, NextSelection DEF SelectSession
<1>3. RequestsOK' /\ AwaitedIsUnderWay' /\ NoVainWait'
  <2>1. CASE Entries' # <<>> /\ selectedSession' # None
    BY <1>1, <2>1, Selection, NextSelection, Loads DEF SelectSession, AutoLoad
  <2>2. CASE ~(Entries' # <<>> /\ selectedSession' # None)
    BY <2>2, Selection, Cancels DEF SelectSession, AutoLoad
  <2> QED BY <2>1, <2>2
<1>4. SelectionExists'
  <2>1. timeline' # "ready" => SelectedSession' \in Exact
    BY <1>1 DEF SelectSession, SelectionExists, FreshTimeline
  <2>2. selectedIndex' <= Len(Times[SelectedSession'])
    BY <1>1 DEF SelectSession
  <2> QED
    BY <1>2, <2>1, <2>2 DEF SelectSession, SelectionExists
<1>5. ModesExclude'
  BY DEF SelectSession, ModesExclude, modes, AutoLoad, StartLoad, CancelLoad, AwaitNoFrame
<1>6. TypeOK'
  BY <1>1, <1>3, TypeByParts DEF SelectSession, TypeOK, applying, modes
<1> QED BY <1>3, <1>4, <1>5, <1>6

(* A step of the index along the timeline that is displayed.               *)
LEMMA IndexMoves ==
  ASSUME Inv, selectedIndex' \in DOMAIN Entries,
         UNCHANGED <<sessionsRequest, replaySessions, selectedSession, timeline>>,
         isReplayStreamActive' => selectedSession # None
  PROVE  /\ SelectionOK' /\ SelectionExists'
         /\ SelectedSession' = SelectedSession /\ Entries' = Entries /\ Entries # <<>>
BY Selection
   DEF Inv, IInv, TypeOK, SelectionOK, SelectionExists, SelectedSession, Entries, EntriesOf

LEMMA SelectFrameInv == Inv /\ SelectFrame => Inv'
<1> SUFFICES ASSUME Inv, SelectFrame PROVE Inv'
  OBVIOUS
<1> USE DEF Inv, IInv
<1>1. /\ SelectionOK' /\ SelectionExists'
      /\ SelectedSession' = SelectedSession /\ Entries' = Entries /\ Entries # <<>>
  BY IndexMoves DEF SelectFrame
<1>2. RequestsOK' /\ AwaitedIsUnderWay' /\ NoVainWait'
  <2>1. CASE selectedSession' # None /\ selectedIndex' # selectedIndex
    BY <1>1, <2>1, Selection, NextSelection, Loads DEF SelectFrame, ControlsEnabled, AutoLoad
  <2>2. CASE ~(selectedSession' # None /\ selectedIndex' # selectedIndex)
    BY <2>2, Selection, Cancels DEF SelectFrame, AutoLoad
  <2> QED BY <2>1, <2>2
<1>3. ModesExclude'
  BY DEF SelectFrame, ModesExclude, modes, AutoLoad, StartLoad, CancelLoad, AwaitNoFrame
<1>4. TypeOK'
  BY <1>1, <1>2, TypeByParts DEF SelectFrame, TypeOK, applying, modes
<1> QED BY <1>1, <1>2, <1>3, <1>4

LEMMA LoadReplayInv == Inv /\ LoadReplay => Inv'
<1> SUFFICES ASSUME Inv, LoadReplay PROVE Inv'
  OBVIOUS
<1> USE DEF Inv, IInv
<1>1. /\ SelectionOK'
      /\ UNCHANGED <<SelectedSession, Entries, SelectedFrame>>
      /\ Entries # <<>> /\ SelectedFrame \in Request
  BY Selection
     DEF LoadReplay, ControlsEnabled, TypeOK, SelectionOK, selection, SelectedSession, Entries,
         SelectedFrame
<1>2. RequestsOK' /\ AwaitedIsUnderWay' /\ NoVainWait'
  BY <1>1, Selection, Loads DEF LoadReplay
<1>3. SelectionExists'
  BY <1>1 DEF LoadReplay, SelectionExists, selection, Entries, EntriesOf
<1>4. ModesExclude'
  BY DEF LoadReplay, ModesExclude, modes, StartLoad
<1>5. TypeOK'
  BY <1>1, <1>2, TypeByParts DEF LoadReplay, TypeOK, applying, modes
<1> QED BY <1>2, <1>3, <1>4, <1>5

-----------------------------------------------------------------------------
LEMMA PlayInv == Inv /\ Play => Inv'
<1> SUFFICES ASSUME Inv, Play PROVE Inv'
  OBVIOUS
<1> USE DEF Inv, IInv
<1>1. selectedIndex' \in DOMAIN Entries
  BY Selection DEF Play, ControlsEnabled, SelectionExists, TypeOK
<1>2. /\ SelectionOK' /\ SelectionExists'
      /\ SelectedSession' = SelectedSession /\ Entries' = Entries /\ Entries # <<>>
  BY <1>1, IndexMoves DEF Play
<1>3. RequestsOK' /\ AwaitedIsUnderWay' /\ NoVainWait'
  <2>1. CASE selectedIndex' # selectedIndex
    BY <1>2, <2>1, Selection, NextSelection, Loads DEF Play
  <2>2. CASE selectedIndex' = selectedIndex
    BY <2>2, Selection
       DEF Play, OvertakeLoad, RequestsOK, AwaitedIsUnderWay, NoVainWait
  <2> QED BY <2>1, <2>2
<1>4. ModesExclude'
  BY DEF Play, ModesExclude, StartLoad
<1>5. TypeOK'
  BY <1>2, <1>3, TypeByParts DEF Play, TypeOK, applying
<1> QED BY <1>2, <1>3, <1>4, <1>5

LEMMA TickInv == Inv /\ Tick => Inv'
<1> SUFFICES ASSUME Inv, Tick PROVE Inv'
  OBVIOUS
<1> USE DEF Inv, IInv
<1>1. selectedIndex' \in DOMAIN Entries /\ selectedSession # None
  BY Selection, NextIndexAdvances DEF Tick, SelectionExists, TypeOK
<1>2. /\ SelectionOK' /\ SelectionExists'
      /\ SelectedSession' = SelectedSession /\ Entries' = Entries /\ Entries # <<>>
  BY <1>1, IndexMoves DEF Tick
<1>3. RequestsOK' /\ AwaitedIsUnderWay' /\ NoVainWait'
  <2>1. CASE selectedIndex' = selectedIndex
    <3>1. SelectedFrame' = SelectedFrame
      BY <1>2, <2>1 DEF Tick, SelectedFrame
    <3> QED
      BY <1>1, <1>2, <2>1, <3>1, Selection, Stays DEF Tick, NoVainWait
  <2>2. CASE selectedIndex' # selectedIndex /\ sessionsRequest = "none"
    BY <1>1, <1>2, <2>2, Selection, NextSelection, Loads DEF Tick, AutoLoad
  <2>3. CASE selectedIndex' # selectedIndex /\ sessionsRequest = "confirm"
    BY <1>1, <1>2, <2>3, Selection
       DEF Tick, AutoLoad, OvertakeLoad, AwaitNoFrame, RequestsOK, AwaitedIsUnderWay,
           NoVainWait, scenarioFlags, applying
  <2>4. sessionsRequest \in {"none", "confirm"}
    BY <1>1 DEF SelectionExists, TypeOK
  <2> QED BY <2>1, <2>2, <2>3, <2>4
<1>4. ModesExclude'
  BY DEF Tick, ModesExclude, modes, AutoLoad, StartLoad, AwaitNoFrame, requests
<1>5. TypeOK'
  BY <1>2, <1>3, TypeByParts DEF Tick, TypeOK, applying, modes
<1> QED BY <1>2, <1>3, <1>4, <1>5

-----------------------------------------------------------------------------
(* What a step that leaves the selection alone preserves of it.            *)
LEMMA SelectionStays ==
  ASSUME Inv, UNCHANGED <<sessionsRequest, selection>>,
         awaited' = "replay" => awaited = "replay",
         isReplayStreamActive' => isReplayStreamActive
  PROVE  /\ SelectionOK' /\ SelectionExists'
         /\ UNCHANGED <<SelectedSession, Entries, SelectedFrame>>
BY DEF Inv, IInv, TypeOK, SelectionOK, SelectionExists, selection, SelectedSession, Entries,
       SelectedFrame

LEMMA PauseInv == Inv /\ Pause => Inv'
<1> SUFFICES ASSUME Inv, Pause PROVE Inv'
  OBVIOUS
<1> USE DEF Inv, IInv
<1>1. /\ SelectionOK' /\ SelectionExists'
      /\ UNCHANGED <<SelectedSession, Entries, SelectedFrame>>
  BY SelectionStays DEF Pause, requests
<1>2. UNCHANGED <<requests, applying, modes, selection, sessionsRequest, snapshot>>
  BY DEF Pause
<1>3. RequestsOK' /\ AwaitedIsUnderWay' /\ NoVainWait'
  BY <1>1, <1>2, Selection
     DEF RequestsOK, AwaitedIsUnderWay, NoVainWait, selection, requests, loading,
         scenarioFlags, applying
<1>4. ModesExclude'
  BY <1>2 DEF Pause, ModesExclude, requests, modes
<1>5. TypeOK'
  BY <1>1, <1>2, <1>3, TypeByParts DEF Pause, TypeOK, applying, modes
<1> QED
  BY <1>1, <1>3, <1>4, <1>5

LEMMA LoadArrivesInv == Inv /\ LoadArrives => Inv'
<1> SUFFICES ASSUME Inv, LoadArrives PROVE Inv'
  OBVIOUS
<1> USE DEF Inv, IInv
<1>1. /\ SelectionOK' /\ SelectionExists'
      /\ UNCHANGED <<SelectedSession, Entries, SelectedFrame>>
  BY SelectionStays DEF LoadArrives, ReceiveReplay, AwaitNoFrame
<1>2. RequestsOK' /\ AwaitedIsUnderWay' /\ NoVainWait'
  BY <1>1, Selection
     DEF LoadArrives, ReceiveReplay, CanApplyReplay, AwaitNoFrame, RequestsOK,
         AwaitedIsUnderWay, NoVainWait, scenarioFlags, applying, selection
<1>3. ModesExclude'
  BY DEF LoadArrives, ReceiveReplay, CanApplyReplay, AwaitNoFrame, ModesExclude,
         AwaitedIsUnderWay, modes
<1>4. TypeOK'
  BY <1>1, <1>2, TypeByParts DEF LoadArrives, ReceiveReplay, TypeOK, applying, modes
<1> QED BY <1>1, <1>2, <1>3, <1>4

LEMMA OvertakenLoadArrivesInv == Inv /\ OvertakenLoadArrives => Inv'
<1> SUFFICES ASSUME Inv, OvertakenLoadArrives PROVE Inv'
  OBVIOUS
<1> USE DEF Inv, IInv
<1>1. UNCHANGED <<isLoadingReplay, modes, snapshot, awaited>>
  BY DEF OvertakenLoadArrives, ReceiveReplay, CanApplyReplay
<1>2. /\ SelectionOK' /\ SelectionExists'
      /\ UNCHANGED <<SelectedSession, Entries, SelectedFrame>>
  BY <1>1, SelectionStays DEF OvertakenLoadArrives
<1> QED
  BY <1>1, <1>2
     DEF OvertakenLoadArrives, TypeOK, ModesExclude, AwaitedIsUnderWay, NoVainWait, selection,
         scenarioFlags, applying, modes

LEMMA SubmitScenarioInv == Inv /\ SubmitScenario => Inv'
<1> SUFFICES ASSUME Inv, SubmitScenario PROVE Inv'
  OBVIOUS
<1> USE DEF Inv, IInv
<1>1. /\ SelectionOK' /\ SelectionExists'
      /\ UNCHANGED <<SelectedSession, Entries, SelectedFrame>>
  BY SelectionStays DEF SubmitScenario
<1> QED
  BY <1>1
     DEF SubmitScenario, TypeOK, ModesExclude, AwaitedIsUnderWay, NoVainWait, selection

LEMMA ScenarioArrivesInv == Inv /\ ScenarioArrives => Inv'
<1> SUFFICES ASSUME Inv, ScenarioArrives PROVE Inv'
  OBVIOUS
<1> USE DEF Inv, IInv
<1>1. /\ SelectionOK' /\ SelectionExists'
      /\ UNCHANGED <<SelectedSession, Entries, SelectedFrame>>
  BY SelectionStays DEF ScenarioArrives, ReceiveScenario
<1>2. RequestsOK' /\ AwaitedIsUnderWay' /\ NoVainWait'
  BY <1>1, Selection
     DEF ScenarioArrives, ReceiveScenario, CanApplyScenario, RequestsOK, AwaitedIsUnderWay,
         NoVainWait, loading, selection
<1>3. ModesExclude'
  BY DEF ScenarioArrives, ReceiveScenario, CanApplyScenario, ModesExclude, AwaitedIsUnderWay,
         modes
<1>4. TypeOK'
  BY <1>1, <1>2, TypeByParts DEF ScenarioArrives, ReceiveScenario, TypeOK, modes
<1> QED BY <1>1, <1>2, <1>3, <1>4

LEMMA OvertakenScenarioArrivesInv == Inv /\ OvertakenScenarioArrives => Inv'
<1> SUFFICES ASSUME Inv, OvertakenScenarioArrives PROVE Inv'
  OBVIOUS
<1> USE DEF Inv, IInv
<1>1. UNCHANGED <<isApplyingScenario, modes, snapshot, awaited>>
  BY DEF OvertakenScenarioArrives, ReceiveScenario, CanApplyScenario
<1>2. /\ SelectionOK' /\ SelectionExists'
      /\ UNCHANGED <<SelectedSession, Entries, SelectedFrame>>
  BY <1>1, SelectionStays DEF OvertakenScenarioArrives
<1>3. RequestsOK' /\ AwaitedIsUnderWay' /\ NoVainWait'
  BY <1>1, <1>2, Selection
     DEF OvertakenScenarioArrives, RequestsOK, AwaitedIsUnderWay, NoVainWait, selection, loading
<1>4. ModesExclude'
  BY <1>1 DEF OvertakenScenarioArrives, ModesExclude, modes
<1>5. TypeOK'
  BY <1>1, <1>2, <1>3, TypeByParts DEF OvertakenScenarioArrives, TypeOK, modes
<1> QED
  BY <1>2, <1>3, <1>4, <1>5

LEMMA ReturnToLiveInv == Inv /\ ReturnToLive => Inv'
<1> SUFFICES ASSUME Inv, ReturnToLive PROVE Inv'
  OBVIOUS
<1> USE DEF Inv, IInv
<1>1. /\ SelectionOK' /\ SelectionExists'
      /\ UNCHANGED <<SelectedSession, Entries, SelectedFrame>>
  BY SelectionStays DEF ReturnToLive
<1> QED
  BY <1>1
     DEF ReturnToLive, TypeOK, ModesExclude, AwaitedIsUnderWay, NoVainWait, selection, applying

LEMMA ShowLiveInv == Inv /\ ShowLive => Inv'
<1> SUFFICES ASSUME Inv, ShowLive PROVE Inv'
  OBVIOUS
<1> USE DEF Inv, IInv
<1>1. /\ SelectionOK' /\ SelectionExists'
      /\ UNCHANGED <<SelectedSession, Entries, SelectedFrame>>
  BY SelectionStays DEF ShowLive, requests
<1> QED
  BY <1>1
     DEF ShowLive, TypeOK, ModesExclude, AwaitedIsUnderWay, NoVainWait, selection, requests,
         loading, scenarioFlags, applying, modes

LEMMA StutterInv == Inv /\ UNCHANGED vars => Inv'
BY DEF vars, Inv, IInv, TypeOK, ModesExclude, AwaitedIsUnderWay, NoVainWait, SelectionExists,
       SelectedSession, Entries, SelectedFrame, selection, requests, loading, scenarioFlags,
       applying, modes

-----------------------------------------------------------------------------
LEMMA Inductive == Inv /\ [Next]_vars => Inv'
BY ListArrivesInv, ConfirmInv, ConfirmFailsInv, ConfirmedInv, TimestampsArriveInv,
   SelectSessionInv, SelectFrameInv, LoadReplayInv, PlayInv, TickInv, PauseInv,
   LoadArrivesInv, OvertakenLoadArrivesInv, SubmitScenarioInv, ScenarioArrivesInv,
   OvertakenScenarioArrivesInv, ReturnToLiveInv, ShowLiveInv, StutterInv
   DEF Next

(* Every flag of the page is matched by a request under way, and the       *)
(* request that counts by the selection, whatever the user does and        *)
(* however late the answers are.                                           *)
THEOREM InductiveInvariant == Spec => []IInv
<1>1. Inv => IInv
  BY DEF Inv
<1> QED
  BY <1>1, InitInv, Inductive, PTL DEF Spec

(* Every request, index and flag is of its type: the index is that of a    *)
(* frame, also where a timeline is empty.                                  *)
THEOREM TypeCorrect == Spec => []TypeOK
<1>1. Inv => TypeOK
  BY DEF Inv
<1> QED
  BY <1>1, InitInv, Inductive, PTL DEF Spec

(* No late answer is displayed, whatever the user did since it was asked.  *)
THEOREM LateAnswersIgnored == Spec => ShowsWhatWasAsked
<1> DEFINE Asked ==
      snapshot' # snapshot =>
        \/ snapshot' = Live /\ ~isReplayModeActive /\ ~isScenarioModeActive
        \/ snapshot' = Scenario /\ awaited = "scenario"
        \/ /\ awaited = "replay" /\ snapshot'[1] = selectedSession
           /\ Entries # <<>> => snapshot' = SelectedFrame
<1>1. Inv /\ [Next]_vars => [Asked]_vars
  <2> SUFFICES ASSUME Inv, Next, snapshot' # snapshot PROVE Asked
    BY DEF vars
  <2> USE DEF Inv, IInv
  <2>1. CASE ShowLive
    BY <2>1 DEF ShowLive
  <2>2. CASE ScenarioArrives
    BY <2>2 DEF ScenarioArrives, ReceiveScenario, CanApplyScenario, AwaitedIsUnderWay
  <2>3. CASE LoadArrives
    <3>1. awaited = "replay" /\ snapshot' = load
      BY <2>3 DEF LoadArrives, ReceiveReplay, CanApplyReplay, AwaitedIsUnderWay
    <3>2. Entries # <<>> => timeline # "unavailable"
      BY DEF Entries, EntriesOf, SelectionExists
    <3> QED
      BY <3>1, <3>2 DEF AwaitedIsUnderWay
  <2>4. CASE OvertakenLoadArrives
    BY <2>4 DEF OvertakenLoadArrives, ReceiveReplay, CanApplyReplay
  <2>5. CASE OvertakenScenarioArrives
    BY <2>5 DEF OvertakenScenarioArrives, ReceiveScenario, CanApplyScenario
  <2> QED
    BY <2>1, <2>2, <2>3, <2>4, <2>5
       DEF Next, ListArrives, Confirm, ConfirmFails, Confirmed, TimestampsArrive, SelectSession,
           SelectFrame, LoadReplay, Play, Tick, Pause, SubmitScenario, ReturnToLive
<1> QED
  BY <1>1, InitInv, Inductive, PTL DEF Spec, ShowsWhatWasAsked

(* A tick of playback goes on in the timeline or ends the playback, where  *)
(* frames have equal or unreadable times as elsewhere, at every speed.     *)
THEOREM TicksAdvance ==
  Spec => [][Tick => selectedIndex' > selectedIndex \/ ~isReplayStreamActive']_vars
<1> DEFINE Advances == Tick => selectedIndex' > selectedIndex \/ ~isReplayStreamActive'
<1>1. Inv /\ [Next]_vars => [Advances]_vars
  <2> SUFFICES ASSUME Inv, Tick PROVE selectedIndex' > selectedIndex \/ ~isReplayStreamActive'
    OBVIOUS
  <2>1. PICK stride \in Stride : selectedIndex' = NextIndex(Entries, selectedIndex, stride)
    BY DEF Tick
  <2>2. Entries \in Seq(Nat \cup {None}) /\ selectedIndex \in 1 .. Len(Entries)
    BY Selection DEF Inv, IInv, Tick, SelectionExists, TypeOK
  <2>3. /\ selectedIndex < Len(Entries) => selectedIndex' > selectedIndex
        /\ selectedIndex = Len(Entries) => selectedIndex' = selectedIndex
    BY <2>1, <2>2, NextIndexAdvances
  <2>4. CASE selectedIndex < Len(Entries)
    BY <2>3, <2>4
  <2>5. CASE selectedIndex = Len(Entries)
    <3>1. isReplayStreamActive' = (selectedIndex' < Len(Entries))
      BY DEF Tick
    <3>2. ~(selectedIndex' < Len(Entries))
      BY <2>2, <2>3, <2>5
    <3> QED BY <3>1, <3>2
  <2> QED
    BY <2>2, <2>4, <2>5
<1> QED
  BY <1>1, InitInv, Inductive, PTL DEF Spec
=============================================================================
