-------------------------- MODULE ReplayDashboard --------------------------
(***************************************************************************)
(* The replay page: apps/web/components/ReplayDashboard.tsx, whose buttons *)
(* are those of ArchiveTransport.tsx and ScenarioPanel.tsx.                *)
(*                                                                         *)
(* The page selects a session and one of its frames and loads the frame by *)
(* itself whenever the selection changes, by hand or by playback.  It also *)
(* applies scenarios and goes back to live data.  Every answer comes after *)
(* a while in which the user goes on; an answer counts if its request is   *)
(* the latest of its kind and was not canceled.                            *)
(*                                                                         *)
(* An action is a handler with the rendering and the effects it causes.    *)
(* Of the requests that were overtaken by later ones one is remembered.    *)
(* The realtime page (LiveDashboard.tsx) is a copy whose session list is   *)
(* always empty.                                                           *)
(***************************************************************************)
EXTENDS Naturals, Sequences

CONSTANTS
  Session,   \* replay sessions
  Exact,     \* those with timestamp_source "exact"
  Times,     \* the times of each session's frames, None if unreadable
  Stride,    \* the time a tick of playback covers, at each speed
  None,      \* no session, no request, no time
  Live, Scenario   \* what is displayed when it is no frame

(* A request of a frame: the session asked for, the session on whose       *)
(* timeline the frame was picked, the frame's place there.                 *)
Request == Session \X Session \X (Nat \ {0})

ASSUME ExactType == Exact \subseteq Session
ASSUME TimesType == Times \in [Session -> Seq(Nat \cup {None})]
ASSUME SomeTimes == \A s \in Session : Times[s] # <<>>
ASSUME StrideType == Stride \subseteq Nat \ {0} /\ Stride # {}
ASSUME NoneType == None \notin Nat \cup Session \cup Request

VARIABLES
  sessionsRequest,      \* what isLoadingReplaySessions waits for
  replaySessions,
  selectedSession,      \* selectedReplaySessionId
  selectedIndex,        \* counted from 1
  timeline,             \* the exact timestamps of the selected session
  load, overtaken,      \* the latest request of a frame, an earlier one
  replayRequestsCanceled, isLoadingReplay,
  scenario,             \* whether the latest scenario's request is under way
  overtakenScenario,    \* ... and an earlier one
  scenarioRequestsCanceled, isApplyingScenario,
  isReplayStreamActive,
  isScenarioModeActive, isReplayModeActive,
  snapshot,             \* what is displayed
  awaited               \* history: what the page was last told to show

selection == <<replaySessions, selectedSession, selectedIndex, timeline>>
loading == <<load, overtaken, replayRequestsCanceled, isLoadingReplay>>
applying == <<scenario, overtakenScenario>>
scenarioFlags == <<scenarioRequestsCanceled, isApplyingScenario>>
requests == <<loading, scenarioFlags, awaited>>
modes == <<isScenarioModeActive, isReplayModeActive>>
vars == <<sessionsRequest, selection, requests, applying, isReplayStreamActive, modes, snapshot>>

TypeOK ==
  /\ sessionsRequest \in {"list", "confirm", "none"}
  /\ replaySessions \subseteq Session /\ selectedSession \in Session \cup {None}
  /\ selectedIndex \in Nat \ {0}
  /\ timeline \in {"ready", "loading", "unavailable"}
  /\ load \in Request \cup {None} /\ overtaken \in Request \cup {None}
  /\ replayRequestsCanceled \in BOOLEAN /\ isLoadingReplay \in BOOLEAN
  /\ scenario \in BOOLEAN /\ overtakenScenario \in BOOLEAN
  /\ scenarioRequestsCanceled \in BOOLEAN /\ isApplyingScenario \in BOOLEAN
  /\ isReplayStreamActive \in BOOLEAN
  /\ isScenarioModeActive \in BOOLEAN /\ isReplayModeActive \in BOOLEAN
  /\ snapshot \in Request \cup {Live, Scenario}
  /\ awaited \in {"nothing", "live", "replay", "scenario"}

Init ==
  /\ sessionsRequest = "list" /\ replaySessions = {}
  /\ selectedSession = None /\ selectedIndex = 1 /\ timeline = "ready"
  /\ load = None /\ overtaken = None
  /\ replayRequestsCanceled = FALSE /\ isLoadingReplay = FALSE
  /\ scenario = FALSE /\ overtakenScenario = FALSE
  /\ scenarioRequestsCanceled = FALSE /\ isApplyingScenario = FALSE
  /\ isReplayStreamActive = FALSE
  /\ isScenarioModeActive = FALSE /\ isReplayModeActive = FALSE
  /\ snapshot = Live /\ awaited = "nothing"

-----------------------------------------------------------------------------
(* selectedReplaySession: the first one listed if the id is not listed.    *)
Shown(listed, id) ==
  IF id \in listed THEN id
  ELSE IF listed = {} THEN None ELSE CHOOSE s \in Session : s \in listed

SelectedSession == Shown(replaySessions, selectedSession)

(* replayTimelineEntries: an exact session has none until they arrive.     *)
EntriesOf(s, state) ==
  IF s = None \/ (s \in Exact /\ state # "ready") THEN <<>> ELSE Times[s]

Entries == EntriesOf(SelectedSession, timeline)

(* Mutant: the place in an empty timeline is its length.                   *)
ClampedToLength(i, entries) == IF i > Len(entries) THEN Len(entries) ELSE i

(* clampReplayTimelineIndex.                                               *)
Clamped(i, entries) ==
  IF entries = <<>> THEN 1 ELSE IF i > Len(entries) THEN Len(entries) ELSE i

SelectedFrame == <<selectedSession, SelectedSession, selectedIndex>>

(* The effect of a new selectedReplaySession: its timestamps are asked for *)
(* if it is exact, and estimated otherwise.                                *)
FreshTimeline(s) == IF s \in Exact THEN "loading" ELSE "ready"

(* Mutant: playback holds a frame until a tick reaches the next.           *)
HoldsFrame(entries, i, stride) ==
  LET passed == {j \in i .. Len(entries) :
                   entries[j] # None /\ entries[j] <= entries[i] + stride}
  IN  IF passed = {} THEN i ELSE CHOOSE j \in passed : \A k \in passed : k <= j

(* nextReplayPlaybackIndex: a frame of the same time or of an unreadable   *)
(* one is not skipped; of the others the first that a tick reaches.        *)
NextIndex(entries, i, stride) ==
  LET reached == {j \in i + 1 .. Len(entries) :
                    entries[j] # None /\ entries[j] >= entries[i] + stride}
  IN  IF i >= Len(entries) THEN Len(entries)
      ELSE IF entries[i] = None THEN i + 1
      ELSE IF entries[i + 1] # None /\ entries[i + 1] <= entries[i] THEN i + 1
      ELSE IF reached = {} THEN Len(entries)
      ELSE CHOOSE j \in reached : \A k \in reached : j <= k

-----------------------------------------------------------------------------
(* The latest request of a frame becomes an earlier one.                   *)
OvertakeLoad == overtaken' \in {overtaken, load}

(* loadReplaySnapshot up to its await: it cancels the scenario under way.  *)
StartLoad(request) ==
  /\ OvertakeLoad /\ load' = request
  /\ replayRequestsCanceled' = FALSE /\ isLoadingReplay' = TRUE
  /\ scenarioRequestsCanceled' = TRUE /\ isApplyingScenario' = FALSE
  /\ awaited' = "replay"

AwaitNoFrame == awaited' = IF awaited = "scenario" THEN "scenario" ELSE "nothing"

(* createReplaySelectionChangeState.                                       *)
CancelLoad ==
  /\ OvertakeLoad /\ load' = None
  /\ replayRequestsCanceled' = TRUE /\ isLoadingReplay' = FALSE
  /\ AwaitNoFrame /\ UNCHANGED scenarioFlags

(* The effect of a new selectedReplayEntry, isLoadingReplaySessions or     *)
(* selectedReplaySessionId; what remains to be done if it does nothing.    *)
AutoLoad(entries, otherwise) ==
  IF sessionsRequest' = "none" /\ selectedSession' # None /\ entries # <<>>
  THEN StartLoad(SelectedFrame') ELSE otherwise

(* ArchiveTransport: the buttons of frames, speeds and loading.            *)
ControlsEnabled == sessionsRequest = "none" /\ ~isLoadingReplay /\ Entries # <<>>

-----------------------------------------------------------------------------
(* The list of sessions arrives and one of them is selected.               *)
ListArrives ==
  /\ sessionsRequest = "list"
  /\ sessionsRequest' = "none"
  /\ \E listed \in SUBSET Session, requested \in Session :
       /\ replaySessions' = listed
       /\ selectedSession' = Shown(listed, requested)
  /\ selectedIndex' = 1 /\ timeline' = FreshTimeline(SelectedSession')
  /\ AutoLoad(Entries', UNCHANGED requests)
  /\ UNCHANGED <<applying, isReplayStreamActive, modes, snapshot>>

(* confirmReplayImportReview up to its await; the list of sessions, if it  *)
(* has not arrived, will be ignored.                                       *)
Confirm ==
  /\ sessionsRequest # "confirm"
  /\ sessionsRequest' = "confirm"
  /\ UNCHANGED <<selection, requests, applying, isReplayStreamActive, modes, snapshot>>

(* Mutant: the effect that loads a frame does not depend on                *)
(* isLoadingReplaySessions.                                                *)
ConfirmFailsQuietly ==
  /\ sessionsRequest = "confirm"
  /\ sessionsRequest' = "none"
  /\ UNCHANGED <<selection, requests, applying, isReplayStreamActive, modes, snapshot>>

(* ... and after it, when the import was not completed.                    *)
ConfirmFails ==
  /\ sessionsRequest = "confirm"
  /\ sessionsRequest' = "none"
  /\ UNCHANGED selection
  /\ AutoLoad(Entries', UNCHANGED requests)
  /\ UNCHANGED <<applying, isReplayStreamActive, modes, snapshot>>

(* ... and when it was: the new list is empty if it failed to load.  All   *)
(* sessions are new objects, so that the timestamps are asked for again;   *)
(* before that, the frame is loaded with those at hand.                    *)
Confirmed ==
  /\ sessionsRequest = "confirm"
  /\ sessionsRequest' = "none"
  /\ \E listed \in SUBSET Session, imported \in Session :
       /\ replaySessions' = listed
       /\ selectedSession' = IF imported \in listed THEN imported ELSE selectedSession
       /\ selectedIndex' = IF imported \in listed THEN 1
                            ELSE IF SelectedSession' \in Exact THEN selectedIndex
                            ELSE Clamped(selectedIndex, EntriesOf(SelectedSession', "ready"))
  /\ timeline' = FreshTimeline(SelectedSession')
  /\ LET atHand == IF SelectedSession' = SelectedSession THEN timeline
                   ELSE FreshTimeline(SelectedSession')
     IN  AutoLoad(EntriesOf(SelectedSession', atHand), CancelLoad)
  /\ isReplayStreamActive' = FALSE
  /\ UNCHANGED <<applying, modes, snapshot>>

(* loadClientReplayTimestamps answers.                                     *)
TimestampsArrive ==
  /\ timeline = "loading"
  /\ timeline' \in {"ready", "unavailable"}
  /\ UNCHANGED <<sessionsRequest, replaySessions, selectedSession>>
  /\ selectedIndex' = Clamped(selectedIndex, Entries')
  /\ AutoLoad(Entries', UNCHANGED requests)
  /\ UNCHANGED <<applying, isReplayStreamActive, modes, snapshot>>

-----------------------------------------------------------------------------
(* onSelectSessionId.                                                      *)
SelectSession ==
  /\ sessionsRequest = "none" /\ (isLoadingReplay => isReplayStreamActive)
  /\ \E s \in replaySessions \ {selectedSession} :
       /\ selectedSession' = s
       /\ timeline' = IF s = SelectedSession THEN timeline ELSE FreshTimeline(s)
  /\ selectedIndex' = 1 /\ isReplayStreamActive' = FALSE
  /\ UNCHANGED <<sessionsRequest, replaySessions>>
  /\ AutoLoad(Entries', CancelLoad)
  /\ UNCHANGED <<applying, modes, snapshot>>

(* onSelectSnapshotIndex, by the arrows, the jumps or the slider: choosing *)
(* the frame that is selected renders nothing new.                         *)
SelectFrame ==
  /\ ControlsEnabled
  /\ selectedIndex' \in DOMAIN Entries
  /\ isReplayStreamActive' = FALSE
  /\ UNCHANGED <<sessionsRequest, replaySessions, selectedSession, timeline>>
  /\ IF selectedIndex' = selectedIndex THEN CancelLoad ELSE AutoLoad(Entries', CancelLoad)
  /\ UNCHANGED <<applying, modes, snapshot>>

(* The button LOAD.                                                        *)
LoadReplay ==
  /\ ControlsEnabled /\ selectedSession # None
  /\ isReplayStreamActive' = FALSE
  /\ StartLoad(SelectedFrame)
  /\ UNCHANGED <<sessionsRequest, selection, applying, modes, snapshot>>

(* playReplayStream: from the start if the last frame is selected.  Only a *)
(* frame that was not selected before is loaded.                           *)
Play ==
  /\ ControlsEnabled /\ selectedSession # None /\ ~isReplayStreamActive
  /\ isReplayStreamActive' = TRUE
  /\ isReplayModeActive' = TRUE /\ isScenarioModeActive' = FALSE
  /\ selectedIndex' = IF selectedIndex >= Len(Entries) THEN 1 ELSE selectedIndex
  /\ UNCHANGED <<sessionsRequest, replaySessions, selectedSession, timeline>>
  /\ IF selectedIndex' # selectedIndex THEN StartLoad(SelectedFrame')
     ELSE /\ OvertakeLoad /\ load' = None
          /\ replayRequestsCanceled' = FALSE /\ isLoadingReplay' = FALSE
          /\ scenarioRequestsCanceled' = TRUE /\ isApplyingScenario' = FALSE
          /\ awaited' = "nothing"
  /\ UNCHANGED <<applying, snapshot>>

(* The interval's callback.  The speed may be changed between any two.     *)
(* While sessions are loading the frame it leads to is not loaded, and     *)
(* isLoadingReplay stays as it is.                                         *)
Tick ==
  /\ isReplayStreamActive
  /\ \E stride \in Stride : selectedIndex' = NextIndex(Entries, selectedIndex, stride)
  /\ isReplayStreamActive' = (selectedIndex' < Len(Entries))
  /\ UNCHANGED <<sessionsRequest, replaySessions, selectedSession, timeline>>
  /\ IF selectedIndex' = selectedIndex THEN UNCHANGED requests
     ELSE AutoLoad(Entries', /\ OvertakeLoad /\ load' = None /\ replayRequestsCanceled' = TRUE
                             /\ AwaitNoFrame /\ UNCHANGED <<isLoadingReplay, scenarioFlags>>)
  /\ UNCHANGED <<applying, modes, snapshot>>

(* The button PAUSE: stopReplayStream.                                     *)
Pause ==
  /\ isReplayStreamActive /\ isReplayStreamActive' = FALSE
  /\ UNCHANGED <<sessionsRequest, selection, requests, applying,
                 modes, snapshot>>

-----------------------------------------------------------------------------
(* Mutant: the request's number is not compared.                           *)
AnyRequest(isLatest) == ~replayRequestsCanceled

(* canApplyReplaySnapshot.                                                 *)
CanApplyReplay(isLatest) == ~replayRequestsCanceled /\ isLatest

(* Mutant: after an error the page stays in loading.                       *)
KeepsLoading(request, isLatest) ==
  IF ~CanApplyReplay(isLatest) THEN UNCHANGED <<isLoadingReplay, modes, snapshot, awaited>>
  ELSE \/ UNCHANGED <<isLoadingReplay, modes, snapshot, awaited>>
       \/ /\ isLoadingReplay' = FALSE /\ AwaitNoFrame
          /\ isScenarioModeActive' = FALSE /\ isReplayModeActive' = TRUE
          /\ snapshot' = request

(* loadReplaySnapshot after its await.                                     *)
ReceiveReplay(request, isLatest) ==
  IF ~CanApplyReplay(isLatest) THEN UNCHANGED <<isLoadingReplay, modes, snapshot, awaited>>
  ELSE /\ isLoadingReplay' = FALSE /\ AwaitNoFrame
       /\ \/ UNCHANGED <<modes, snapshot>>
          \/ /\ isScenarioModeActive' = FALSE /\ isReplayModeActive' = TRUE
             /\ snapshot' = request

LoadArrives ==
  /\ load # None
  /\ load' = None /\ UNCHANGED overtaken
  /\ ReceiveReplay(load, TRUE)
  /\ UNCHANGED <<sessionsRequest, selection, replayRequestsCanceled, applying,
                 scenarioFlags, isReplayStreamActive>>

OvertakenLoadArrives ==
  /\ overtaken # None
  /\ overtaken' = None /\ UNCHANGED load
  /\ ReceiveReplay(overtaken, FALSE)
  /\ UNCHANGED <<sessionsRequest, selection, replayRequestsCanceled, applying,
                 scenarioFlags, isReplayStreamActive>>

(* applyScenario up to its await.                                          *)
SubmitScenario ==
  /\ ~isApplyingScenario
  /\ overtakenScenario' \in {overtakenScenario, scenario} /\ scenario' = TRUE
  /\ scenarioRequestsCanceled' = FALSE /\ isApplyingScenario' = TRUE
  /\ replayRequestsCanceled' = TRUE /\ isLoadingReplay' = FALSE
  /\ isReplayStreamActive' = FALSE /\ isReplayModeActive' = FALSE
  /\ awaited' = "scenario"
  /\ UNCHANGED <<sessionsRequest, selection, load, overtaken,
                 isScenarioModeActive, snapshot>>

(* canApplyScenarioSnapshot.                                               *)
CanApplyScenario(isLatest) == ~scenarioRequestsCanceled /\ isLatest

(* applyScenario after its await.                                          *)
ReceiveScenario(isLatest) ==
  IF ~CanApplyScenario(isLatest) THEN UNCHANGED <<isApplyingScenario, modes, snapshot, awaited>>
  ELSE /\ isApplyingScenario' = FALSE /\ awaited' = "nothing"
       /\ \/ UNCHANGED <<modes, snapshot>>
          \/ /\ isScenarioModeActive' = TRUE /\ isReplayModeActive' = FALSE
             /\ snapshot' = Scenario

ScenarioArrives ==
  /\ scenario
  /\ scenario' = FALSE /\ UNCHANGED overtakenScenario
  /\ ReceiveScenario(TRUE)
  /\ UNCHANGED <<sessionsRequest, selection, loading, scenarioRequestsCanceled, isReplayStreamActive>>

OvertakenScenarioArrives ==
  /\ overtakenScenario
  /\ overtakenScenario' = FALSE /\ UNCHANGED scenario
  /\ ReceiveScenario(FALSE)
  /\ UNCHANGED <<sessionsRequest, selection, loading, scenarioRequestsCanceled, isReplayStreamActive>>

(* The button UNLOAD, or the scenario panel's: returnToLive.               *)
ReturnToLive ==
  /\ isReplayModeActive \/ isScenarioModeActive
  /\ isReplayStreamActive' = FALSE
  /\ isScenarioModeActive' = FALSE /\ isReplayModeActive' = FALSE
  /\ scenarioRequestsCanceled' = TRUE /\ isApplyingScenario' = FALSE
  /\ replayRequestsCanceled' = TRUE /\ isLoadingReplay' = FALSE
  /\ awaited' = "live"
  /\ UNCHANGED <<sessionsRequest, selection, load, overtaken, applying, snapshot>>

(* The live updates (module LiveUpdates), or the refresh of returnToLive.  *)
ShowLive ==
  /\ ~isScenarioModeActive /\ ~isReplayModeActive
  /\ snapshot' = Live
  /\ UNCHANGED <<sessionsRequest, selection, requests, applying, isReplayStreamActive, modes>>

-----------------------------------------------------------------------------
Next ==
  \/ ListArrives \/ Confirm \/ ConfirmFails \/ Confirmed \/ TimestampsArrive
  \/ SelectSession \/ SelectFrame \/ LoadReplay
  \/ Play \/ Tick \/ Pause
  \/ LoadArrives \/ OvertakenLoadArrives
  \/ SubmitScenario \/ ScenarioArrives \/ OvertakenScenarioArrives
  \/ ReturnToLive \/ ShowLive

Spec == Init /\ [][Next]_vars

(* Every request is answered, with an error at least; the interval's       *)
(* callback runs while the interval is set.                                *)
Fairness ==
  /\ WF_vars(LoadArrives) /\ WF_vars(ScenarioArrives)
  /\ WF_vars(ConfirmFails \/ Confirmed) /\ WF_vars(Tick)

FairSpec == Spec /\ Fairness

-----------------------------------------------------------------------------
(* The modes exclude each other; playback is a part of replay mode, in     *)
(* which no scenario is awaited that could end the one and not the other.  *)
ModesExclude ==
  /\ isReplayModeActive => ~isScenarioModeActive /\ awaited # "scenario"
  /\ isReplayStreamActive => isReplayModeActive

(* A request that may still be applied is that of the frame selected, and  *)
(* of a scenario or a frame but not of both.                               *)
AwaitedIsUnderWay ==
  /\ awaited = "replay" <=> load # None /\ ~replayRequestsCanceled
  /\ awaited = "scenario" <=> scenario /\ ~scenarioRequestsCanceled
  /\ awaited = "replay" => /\ load[1] = selectedSession
                           /\ timeline # "unavailable" => load = SelectedFrame

(* The page never waits for what will not come: while it says "Applying"   *)
(* an answer is under way, and while it says "Loading", with all of its    *)
(* controls disabled, one is under way or one will be asked for when the   *)
(* confirmation ends.                                                      *)
NoVainWait ==
  /\ isApplyingScenario <=> awaited = "scenario"
  /\ awaited = "replay" => isLoadingReplay
  /\ isLoadingReplay =>
       \/ awaited = "replay"
       \/ sessionsRequest = "confirm" /\ selectedSession # None /\ Entries # <<>>

(* The selected frame exists, also if it was asked for with timestamps     *)
(* that are being asked for again, and so does the one that is played.     *)
SelectionExists ==
  /\ sessionsRequest = "list" => replaySessions = {} /\ selectedSession = None
  /\ timeline # "ready" => SelectedSession \in Exact
  /\ Entries # <<>> => selectedIndex <= Len(Entries)
  /\ awaited = "replay" /\ SelectedSession # None =>
       selectedIndex <= Len(Times[SelectedSession])
  /\ isReplayStreamActive => Entries # <<>> /\ selectedSession # None

IInv == ModesExclude /\ AwaitedIsUnderWay /\ NoVainWait /\ SelectionExists

(* A late answer is never displayed: a frame appears if it is the one      *)
(* selected, and neither live data nor a scenario was asked for after it;  *)
(* a scenario if nothing was loaded, played or unloaded after it.          *)
ShowsWhatWasAsked ==
  [][snapshot' # snapshot =>
       \/ snapshot' = Live /\ ~isReplayModeActive /\ ~isScenarioModeActive
       \/ snapshot' = Scenario /\ awaited = "scenario"
       \/ /\ awaited = "replay" /\ snapshot'[1] = selectedSession
          /\ Entries # <<>> => snapshot' = SelectedFrame]_vars

(* Playback ends, also where frames have equal or unreadable times.        *)
PlaybackEnds == isReplayStreamActive ~> ~isReplayStreamActive

(* Waiting ends, so that the controls are enabled again.                   *)
WaitingEnds ==
  /\ isLoadingReplay ~> ~isLoadingReplay
  /\ isApplyingScenario ~> ~isApplyingScenario

(* The plan of the replay panel says that "returning to live cancels       *)
(* pending scenario/replay responses": an answer with a session's          *)
(* timestamps does not take the page from live to that session.            *)
LiveStays ==
  [][awaited = "live" /\ TimestampsArrive => awaited' = "live"]_vars
=============================================================================
