# GammaScope: TLA+ specifications and proofs

GammaScope is a local-first SPX 0DTE analytics workspace: collectors publish market
events to a FastAPI backend (Postgres and Redis behind it), which serves live snapshots,
replay sessions and a heatmap to a Next.js dashboard.  This directory specifies the parts of it
whose correctness depends on order, failure and concurrency, checks them with TLC on
small instances, and proves the most important results with TLAPS for instances of any size.

## 1. Inventory

Paths are relative to the repository; `api/` stands for `apps/api/gammascope_api/`, `web/`
for `apps/web/`, `collector/` for `services/collector/gammascope_collector/`.

| Component | State | Operations | Talks to | What is hard |
| --- | --- | --- | --- | --- |
| Replay import service (`api/replay/importer.py`, `import_repository.py`, `archive.py`, `routes/replay_imports.py`, `baseline.py`) | `replay_imports`, `replay_sessions` and their rows in Postgres; an archive directory; the locals of each running request | create, confirm, cancel, get | Postgres, file system, parquet reader | every call is several transactions; requests run in threads and in other processes; any of them can fail or lose its acknowledgement |
| Collector ingestion and latest-state cache (`api/ingestion/collector_state.py`, `latest_state_cache.py`, `routes/collector.py`) | in-process dictionaries, one JSON document in Redis | ingest one event or a bulk, persist, load | Redis, replay capture | Redis can be down, the process restarts, events arrive out of order, several processes share one document |
| Live snapshot service (`api/ingestion/live_snapshot_service.py`, `live_snapshot.py`, `routes/stream.py`, `snapshot.py`, `status.py`) | a payload cache per mode, keyed by an identity of the collector state | get a snapshot, stream snapshots | ingestion | thread-pool readers run while the event loop ingests |
| Replay capture, storage, retention (`api/replay/capture.py`, `repository.py`, `maintenance/retention.py`) | captured sessions and snapshots in Postgres, a circuit breaker | capture, cleanup | ingestion, replay reads | the newest snapshot is updated or a new one inserted depending on what was read; cleanup runs at the same time |
| Replay reads (`api/routes/replay.py`, `imported_snapshot.py`) | none | list sessions, timestamps, snapshot, stream | both replay stores | three sources with fallbacks |
| Heatmap (`api/heatmap/*`, `routes/heatmap.py`) | OI baselines, snapshots and 5-minute buckets in Postgres | latest payload | ingestion, Postgres | a baseline is provisional, then locked, and must never move again; writers race |
| Saved views (`api/saved_views/*`, `routes/views.py`) | Postgres table, an in-memory fallback, a degraded flag | list, save | Postgres | degradation is sticky and splits the data |
| Web live updates (`web/lib/snapshotUpdates.ts`, `snapshotStream.ts`, `snapshotPolling.ts`) | one socket, one poller, one reconnect timer | start, stop | live snapshot service | callbacks fire after stop, in any order |
| Web dashboards (`web/components/ReplayDashboard.tsx`, `LiveDashboard.tsx`, `web/lib/replayStream.ts`, `replayPlayback.ts`) | React state, request counters, a stream | load, play, pause, scenario, return to live | proxies | answers arrive out of order and after the user has moved on |
| Web proxies and admin session (`web/lib/adminSession.ts`, `replayImportProxy.ts`, `web/app/api/*`) | a signed cookie | login, logout, forward | backend | expiry |
| Dashboard collector (`collector/moomoo_snapshot.py`, `moomoo_compat.py`, `publisher.py`) | the discovered contracts of the target expiry, the rows of a cycle | discover, collect, publish, sleep | OpenD, ingestion | contracts are kept over cycles while the expiry rolls; chunks fail; an answer is lost |
| Research recorder (`collector/moomoo_research_recorder.py`, `ops/run_moomoo_research_market.sh`) | day files of JSON lines | wait for the open, capture, sleep | OpenD, file system | sessions, closes and weekends; a process killed within a line |
| IBKR commands (`collector/ibkr_handshake.py`, `ibkr_contracts.py`, `ibkr_delayed_snapshot.py`) | pending requests of a client, events set by callbacks | connect, wait, ask, disconnect, publish | gateway, ingestion | callbacks in a reader thread, waits with timeouts in the main thread, losses at any instant |
| Analytics (`api/analytics`, `api/experimental`, `api/experimental_flow`) | none | price, fit | | floating-point numerics |

What makes each component correct is stated with its module below; the hazards, each at its
line, are in `PROJECT.json`.

## 2. Plan

Written, in this order:

1. `ReplayImport`, which implements the abstract `ImportLifecycle`: the public data of the system.
2. `HeatmapStore`: the open-interest baseline, snapshots and buckets.
3. `LiveState`: ingestion, the Redis document, the snapshot service and its readers.
4. `LiveUpdates`: the dashboard's socket, its fallback polling, reconnecting and stopping.
5. `ReplayCapture`: captured sessions and the retention cleanup that empties them.
6. `ReplayDashboard`: the replay page, whose answers arrive after the user has moved on.
7. `Recorder`: the research recorder's sessions, captures and files.
8. `CollectorLoop`: the dashboard collector and what the API keeps of what it publishes.
9. `IbkrProbe`: the IBKR commands, with their two threads.
10. `ReplayReads` over `ParquetReader`: what files become and what is read back, by every route.
11. `SavedViews`: Postgres with a fallback in memory.

All are proved about.  Modules 1 to 6 have a `...Proof` module each; `CollectorsProof` is about 7 to 9 and `RoutesProof`
about 10 and 11.  These two extend several components that share nothing, whose names therefore differ (`LoopSpec`,
`ProbeSpec`, `ViewsSpec`, ...).  No module has a RECURSIVE operator, so that theorems about each are in the provers' reach.

To come:

| Work | Question |
| --- | --- |
| The well-founded part of `CatchesUp`, `PlaybackEnds`, `WaitingEnds`, `PublishingIsDecided` | what each step takes off what is left, and that nothing sets it back, as it is proved for `CaptureEnds`, `Ends` and `RollsOver` |
| `HeatmapNodes` (`exposure.py`, `nodes.py`, `normalization.py`) | king, dominant and colour nodes, on integers, against their definitions |
| `ReplayStore`, composing `ReplayImport` and `ReplayCapture` | imported sessions are never captured over or cleaned up |

## 3. Replay imports: `ReplayImport`, `ImportLifecycle`

**State.**  `status`, `checksum`, `sessionId` and `duplicateOf` are columns of `replay_imports`
(the last one the `duplicate_session_id` entry of its JSON summary), `owner` and `rows` are
`replay_sessions` and its snapshot and quote rows, `archive` the archive directory.  Each
request has a program counter, the Python locals it carries from one transaction to the next
(`op`, `target`, `file`, `sess`, `dup`) and its last answer.  Files are told apart by their
checksums alone, as the code does.  `SessionOf` is `_stable_session_id`; it need not be injective.

**Actions.**  One per transaction of `PostgresReplayImportRepository` or visit to the archive;
requests interleave between them.  A transition that its `UPDATE` refuses raises, which no route
catches (`Refuse`, answer 500), except where the code has a handler: `ArchiveError`,
`PublishRefused`, `PublishError` go to `SaveErrors` and `MarkFailed`.  `Abort` is a lost
connection or a killed process between any two transactions; a lost acknowledgement is the
transaction followed by `Abort` or, for the publication, `PublishError`.  Two abstractions only add behaviours:
create runs to its end without yielding inside one process, but its import is visible to others
(and to other processes) and may be confirmed or cancelled at any of its steps; and which of
several completed duplicates a query returns is left open.

**Abstract specification.**  `ImportLifecycle` knows an import's phase, its files, the session it
links to and what a session shows.  A session is filled by one completing import and shows those
files for ever.  `ReplayImport` implements it (`ImplementsLifecycle`, checked and proved): the
refinement mapping merges uploaded, validating and awaiting into pending.

**Run.**  `import_faults`: two requests, two imports, three contents of which two collide on a
session id and one is invalid, with every fault; two of each is where every race in the code
(confirm against confirm, cancel and create; two imports of equal files or of colliding ids) has its
partners.  The module also defines `CalmSpec` and `PublishingIsDecided`: without faults, under weak fairness of every
request's next step (the thread pool and the event loop run what is runnable; clients owe nothing), an import that
reached `publishing` ends completed or failed.  With faults it need not: a killed confirm leaves the import in
`publishing`, which the design document leaves to maintenance.  `DuplicateConfirmAdopts` is what that document says of
duplicates, which the code does not keep (see Findings).

**Proofs** (`ReplayImportProof`).  `IInv` adds to the properties what each program point knows:
`LocalsOK` (the locals a step needs are there), `StepStatus` (which statuses a request may find
its import in; only a cancel can come between the steps of a create, nothing between those of a
confirm that won `mark_publishing`), `DuplicatesMatch` (a duplicate's session shows the checksum
of the import that is to adopt it, which makes adoption safe although `session_id` alone would
not) and `RowsOwned`.  `OneHolder` carries the argument: at most one request may write an import's row on its own authority,
so that statuses known at one step are still true at the next.  The proof goes group by group
(starts, middles, ends) and part by part (types, holders, data, answers).  Liveness is checked only.

**Left out.**  Upload spooling and its size limits, the reads of published sessions, and the checks
inside `read_replay_parquet_pair` (only its verdict is kept).  Known and not runs: the design
document's table allows cancelling a failed import and repeats a cancel with 200; the code answers both with 409.
Of two confirms that both read `awaiting_confirmation`, the loser's transition raises a ValueError that no route catches
(`import_repository.py:890`), so that it is answered 500 where the document says 409.

## 4. Heatmap: `HeatmapStore`

**State.**  One market day, symbol and expiry.  `base` is `heatmap_oi_baselines`, `snaps`
`heatmap_snapshots`, `bucket` `heatmap_bucket_5m`.  A payload is the baseline records its exposures were computed
from; the numbers computed from them are left out.  `log` and `settled` are history: the
snapshots merged in commit order, and what was locked when a request began.

**Actions.**  `Fetch` takes any snapshot (the live source is another component; requests in
threads may hold older ones), `ReadBaseline`, `MergeBaseline` and `StoreSnapshot` are the three
transactions, each with its failure before or after the commit.  The merge is one step: every row of the
upsert stays locked until the commit, and a deadlock of two is one of its failures.

**Properties.**  The daily baseline is defined from the history, not from the upsert's rule:
the first reading committed from 09:25 on, before that the newest of the morning.  Stored
payloads from 09:25 on agree with it, a request that begins after the lock is served it, and a
bucket always shows a stored snapshot in its latest version.

**Run.**  `heatmap_store`: two requests at a time and three in all (two to race and one to find what
they left), two times of the morning and one at the lock, in two buckets, two contracts,
two interests or none: every order of morning and locked readings, early and late.

**Proof** (`HeatmapStoreProof`).  `IInv` adds `RequestsOK` (what was locked when a request began
still is, and once merged it uses the locked records) and `SnapshotsOK`.  The step that matters
is `MergeKeepsDaily`: appending a snapshot to the log and applying the upsert's rule to the
baseline agree, for any log.

**Left out.**  The numerics, the in-memory repository (the same rules without concurrency), other
days and symbols (the primary keys keep them apart).  Known and not a run: a snapshot from 09:25
on whose rows bring no open interest is computed from morning records and labelled `locked`, since
`_baseline_status` looks at the clock only; the design document calls such a payload provisional.

## 5. Live state: `LiveState`

**State.**  `mem` is the process's `collector_state`: a number per key for the event stored under
it, the revision, the time of the last event; `epoch` counts restarts and stands for the
identity of the object.  `redis` is the document, `late` the writes that timed out on their way,
`cache` one entry of `LiveSnapshotService` and `pc`, `copy`, `source`, `id`, `answer` are the readers.

**Actions.**  Ingestion runs on the event loop and readers in the thread pool, so an event is
three steps (time, dictionary, revision) and a reader's copy, choice, identity, look-up, build
and keep are separate.  Within one of these, dictionaries are taken at once: a later copy only has more,
and one that changes under iteration raises, which is `Respond` without an answer.
Redis may fail, lose its data, or take a timed-out write later (`LandLate`).  `Restart` empties the memory.

**Properties.**  There are two, since neither assumption alone gives both.  With event times that grow
from request to request (`InOrder`: the collector stamps the events of a bulk with one clock
reading, and one uvicorn process ingests) a reader sees everything ingested when it began, whatever Redis
does.  With a reliable Redis it sees everything acknowledged when it began, whatever the times, or the state of a later process.
With neither, an acknowledged event can be hidden by an older document; that is a hazard no property claims away.

**Run.**  `live_state`: growing times, one reader, three events (a third for a late write between two
others), a Redis that fails, and a restart.  The second property, `ReadsWhatIsAcknowledged`, is proved only; an
instance for it needs two readers, since it takes a second one to leave a stale cache entry.

**Proof** (`LiveStateProof`).  `Known` is the set of states anything still refers to.  The invariant orders them by epoch and revision and says
that a later one has everything an earlier one has (`KnownOK`), that
growing times tell which is later (`TimesOK`), that a reliable Redis holds the acknowledged state
(`RedisOK`), and that a cache entry has at least what its identity promises (`CacheOK`), which
depends on the revision being counted after the event is stored and read before the data.

**Left out.**  `_analytics_memory`, the seed fallback, authentication, validation and the capture
on ingestion (modelled in `ReplayCapture`); the WebSocket route reads on the event loop and has
no interleaving of its own.

## 6. Live updates of a dashboard: `LiveUpdates`

**State.**  The closure of `startLiveSnapshotUpdates` variable by variable (`stopStream`,
`stopPolling`, `reconnectTimer`, `lastAppliedSnapshotKey`, `isStopped`), sockets and polling
loops as objects that outlive their handles, the messages and answers on their way, and what was
last reported to the dashboard.  A snapshot is its number; its key is its second.

**Actions.**  One per callback: message, failure, reconnect timer, poll answer, poll timer, stop;
and the server's publishing, sending and answering.  A closed socket may still deliver and a
stopped loop may still get its answer, until `Gone` or `Loaded` frees its name.

**Runs.**  `live_updates`: two sockets and two loops (one in use and one left over), four
snapshots of two seconds, one message on its way per socket.  Fairness: timers fire, a socket
that stays open delivers, loads end (weak), and not every poll comes to nothing (strong, of the
answer with data).  The code has neither a watchdog nor a load timeout, so both are assumptions about the
network.

**Proof** (`LiveUpdatesProof`).  `HandlesOK` says what the handles point to, `WireOK` that what
is on its way was published and is in order per socket, `ShownOK` that what is on its way to an active
loop, or over the socket once polling has ended, is not older than what is shown, or will be dropped.
`CatchesUp` is checked only.

**Left out.**  A browser without WebSocket (polling only), malformed payloads (dropped), and the
dashboard's own guards on what it applies (`ShowLive` in `ReplayDashboard`).  Known and not a run: when the
reconnected socket first delivers the snapshot that polling already showed, `applyChangedSnapshot` drops it with its status
(`snapshotUpdates.ts:62`); polling ends, and the page says that polling keeps it updated until the next snapshot.

## 7. Captured sessions and retention: `ReplayCapture`

**State.**  `rows` and `sessions` are `analytics_snapshots` and `replay_sessions`; the columns
`start_time`, `end_time` and `snapshot_count` are modelled by the rows they were computed from
(`summary`), so that any staleness shows.  The capture's locals are `todo`, `current`, `at`, `latest`; the
cleanup's are `affected`, `target`, `seen`, and `dead` and `locked` stand for its uncommitted
writes.  `captured` and `disturbed` are history; a session stays disturbed after a capture during a cleanup until its next capture outside of
one, so that `CleanupSparesNew` says nothing of it in a cleanup in between either.

**Actions.**  Captures come one after another on the event loop; a cleanup is one transaction at READ COMMITTED in a thread,
statement by statement.  A statement waits for rows the other side has locked; an
`UPDATE` or `DELETE` that waited looks again, and the `DELETE` of a session cascades to rows committed since its look.
The insert's statements all come under the session row's lock and are one step.  Locks are taken in opposite orders
(update: session, snapshot; cleanup: snapshots, session); `BreakDeadlock` is Postgres ending one
of the two.  Any call may fail before its commit or lose its acknowledgement, which opens the circuit for 30 seconds (`coolingDown`).

**Properties.**  Snapshots stay an interval apart although the reference point moves and may be
deleted; the session list is exact except after a capture during a cleanup, which the next
capture mends; what was acknowledged, or what replaced it, is kept until a cleanup may delete
it; a session's latest snapshot does not go back; every capture ends.

**Runs.**  `replay_capture`: two sessions (one captured while the cleanup is at the other), three
inserts, times 0 to 2 with interval 2 and cutoff 2: on both sides of the cutoff, closer than an
interval and exactly one apart.  Fairness: calls go on, Postgres grants a released lock to a waiter
(strong fairness of a capture's step: cleanups may come one after another) and finds deadlocks.
`cleanup_deletes_old_only` is a finding, and so is `SnapshotEveryInterval`, which the module defines.

**Proof** (`ReplayCaptureProof`).  `CaptureOK` says what the capture knows of what it is to write
in spite of a cleanup since its look: an insert is an interval after every row of the session, an
update not older than the row it replaces.  `CleanupOK` says that in undisturbed sessions what the
cleanup read, deleted and locked is still what there is.  `CaptureEnds` itself is checked only, but two theorems hold what
it rests on, for any finite number of sessions: `CapturesAdvance` (each step of a capture lowers a number, `LeftToCapture`, which nothing raises while it
is under way) and `CapturesWaitForCleanupOnly` (a capture that cannot go on waits for a cleanup that can, or is in the
deadlock that Postgres breaks).

**Left out.**  The dry run, the reads of the repository, several cleanups at once (an operator's
command), and the saved views that a cleanup deletes in its transaction (it is refused with
503 once saved views have degraded to memory).  Known and not a run: the race behind
`cleanup_deletes_old_only` also leaves `end_time` and `snapshot_count` behind until the session's next capture.

## 8. The replay page: `ReplayDashboard`

**State.**  The React state of `ReplayDashboard.tsx` under its own names: the sessions and whether they
are loading (`sessionsRequest` says for whom), the selection, the modes, the two flags of waiting and the
two of cancellation.  Frames are counted from 1.  Instead of request numbers the model keeps the requests: `load` and
`scenario` are the latest of their kind, `overtaken` and `overtakenScenario` earlier ones that
are still to be answered (one of each is remembered, any one).  A request of a frame has the id selected, the session on whose timeline
the frame is, and its place: the two sessions differ while the id is not in the list, where `sessions[0]` stands in.
`awaited` is history: what the user or the page asked to be shown last.

**Actions.**  One per button, interval callback and answer, together with the rendering and the
effects that it causes; the effect that loads a frame whenever `isLoadingReplaySessions`,
the id or the entry changes is `AutoLoad`.  Buttons are enabled as in `ArchiveTransport.tsx`.  Any request may fail.  A tick covers
any of the speeds, since the speed may be changed between two ticks.  Timestamps of a session that is no longer selected
are ignored by the code's request number and are not in the model.

**Properties.**  `ShowsWhatWasAsked`: whatever is displayed was asked for last, and a frame is the
one selected (unless the timestamps are being asked for again after an import).  `NoVainWait` (proved): all controls are disabled while the page is loading, so it must never say so
without an answer under way; this is close to failing, since a tick cancels the frame under way and leaves
the flag, and what clears it is the frame that the effect asks for, at once or when the confirmation of an import ends.
`PlaybackEnds`: `nextReplayPlaybackIndex` neither stands still at frames of equal or unreadable time nor passes the end.

**Run.**  `replay_dashboard`: an imported session with two frames of one time and a later one, a captured one with a single
frame; every list of them, in every order of answers.  Which frames a faster speed skips changes no property of the
page, so one speed is run; `TicksAdvance` is proved for all.  Fairness: requests are answered, with an error at least, and the interval fires while it is set (weak);
the user owes nothing.  `LiveStays`, which the module defines, is a finding.

**Proof** (`ReplayDashboardProof`).  `IInv` is the conjunction of `ModesExclude`, `AwaitedIsUnderWay`
(a request that may still be applied is that of the selection), `NoVainWait` and `SelectionExists`; it is inductive with `TypeOK`.  The lemmas
say what the helpers of timelines return (`NextIndex` is a place after the present one, or the last) and what starting,
canceling and the effect preserve, so that each handler is a composition of them.
`TicksAdvance` is the step on which `PlaybackEnds` rests, which itself is checked only.

**Left out.**  Admin login, uploading and cancelling an import, saved views, the data source, the collector's
health, the slider's formatting and error texts.  `LiveDashboard.tsx` is a copy whose session list stays empty and that keeps a second,
slower snapshot for the chain; `replayStream.ts` is used by no component.
Known and not runs: a confirmation that begins while the first list is loading, and fails, leaves the list
empty, and so does a completed one whose new list fails to load; Play at a frame that is already selected
(a session of one frame, or after UNLOAD) asks for nothing, so that replay mode
shows live data until the next tick; frames that take longer than a second are never displayed during
playback, since every tick cancels the one under way.

## 9. The research recorder: `Recorder`

**State.**  Time in slots, the loop's place (`pc`, `wake`, `loops`, `date`), and of the files what the capture
being made wrote: `lines` by option code, `batches` and `under` by ticker, `summary`.  `torn` are the files
whose last line has no end.  `mode` is the command line: market hours or not, repeating or not, how many captures.

**Actions.**  The two loops (`WaitForOpen`, `BeginCapture`, `EndTurn`, `Wake`, `NoTurnLeft`) and a capture line
by line (`Underlying`, `Request`, `WriteOption`, `WriteBatch`, `WriteSummary`); a request or an append
that raises ends the process, a kill may come within an append, and the supervisor starts it again.
The branch of the loop for `now >= closes_at` has no action: `WindowIsAhead` shows that it is dead code.

**Properties.**  `WindowIsAhead`: the window is the session of the instant, or the next one, never a past one.
`FilesAgree`: batch, summary and underlying lines agree with the option lines, whatever is missing or comes twice.
`LossIsBounded`: a kill costs the one record glued to the torn line, `NoGap`: the
time between two captures in a session is the interval, or the length of the longer one.

**Run.**  `recorder`: a weekday, a day off and a weekday of seven slots, so that a close is followed by both; an interval of two
slots and captures of up to three, so that one can be longer than the interval, two tickers and three codes in two requests; one fault.  `StopsAtTheClose`, defined in the
module, is a finding.

**Proof** (`CollectorsProof`).  `RecorderInv` is the conjunction of `TornOK` (damaged and torn lines together are no more than the kills: a torn line
has cost nothing yet, and can cost one record), `FilesOK` (how far the capture is tells which of its lines are there),
`CaptureOK` (a capture is under way no longer than the longest), `SleepOK` (a sleep in market hours is one before the open, which it does not pass, or
one after a capture, which ends an interval after that began or at once) and `TopOK` (who comes to the top of the loop in a session is not late).
`NoGap` follows from the last three.  The lemmas are about days and
sessions: the quotient and remainder of a slot, what `_next_weekday` finds, and `SessionStays`, that the session sought stays the same up to its
open, which makes a minute of waiting after another add up to the open.  `WeekAssumption`, that of eight days in a row one is a weekday,
is what the code's search for one needs to end.  The bounds that `TypeOK` gives for the numbers of lines are sums over codes, which are induction over data; `RecorderTypes` leaves them out.

**Left out.**  The fields of the records, prices, and the offline scripts that read the files.

## 10. The dashboard collector: `CollectorLoop`

**State.**  The loop's context (the expiry it was discovered for and the codes), a spot per symbol (`none`, `bad`, `good`), the
chunks still to request and the codes that came back; at the API, the collector's health and
what is shown of each symbol.  `today` is the target expiry, which the clock moves at any step.

**Actions.**  One per stage of `run_moomoo_snapshot_loop`: `Top`, `Discover`, `Spots`, `Collect` (a chunk), `Infer`, `Publish`,
`WakeUp`.  Symbols, spots, chunks and codes may each be missing; over the rate limit nothing is requested; a publication may be
refused or lose its answer, and then, as when the provider raises, the process exits until the operator starts it.

**Properties.**  `ConnectedIsWhole`: a symbol is called connected only in a batch that is complete, of one expiry and with a usable spot;
`ShownAdvances`: what the API shows of a symbol never goes back to an earlier expiry and never loses a code within one;
`RollsOver`: a loop that goes on takes up the new expiry.

**Run.**  `collector_loop`: two expiries, three symbols of which two are published, five codes in chunks of four, one of SPX without a strike, all five together over the
limit, one restart.  Fairness: the process runs (weak, of the loop's next step); the clock, failures and the operator are free.

**Proof** (`CollectorsProof`).  `LoopInv` adds to the types `ContextOK` (after the discovery the context is of the expiry wanted) and `ShownOK` (nothing is shown of an
expiry later than the one wanted, or than the clock's): with it a batch can only bring a later expiry or add to the same one.  Codes are finite in number; the chunk is not empty (`NumberAssumption`).
`CyclesAdvance` is the part of `RollsOver` that needs no fairness: a cycle goes on stage by stage and request by request, whatever the clock does.

**Left out.**  Codes without a positive strike (`Struck`) count for the status and do not go out, as in the code.  The parsing of provider records, prices, greeks, the compatibility payloads' fields, the synthetic
collector.  A symbol whose chain could not be read is not tried again before the next expiry; the model has it and no property is about it.

## 11. The IBKR commands: `IbkrProbe`

**State.**  The command as a sequence of sessions, the main thread's place, the pending entries with their data,
event and error, `ready_event` and `terminal_error`, the state of the socket and of the reader thread.

**Actions.**  The main thread connects, waits, asks, looks at answers in order, disconnects and posts the events one by one.  The reader thread runs
the callbacks: `NextValidId`, `Data`, `End`, `Refuse`, `Lose`.  A loss while an entry is being added ends the reader thread
with an exception after some of the entries were failed, as iterating over a dictionary that grows does.  A timeout may
end any wait; how long it is does not matter.

**Properties.**  `ReadyIsEarned`: nothing is asked for before the gateway was ready, though errors set the same event.  `WholeSnapshot`: what is about to be published
has a completed quote for every contract (the events are then posted one by one, and the posting may stop on the way).  `Released`: every client is disconnected once, before the next is made.
`Ends`: whatever is never answered, and even without a reader, the command ends.

**Run.**  `ibkr_probe`: every command, three options, two losses of the connection (one to leave a socket open, one to
close it).  Fairness: the main thread's steps, with timeouts among them (weak).

**Proof** (`CollectorsProof`).  `ReadyOK` says what an event without an error means, `AnswersOK` that an entry set without an error was completed by the gateway, and
`ContractsOK` where each contract is in the options session: to ask for, asked for or quoted, so that with nothing left all are quoted.  `ClientsOK`
ties the clients to the place of the main thread.  `Ends` itself is checked only; what it rests on is proved: `CommandsGoOn`, that in every state before the end some step of the main
thread is possible, and `CommandsAdvance`, that each of its steps lowers a measure (sessions left, places left, requests
or events left; the parameters of the options count for the window they may bring) which the reader thread cannot raise.

**Left out.**  `ibkr_health.py` (one TCP connection), the command line, and what is parsed of contracts and ticks.  `ibapi` is
not in the repository: what it may call is what the wrapper classes define, in any order.

## 12. Reading replays: `ReplayReads`, `ParquetReader`

**State.**  One import with its `file`, `status` and published `table`; the captured `rows`; a request with its answer.  `public`
and `had` are history: what there was when the request came.  `ParquetReader` holds operators only: the errors of
`read_replay_parquet_pair` on a pair of files, and the snapshots and quotes a pair without errors is turned into.

**Actions.**  The import is validated and published, snapshots are captured (inserted, or the latest one updated) and deleted, while a client lists sessions, asks for timestamps, for a
snapshot and for a stream.  Each read is a transaction that may fail (`Member`, `Imported`, `Persisted`, `ListImported`,
`ListPersisted`), and each has the code's fallback.  The queries keep the order of their `ORDER BY`.

**Properties.**  `EveryQuoteHasItsPlace`: what passes the validation can be joined.  `ExactWhenNamed`: a request that names a snapshot gets it as the files have it,
or is refused, or is empty if there is none.  `NearestIsNearest`: the two candidates and their comparison give the nearest of
all, the first in the file of those as near.  `NothingCapturedIsMissed`: what was there unchanged throughout is in the answer.  `AnsweredFromItsOwn`: no session is answered with data of another.

**Run.**  `replay_reads`: every order of up to three snapshots at two times (three, for equal times on one side and a third on the other), files with one
thing wrong each, two captures (two inserts, or an insert and its update), times asked for on, between and beyond those there are.  Only safety is
stated: a request that is answered needs no more than its own steps.

**Proof** (`RoutesProof`).  `ReadsInv` is the types, `ImportOK` (what is accepted passed the validation, and the table of a completed import has a row for
each snapshot of its file, in order), `RowsOK` (rows and captures are numbered, so that what was there when a request came is there still unless it was
deleted or updated), `StepOK` (which requests and which failures lead to each step), and the promises of answers, which hold when they are made and are kept since
a public table never changes.  Most of the work is in lemmas about the queries, for tables of any length: a finite set ordered by an
irreflexive, total and transitive relation has a first element (`FirstIsThere`) and its ranks are its places (`RankIsPlace`), so that `SortedBy` lists it in order
(`RankedIsSorted`); `NearestOfImport` shows that the two candidates and their comparison give what a search of the whole
table would; `AcceptedIds`, `AcceptedExpiry` and `AcceptedQuotes` say what an empty list of errors means.  `SortedBy` is defined by ranks since the
prover cannot expand the library's sort.

**Left out.**  The values computed of a frame's quotes, messages and their limits, the summary and the warnings.  Known: the contracts of a snapshot are not
compared by the validation, so that a file with one twice is accepted and fails when it is published (`Storable`).

## 13. Saved views: `SavedViews`

**State.**  Two stores from ids to views, in Postgres (`stored`) and in the fallback (`memory`), the process's flag `degraded`, and for each
request the repository it was given.  A view is a record of its id, whether its scope is the admin's, its time of creation, and data.  The client gives all of them: a save
replaces what is under its id (`Put`: `ON CONFLICT (view_id) DO UPDATE`, and the assignment of the memory), so it may change who sees it and when it expires.
History: `kept` and `held` are what may be under each id by what callers were told, the view acknowledged last and those sent after it whose answer was lost;
`owed` is, for each list, what that was when it began and has been since.

**Actions.**  `Begin`, `Schema`, then saving or listing in the repository it has; a failure, before or after the commit,
degrades the process and the request goes on in memory, while other threads still have Postgres in hand.  The token is asked for when a view of
the admin's scope is saved, whatever it replaces.  The retention counts and deletes in two steps, what was created before its cutoff, and is refused in a degraded process; either
may fail.  `Restart` loses the memory.

**Property.**  `ListsWhatWasSaved`: under every id a list shows what was acknowledged last when it began, or what has replaced it since, or one whose
answer was lost; it lacks only what its reader may not see and what a cleanup may have deleted, and never shows a view that was replaced before.  This is so in the repository that
answers; as soon as memory has acknowledged anything, that is the memory.  A list of the fallback may lack what is in
Postgres, and a restart brings back what Postgres has: that is the price of degrading, and the property says no more.

**Run.**  `saved_views`: two requests at a time (one that degrades the process under the other) on one id, with a view, the same one of the admin's scope and the same
one created before the cutoff, in private mode; one restart.  The cutoff is the same for all cleanups of the run; the theorems are for any.  One id is enough as no step
relates two; the theorems are for any number of them.

**Proof** (`RoutesProof`).  `MemoryOK` says that memory is used in a degraded process only and has what it told; `AcknowledgedStays` the same of Postgres: it has what it
acknowledged last, or one whose answer was lost, or nothing where a cleanup may have been.  `OwedOK` says that a list that was given Postgres began before
anything was acknowledged from memory, and that what it is owed grows with what is told (`TellKeeps`).  `SavesReplace` is about the steps: what is stored goes by
a save under its id which was permitted, or by a cleanup with a later cutoff, and in no other way.

**Left out.**  The order of a list, the other fields of a view, and `delete_view`, which no route calls.

## 14. Runs

| Run | Module | Shows |
| --- | --- | --- |
| `import_faults` | `MCReplayImport` | safety of imports and the refinement, with every fault |
| `heatmap_store` | `MCHeatmapStore` | baseline, snapshots and buckets stay consistent |
| `live_state` | `MCLiveState` | growing times: nothing ingested is missed |
| `live_updates` | `MCLiveUpdates` | one source at a time, quiet after stop, catches up |
| `replay_capture` | `MCReplayCapture` | spacing, exact list, nothing lost, captures end |
| `cleanup_deletes_old_only` | `MCReplayCapture` | finding: a cleanup can delete a new snapshot |
| `replay_dashboard` | `MCReplayDashboard` | no late answer is displayed; waiting and playback end |
| `recorder` | `MCRecorder` | the right session, no gap, files that agree, bounded loss |
| `collector_loop` | `MCCollectorLoop` | connected is whole, nothing goes back, the expiry rolls over |
| `ibkr_probe` | `MCIbkrProbe` | ready is earned, snapshots are whole, clients released, commands end |
| `replay_reads` | `MCReplayReads` | files are joined right and read back right, under failures and changes |
| `saved_views` | `MCSavedViews` | lists show what was acknowledged last under each id |

Deadlock is not checked where the system may really stop: `heatmap_store` and `live_state` come to the end of
their bounded events, `LiveUpdates` after `stop()`, the IBKR commands and the collector when they have exited.  Symmetry is used
in runs without liveness only.  Bounds are constants named `Max...`, `Horizon`, and `IdLeft` where ids run out.

## 15. Findings

Checked by a run:

- `cleanup_deletes_old_only` (`retention.py:158`): a session is counted and then deleted without
  a lock in between; a capture that commits there is deleted by the cascade.

The following are defined in the modules and are in no run, since the runs keep to what holds and to the finding above.  TLC finds each violated when it is added to
the `INVARIANTS` or `PROPERTIES` of a cfg of its module; what is said of them here rests on such a check, and on reading the code.  The first four are stated by a document:

- `DuplicateConfirmAdopts` (`importer.py:202`; the import design, line 449): two imports of the same files confirmed together both
  find no duplicate; the one that loses the primary key is marked failed although the session it
  names exists and shows its files.
- `SnapshotEveryInterval` (`capture.py:46`): an update moves the latest snapshot to its own time, and
  the next capture is compared with that; captures every 2 seconds with an interval of 5 keep
  moving one snapshot, and the session's past is not stored.
- `LiveStays` (`ReplayDashboard.tsx:1047`): going back to live cancels the frame and the scenario
  under way, but not the timestamps of the selected session; when they arrive the page loads a
  frame by itself and leaves live.
- `StopsAtTheClose` (`moomoo_research_recorder.py:306`; `docs/ml-moomoo-research-recorder.md:77`): without `--repeat-daily`
  the recorder should exit after the close, but the next turn of its loop is given the next day's session and it goes on.

No document promises the last one; a reader of the status would expect it:

- `DegradedIsShown` (`moomoo_snapshot.py:593`): a batch has one health event per symbol, all with one `collector_id`; the last
  one wins, so that SPX may be degraded while the collector is reported as connected.

## 16. What rests on what

Every theorem is proved from the named assumptions of its module only: constants are of their types, `None` is none of the values,
bounds are naturals, a week has a weekday (`WeekAssumption`), files are sequences of rows (`FilesAssumption`), the seed is not empty
(`SeedAssumption`).  Finite are the keys of `LiveState` (they are counted), the codes and options of the collectors, and, in the two
theorems about the end of a capture, the sessions.  All safety properties of the passing runs, invariants and action properties, and `ImplementsLifecycle`, are theorems for
every number of requests, imports, sessions, contracts, readers, sockets, events, frames, options, losses,
files, rows, threads and views; so is type correctness (of `SavedViews` as a part of its invariant, of `Recorder` without the bounds of its line counts).
`PROJECT.json` lists the theorems.

Model-checked only: liveness under fairness, `CatchesUp`, `CaptureEnds`, `PlaybackEnds`, `WaitingEnds`, `RollsOver`, `Ends`, `PublishingIsDecided`.  The prover has no rules for
fairness and ENABLED, and no induction over data.  Of `CaptureEnds`, `Ends`, `RollsOver` and `PlaybackEnds` the step that takes something off what is left is
proved, so that what rests on the small instance is the passage from there to the end.

The models are at the level of transactions, statements, appended lines, dictionary writes and callbacks; what Postgres, Redis, the event
loop, the file system and the browser do between them is taken from their documentation.

Not modelled: the analytics and experimental services (floating-point numerics without state), the web proxies and the admin
session (forwarding, and a signed cookie with an expiry), the remaining components and generated sources of the web application, contracts
and deployment scripts other than the recorder's supervisor.

To repeat: `tlc -config MC<x>.cfg MC<module>.tla` for each run, `tlapm <module>Proof.tla` for the proofs.
