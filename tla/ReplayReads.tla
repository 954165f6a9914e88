----------------------------- MODULE ReplayReads -----------------------------
(***************************************************************************)
(* Reading replays: routes/replay.py and the replay socket of              *)
(* routes/stream.py over import_repository.py, repository.py and the seed. *)
(*                                                                         *)
(* One pair of Parquet files is validated and published while live         *)
(* snapshots are captured in another session, old ones are removed by the  *)
(* retention, and a client asks for sessions, timestamps, snapshots and    *)
(* streams.  An answer takes up to three transactions, each of which fails *)
(* or sees what is committed by then.  Sessions are called by where their  *)
(* data is: an import's id is made of its checksums and is never that of a *)
(* captured session or of the seed.                                        *)
(***************************************************************************)
EXTENDS ParquetReader, FiniteSetsExt, Functions

CONSTANTS
  Files,          \* the pairs of files a client may upload
  SeedTimes,      \* REPLAY_TIMES
  At,             \* the times asked for; one that does not parse is as None
  None,           \* not given
  Unknown,        \* a source snapshot id no file has
  MaxCaptures     \* bound: captures, by inserts and updates

ASSUME FilesAssumption ==
  Files \subseteq [readable : BOOLEAN, snapshots : Seq(SnapshotRow), quotes : Seq(QuoteRow)]
ASSUME SeedAssumption == SeedTimes \in Seq(Nat) /\ SeedTimes # <<>>
ASSUME AtAssumption == At \subseteq Nat /\ None \notin At /\ None \notin Id \cup {Unknown}
ASSUME CaptureAssumption == MaxCaptures \in Nat

VARIABLES
  file, status,   \* the import: its files, uploaded, accepted, failed or completed
  table,          \* its snapshots, in the order of the source, with their quotes
  rows, nextRow,  \* analytics_snapshots of the captured session
  request, pc, answer,
  listed,         \* the sessions listed so far
  failed,         \* history: the reads of this request that failed
  public, had     \* history: what there was when the request came

import == <<file, status, table>>
captured == <<rows, nextRow>>
vars == <<import, captured, request, pc, answer, listed, failed, public, had>>

\* A captured row, and which capture wrote it last.
Row == [id : 1 .. MaxCaptures, edition : 1 .. MaxCaptures, time : Time]
Sessions == {"imported", "captured", "seed", "unknown"}
NoRequest == [kind |-> "none", session |-> "unknown", at |-> None, id |-> None]
Requests ==
  {NoRequest} \cup
  [kind : {"snapshot", "stream"}, session : Sessions, at : At \cup {None}, id : {None}] \cup
  [kind : {"snapshot", "stream"}, session : Sessions, at : {None}, id : Id \cup {Unknown}] \cup
  [kind : {"timestamps"}, session : Sessions, at : {None}, id : {None}] \cup
  [kind : {"sessions"}, session : {"unknown"}, at : {None}, id : {None}]

\* What is answered: from where, and the frames, times of captured and seed
\* snapshots and places of imported ones in the table.
NoAnswer == [from |-> "none", frames |-> <<>>]
Empty == [from |-> "empty", frames |-> <<>>]
Unavailable == [from |-> "unavailable", frames |-> <<>>]

Init ==
  /\ file \in Files /\ status = "uploaded" /\ table = <<>>
  /\ rows = {} /\ nextRow = 1
  /\ request = NoRequest /\ pc = "idle" /\ answer = NoAnswer /\ listed = <<>>
  /\ failed = {} /\ public = FALSE /\ had = {}

(***************************************************************************)
(* What changes meanwhile.                                                 *)
(***************************************************************************)
reader == <<request, pc, answer, listed, failed, public, had>>

\* The importer's validation.
Validate ==
  /\ status = "uploaded"
  /\ status' = IF Accepted(file) THEN "accepted" ELSE "failed"
  /\ UNCHANGED <<file, table, captured, reader>>

\* A frame as it is read back: a snapshot with its quotes, joined by its id.
FrameOf(s, Q) == [id |-> s.id, time |-> s.time,
                  quotes |-> {[contract |-> q.contract, valid |-> q.valid] :
                                q \in {p \in Q : p.id = s.id}}]

\* publish_import, one transaction; a key inserted twice fails the import.
Publish ==
  /\ status = "accepted"
  /\ \/ /\ Storable(file) /\ status' = "completed"
        /\ table' = [i \in DOMAIN Snapshots(file) |-> FrameOf(Snapshots(file)[i], Quotes(file))]
     \/ status' = "failed" /\ UNCHANGED table
  /\ UNCHANGED <<file, captured, reader>>

\* insert_snapshot, or update_snapshot of what was the latest row when the
\* capture looked for it, which may be any by now; a time is not compared again.
Insert(t) == rows' = rows \cup {[id |-> nextRow, edition |-> nextRow, time |-> t]}
Update(t) ==
  \E r \in rows :
    rows' = (rows \ {r}) \cup {[id |-> r.id, edition |-> nextRow, time |-> t]}
Capture(t) ==
  /\ nextRow <= MaxCaptures /\ nextRow' = nextRow + 1
  /\ Insert(t) \/ Update(t)
  /\ UNCHANGED <<import, reader>>

\* The retention, of the rows before the cutoff.
Cleanup(cutoff) ==
  /\ \E r \in rows : r.time < cutoff
  /\ rows' = {r \in rows : r.time >= cutoff}
  /\ UNCHANGED <<import, nextRow, reader>>

(***************************************************************************)
(* The queries.                                                            *)
(***************************************************************************)
Distance(t, u) == IF t > u THEN t - u ELSE u - t

\* The first of S, and all of it, in the order a query sorts by.
FirstBy(S, Before(_, _)) == {r \in S : \A o \in S \ {r} : Before(r, o)}
SortedBy(S, Before(_, _)) ==
  [i \in 1 .. Cardinality(S) |-> CHOOSE r \in S : Cardinality({o \in S : Before(o, r)}) = i - 1]

Places == DOMAIN table
TimeOf(i) == table[i].time

\* The two candidates of nearest_snapshot: the last place at or before the
\* time and the first at or after it, of equal times the lower order.
BeforeCandidateLast(at) ==
  FirstBy({i \in Places : TimeOf(i) <= at},
          LAMBDA i, j : TimeOf(i) > TimeOf(j) \/ (TimeOf(i) = TimeOf(j) /\ i > j))
BeforeCandidate(at) ==
  FirstBy({i \in Places : TimeOf(i) <= at},
          LAMBDA i, j : TimeOf(i) > TimeOf(j) \/ (TimeOf(i) = TimeOf(j) /\ i < j))
AfterCandidate(at) ==
  FirstBy({i \in Places : TimeOf(i) >= at},
          LAMBDA i, j : TimeOf(i) < TimeOf(j) \/ (TimeOf(i) = TimeOf(j) /\ i < j))
Latest ==
  FirstBy(Places, LAMBDA i, j : TimeOf(i) > TimeOf(j) \/ (TimeOf(i) = TimeOf(j) /\ i > j))

\* _nearest_import_snapshot_record
Nearer(at, i, j) == \/ Distance(TimeOf(i), at) < Distance(TimeOf(j), at)
                    \/ Distance(TimeOf(i), at) = Distance(TimeOf(j), at) /\ i < j
NearestImported(at) ==
  IF at = None THEN Latest
  ELSE FirstBy(BeforeCandidate(at) \cup AfterCandidate(at), LAMBDA i, j : Nearer(at, i, j))

ById(id) == {i \in Places : table[i].id = id}

\* stream_snapshots, in the order of the source.
Streamed(at, id) ==
  CASE id # None -> {i \in Places : \E j \in ById(id) : i >= j}
    [] id = None /\ at = None -> Places
    [] OTHER -> {i \in Places : TimeOf(i) >= at}
InOrder(S) == SortedBy(S, LAMBDA i, j : i < j)

\* repository.py: nearest_snapshot and replay_snapshots, the later time and
\* the later row first, or in the order of time.
NearestRow(at) ==
  FirstBy(rows, LAMBDA r, s :
    LET d == IF at = None THEN 0 ELSE Distance(r.time, at)
        e == IF at = None THEN 0 ELSE Distance(s.time, at)
    IN \/ d < e
       \/ d = e /\ (r.time > s.time \/ (r.time = s.time /\ r.id > s.id)))
RowsAfter(at) == SortedBy({r \in rows : at = None \/ r.time > at}, LAMBDA r, s : r.id < s.id)
RowsFrom(at) ==
  SortedBy({r \in rows : at = None \/ r.time >= at},
           LAMBDA r, s : r.time < s.time \/ (r.time = s.time /\ r.id < s.id))

\* nearest_replay_snapshot and snapshots_at_or_after, of the seed: without a
\* time the last one, of two as near the first.
SeedPlaces == DOMAIN SeedTimes
NearestSeed(at) ==
  IF at = None THEN {Len(SeedTimes)}
  ELSE FirstBy(SeedPlaces, LAMBDA i, j :
         \/ Distance(SeedTimes[i], at) < Distance(SeedTimes[j], at)
         \/ Distance(SeedTimes[i], at) = Distance(SeedTimes[j], at) /\ i < j)
SeedFrom(at) == InOrder({i \in SeedPlaces : at = None \/ SeedTimes[i] >= at})

(***************************************************************************)
(* A request.                                                              *)
(***************************************************************************)
Ask(q) ==
  /\ pc = "idle" /\ q.kind # "none" /\ request' = q
  /\ pc' = IF q.kind = "sessions" THEN "list imported" ELSE "member"
  /\ failed' = {} /\ public' = (status = "completed") /\ had' = rows
  /\ UNCHANGED <<import, captured, answer, listed>>

\* Every read may raise.
Reads(read) == failed' = failed
Raises(read) == failed' = failed \cup {read}

Answers(from, frames) ==
  /\ pc' = "answer"
  /\ answer' = IF frames = <<>> THEN Empty ELSE [from |-> from, frames |-> frames]
Refuses == pc' = "answer" /\ answer' = Unavailable

seen == <<import, captured, request, listed, public, had>>

\* _is_completed_imported_session: if it raises, a request that names a
\* source snapshot, and one for timestamps, is refused, and any other goes on
\* as if the session were not imported.
AlwaysGoesOn == FALSE
MustBeAvailable == request.id # None \/ request.kind = "timestamps"
Elsewhere == IF request.kind = "timestamps"
             THEN pc' = "answer" /\ answer' = [from |-> "estimated", frames |-> <<>>]
             ELSE pc' = "persisted" /\ answer' = answer
Member ==
  /\ pc = "member"
  /\ \/ /\ Reads("member")
        /\ IF request.session = "imported" /\ status = "completed"
           THEN pc' = "imported" /\ answer' = answer
           ELSE Elsewhere
     \/ /\ Raises("member")
        /\ IF MustBeAvailable THEN Refuses ELSE pc' = "persisted" /\ answer' = answer
  /\ UNCHANGED seen

\* The import's rows: the timestamps, the snapshot named or nearest, the
\* stream.  build_imported_analytics_snapshot computes the rest of a frame.
Imported ==
  /\ pc = "imported"
  /\ \/ /\ Reads("imported")
        /\ CASE request.kind = "timestamps" -> Answers("imported", InOrder(Places))
             [] request.kind = "stream" ->
                  Answers("imported", InOrder(Streamed(request.at, request.id)))
             [] request.kind = "snapshot" ->
                  Answers("imported", SetToSeq(IF request.id # None THEN ById(request.id)
                                               ELSE NearestImported(request.at)))
     \/ Raises("imported") /\ Refuses
  /\ UNCHANGED seen

\* The captured rows, and if there are none the seed or an empty snapshot; a
\* failure is one for all but the seed.
OfSeed == Answers("seed", IF request.kind = "stream" THEN SeedFrom(request.at)
                          ELSE SetToSeq(NearestSeed(request.at)))
FallbackForAll == OfSeed
Fallback == IF request.session = "seed" THEN OfSeed ELSE Answers("empty", <<>>)
Persisted ==
  /\ pc = "persisted"
  /\ \/ /\ Reads("persisted")
        /\ LET found == IF request.session # "captured" THEN <<>>
                        ELSE IF request.kind = "stream" THEN RowsFrom(request.at)
                        ELSE SetToSeq(NearestRow(request.at))
           IN IF found # <<>> THEN Answers("captured", found) ELSE Fallback
     \/ Raises("persisted") /\ (IF request.session = "seed" THEN OfSeed ELSE Refuses)
  /\ UNCHANGED seen

\* list_replay_sessions: the public imports, the sessions with captured rows,
\* the seed; a read that raises lists none.
ListImported ==
  /\ pc = "list imported" /\ pc' = "list persisted"
  /\ \/ /\ Reads("imported")
        /\ listed' = IF status = "completed" THEN <<"imported">> ELSE <<>>
     \/ Raises("imported") /\ listed' = <<>>
  /\ UNCHANGED <<import, captured, request, answer, public, had>>
ListPersisted ==
  /\ pc = "list persisted" /\ pc' = "answer"
  /\ answer' = [from |-> "sessions", frames |-> <<>>]
  /\ \/ /\ Reads("persisted")
        /\ listed' = listed \o (IF rows # {} THEN <<"captured">> ELSE <<>>) \o <<"seed">>
     \/ Raises("persisted") /\ listed' = Append(listed, "seed")
  /\ UNCHANGED <<import, captured, request, public, had>>

\* The answer is sent: a stream frame by frame, an empty one as one empty
\* snapshot, a refused one as a close with code 1011.
Respond ==
  /\ pc = "answer" /\ pc' = "idle" /\ answer' = NoAnswer /\ request' = NoRequest
  /\ listed' = <<>> /\ failed' = {} /\ public' = FALSE /\ had' = {}
  /\ UNCHANGED <<import, captured>>

Next ==
  \/ Validate \/ Publish
  \/ \E t \in Time : Capture(t) \/ Cleanup(t)
  \/ \E q \in Requests : Ask(q)
  \/ Member \/ Imported \/ Persisted \/ ListImported \/ ListPersisted \/ Respond

Spec == Init /\ [][Next]_vars

-----------------------------------------------------------------------------
(* Properties                                                              *)

\* The state is well formed: an import whose files were refused has no
\* snapshots, a completed one has them all, every answer is of a known kind.
TypeOK ==
  /\ file \in Files /\ status \in {"uploaded", "accepted", "failed", "completed"}
  /\ Len(table) = (IF status = "completed" THEN Len(file.snapshots) ELSE 0)
  /\ rows \subseteq Row /\ nextRow \in 1 .. MaxCaptures + 1
  /\ request \in Requests
  /\ pc \in {"idle", "member", "imported", "persisted", "list imported", "list persisted", "answer"}
  /\ answer.from \in {"none", "empty", "unavailable", "estimated", "imported", "captured",
                      "seed", "sessions"}
  /\ Rows(listed) \subseteq Sessions /\ failed \subseteq {"member", "imported", "persisted"}
  /\ public \in BOOLEAN /\ had \subseteq Row

\* The rows of files that pass the validation can be told apart and joined:
\* every quote has one snapshot, of its own expiry, which is that of all.
EveryQuoteHasItsPlace ==
  status \in {"accepted", "completed"} =>
    \A i \in DOMAIN file.quotes :
      Cardinality({j \in DOMAIN file.snapshots : file.quotes[i].id = file.snapshots[j].id
                                               /\ file.quotes[i].expiry = file.snapshots[j].expiry})
        = 1

Asked(kind, session) == pc = "answer" /\ request.kind = kind /\ request.session = session
Given == Rows(answer.frames)

\* A request that names a snapshot of a session that was public when it came
\* is answered with that snapshot as the files have it, quotes and all, or
\* with the frames from it on to the end in the order of the files.  Whatever
\* fails, it is never answered from somewhere else: it is refused, or empty
\* if the files have no such snapshot.
FramesOfFile == [i \in DOMAIN file.snapshots |->
  [id |-> file.snapshots[i].id, time |-> file.snapshots[i].time,
   quotes |-> {[contract |-> q.contract, valid |-> IsValid(q)] :
                 q \in {r \in Rows(file.quotes) : r.id = file.snapshots[i].id}}]]
ExactWhenNamed ==
  pc = "answer" /\ request.session = "imported" /\ request.id # None /\ public =>
    LET named == {i \in DOMAIN file.snapshots : file.snapshots[i].id = request.id}
        shown == [k \in DOMAIN answer.frames |-> table[answer.frames[k]]]
    IN \/ answer = Unavailable /\ failed # {}
       \/ answer = Empty /\ named = {}
       \/ /\ answer.from = "imported"
          /\ \E i \in named :
               shown = SubSeq(FramesOfFile, i,
                              IF request.kind = "snapshot" THEN i ELSE Len(file.snapshots))

\* The snapshot shown for a time is the nearest of all the import has, and of
\* two as near the first of the files; without a time it is the latest.
NearestIsNearest ==
  Asked("snapshot", "imported") /\ request.id = None /\ answer.from = "imported" =>
    \A i \in Given, j \in Places :
      IF request.at = None THEN TimeOf(j) <= TimeOf(i)
      ELSE \/ Distance(TimeOf(i), request.at) < Distance(TimeOf(j), request.at)
           \/ Distance(TimeOf(i), request.at) = Distance(TimeOf(j), request.at) /\ i <= j

\* What was captured before the request came and is there unchanged when it is
\* answered was seen by it: nothing of it is nearer than the snapshot shown,
\* and a stream has all of it from the time on, in the order of time.
NothingCapturedIsMissed ==
  pc = "answer" /\ request.session = "captured" /\ request.id = None
  /\ answer.from \in {"captured", "empty"} =>
    LET old == had \cap rows
        Far(r) == IF request.at = None THEN 0 ELSE Distance(r.time, request.at)
    IN CASE request.kind = "snapshot" -> \A r \in old : \E g \in Given : Far(g) <= Far(r)
         [] request.kind = "stream" ->
              /\ {r \in old : request.at = None \/ r.time >= request.at} \subseteq Given
              /\ \A i \in 1 .. Len(answer.frames) - 1 :
                   answer.frames[i].time <= answer.frames[i + 1].time

\* A session is answered from its own data only: the seed answers for the seed,
\* captured rows for theirs.  Empty is shown for a public import only if
\* nothing of it matches or it could not be looked up, and never for the seed.
AnsweredFromItsOwn ==
  pc = "answer" /\ request.kind \in {"snapshot", "stream"} =>
    /\ answer.from \in {"imported", "captured", "seed"} => answer.from = request.session
    /\ answer = Empty /\ public /\ request.session = "imported" =>
         \/ "member" \in failed
         \/ request.id \notin Ids(file.snapshots) \cup {None}
         \/ \A i \in Places : request.at # None /\ TimeOf(i) < request.at
    /\ answer = Empty /\ request.session = "seed" =>
         request.kind = "stream" /\ \A i \in SeedPlaces : SeedTimes[i] < request.at
=============================================================================
