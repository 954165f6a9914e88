---------------------------- MODULE ReplayImport ----------------------------
(***************************************************************************)
(* The replay import service: replay/importer.py over replay/archive.py    *)
(* and replay/import_repository.py, behind routes/replay_imports.py.       *)
(*                                                                         *)
(* Requests run concurrently: confirm and cancel are `def` endpoints that  *)
(* FastAPI runs in its thread pool, and the baseline script is a process   *)
(* of its own.  Every repository method opens a connection, runs one       *)
(* transaction and commits, so one action of this module is one            *)
(* transaction (or one visit to the archive directory) of one request, and *)
(* requests interleave between transactions.  What a request keeps in its  *)
(* Python locals between two transactions is kept in `target', `file',     *)
(* `sess' and `dup'; it may be stale when it is used.                      *)
(*                                                                         *)
(* An exception that no handler catches ends a request with answer 500 and *)
(* leaves behind what was already committed: a refused transition does so  *)
(* (ValueError), and so does a lost database connection or a killed        *)
(* process at any point (Abort).                                           *)
(***************************************************************************)
EXTENDS Naturals, FiniteSets

CONSTANTS
  Import,       \* import ids (uuid4: a new one for every create)
  Content,      \* what an uploaded pair of files holds, told apart by checksum
  Valid,        \* the contents that parse and pass validation
  Session,      \* replay session ids
  SessionOf,    \* _stable_session_id: a content's session id
  Request,      \* concurrent requests
  None          \* SQL NULL / Python None

ASSUME SessionOfType == SessionOf \in [Content -> Session]
ASSUME ValidType == Valid \subseteq Content
ASSUME NoneType == None \notin Import \cup Content \cup Session

VARIABLES
  status,       \* replay_imports.status ("none": no such row)
  checksum,     \* replay_imports.snapshots_sha256, quotes_sha256
  sessionId,    \* replay_imports.session_id
  duplicateOf,  \* validation_summary["duplicate_session_id"]
  owner,        \* replay_sessions.import_id (None: no such session row)
  rows,         \* the content whose snapshot and quote rows a session has
  archive,      \* imports whose files are in the archive directory
  pc,           \* the next step of each request
  op,           \* which endpoint the request runs
  target,       \* import_id of the request
  file,         \* checksums the request holds
  sess,         \* import_record.session_id as the request read it
  dup,          \* session id of the duplicate the request found
  reply         \* the last answer of each request

tables == <<status, checksum, sessionId, duplicateOf, owner, rows>>
locals == <<op, target, file, sess, dup>>
vars == <<tables, archive, pc, locals, reply>>

Status == {"none", "uploaded", "validating", "awaiting_confirmation",
           "publishing", "completed", "failed", "cancelled"}
Cancellable == {"uploaded", "validating", "awaiting_confirmation"}

Step == {"idle",
         "insert", "validate", "archive", "read", "save", "offer", \* create
         "claim", "recheck", "adopt", "reread", "resave", "publish", \* confirm
         "withdraw",                                               \* cancel
         "reject", "fail", "answer", "answerDone"}                 \* all

(* 200, 409 (the status says what the import is), or an escaped exception. *)
Op == {"create", "confirm", "cancel"}
Reply == [op: Op, of: Import \cup {None},
          code: {200, 409, 500}, status: Status]

TypeOK ==
  /\ status \in [Import -> Status]
  /\ checksum \in [Import -> Content \cup {None}]
  /\ sessionId \in [Import -> Session \cup {None}]
  /\ duplicateOf \in [Import -> Session \cup {None}]
  /\ owner \in [Session -> Import \cup {None}]
  /\ rows \in [Session -> Content \cup {None}]
  /\ archive \subseteq Import
  /\ pc \in [Request -> Step]
  /\ op \in [Request -> Op \cup {None}]
  /\ target \in [Request -> Import \cup {None}]
  /\ file \in [Request -> Content \cup {None}]
  /\ sess \in [Request -> Session \cup {None}]
  /\ dup \in [Request -> Session \cup {None}]
  /\ reply \in [Request -> Reply \cup {None}]

Init ==
  /\ status = [i \in Import |-> "none"]
  /\ checksum = [i \in Import |-> None]
  /\ sessionId = [i \in Import |-> None]
  /\ duplicateOf = [i \in Import |-> None]
  /\ owner = [s \in Session |-> None]
  /\ rows = [s \in Session |-> None]
  /\ archive = {}
  /\ pc = [r \in Request |-> "idle"]
  /\ op = [r \in Request |-> None]
  /\ target = [r \in Request |-> None]
  /\ file = [r \in Request |-> None]
  /\ sess = [r \in Request |-> None]
  /\ dup = [r \in Request |-> None]
  /\ reply = [r \in Request |-> None]

-----------------------------------------------------------------------------
(* Control: going on to the next step, or ending with an answer.           *)

Continue(r, step) ==
  /\ pc' = [pc EXCEPT ![r] = step]
  /\ UNCHANGED <<locals, reply>>

Respond(r, o, i, code, st) ==
  /\ pc' = [pc EXCEPT ![r] = "idle"]
  /\ reply' = [reply EXCEPT ![r] =
                 [op |-> o, of |-> i, code |-> code, status |-> st]]
  /\ op' = [op EXCEPT ![r] = None]
  /\ target' = [target EXCEPT ![r] = None]
  /\ file' = [file EXCEPT ![r] = None]
  /\ sess' = [sess EXCEPT ![r] = None]
  /\ dup' = [dup EXCEPT ![r] = None]

Begin(r, o, i, c, s, d, step) ==
  /\ pc' = [pc EXCEPT ![r] = step]
  /\ reply' = [reply EXCEPT ![r] = None]
  /\ op' = [op EXCEPT ![r] = o]
  /\ target' = [target EXCEPT ![r] = i]
  /\ file' = [file EXCEPT ![r] = c]
  /\ sess' = [sess EXCEPT ![r] = s]
  /\ dup' = [dup EXCEPT ![r] = d]

(* An exception nobody catches: only KeyError has a handler in the routes. *)
Raise(r) == Respond(r, op[r], target[r], 500, "none")

-----------------------------------------------------------------------------
(* Repository: one transaction each.                                       *)

(* find_duplicate_checksum_import, and what its callers keep of the row it *)
(* returns: the session of a completed import other than the caller's own. *)
(* Completed rows come first; which of several is not determined here.     *)
Completed(c) == {j \in Import : status[j] = "completed" /\ checksum[j] = c}

(* Mutant: the duplicate's import id taken for its session id.             *)
DuplicateImports(c, self) ==
  IF Completed(c) = {}
  THEN {None}
  ELSE {IF j = self THEN None ELSE j : j \in Completed(c)}

DuplicateSessions(c, self) ==
  IF Completed(c) = {}
  THEN {None}
  ELSE {IF j = self THEN None ELSE sessionId[j] : j \in Completed(c)}

(* The UPDATE of _transition, under the row lock, session_id COALESCEd.    *)
Transition(i, from, to, s) ==
  /\ status[i] = from
  /\ status' = [status EXCEPT ![i] = to]
  /\ sessionId' = [sessionId EXCEPT ![i] = IF s = None THEN @ ELSE s]
  /\ UNCHANGED <<checksum, duplicateOf, owner, rows>>

(* save_validation replaces the whole summary, whatever the status.        *)
SaveValidation(i, d) ==
  /\ duplicateOf' = [duplicateOf EXCEPT ![i] = d]
  /\ UNCHANGED <<status, checksum, sessionId, owner, rows>>

(* Mutant: mark_failed without its status check.                           *)
FailsAnything ==
  [validate |-> {"uploaded"},
   offer    |-> {"validating"},
   claim    |-> {"awaiting_confirmation"},
   adopt    |-> {"publishing"},
   withdraw |-> Cancellable,
   fail     |-> Status]

(* The statuses each guarded update accepts.                               *)
Accepts ==
  [validate |-> {"uploaded"},
   offer    |-> {"validating"},
   claim    |-> {"awaiting_confirmation"},
   adopt    |-> {"publishing"},
   withdraw |-> Cancellable,
   fail     |-> Status \ {"none", "completed", "cancelled"}]

(* ... and what happens to a request whose update is refused.              *)
Refuse(r) ==
  /\ pc[r] \in DOMAIN Accepts
  /\ status[target[r]] \notin Accepts[pc[r]]
  /\ Raise(r)
  /\ UNCHANGED <<tables, archive>>

-----------------------------------------------------------------------------
(* create_import                                                           *)

(* Bound: a model has |Import| ids to hand out, so a create is admitted    *)
(* only while one is left for it.                                          *)
IdLeft == Cardinality({q \in Request : pc[q] = "insert"})
            < Cardinality({i \in Import : status[i] = "none"})

Create(r, c) ==
  /\ pc[r] = "idle"
  /\ IdLeft
  /\ \E d \in DuplicateSessions(c, None) :
       Begin(r, "create", None, c, None, d, "insert")
  /\ UNCHANGED <<tables, archive>>

InsertImport(r) ==
  /\ pc[r] = "insert"
  /\ \E i \in Import :
       /\ status[i] = "none"
       /\ status' = [status EXCEPT ![i] = "uploaded"]
       /\ checksum' = [checksum EXCEPT ![i] = file[r]]
       /\ target' = [target EXCEPT ![r] = i]
  /\ pc' = [pc EXCEPT ![r] = "validate"]
  /\ UNCHANGED <<sessionId, duplicateOf, owner, rows, archive,
                 op, file, sess, dup, reply>>

MarkValidating(r) ==
  /\ pc[r] = "validate"
  /\ Transition(target[r], "uploaded", "validating", None)
  /\ Continue(r, "archive")
  /\ UNCHANGED archive

(* archive_replay_files, then save_archive_metadata, whose checksums are   *)
(* those of the verified copies: the ones the row already has.             *)
ArchiveFiles(r) ==
  /\ pc[r] = "archive"
  /\ archive' = archive \cup {target[r]}
  /\ Continue(r, "read")
  /\ UNCHANGED tables

Readable(r) == target[r] \in archive /\ checksum[target[r]] \in Valid

(* read_replay_parquet_pair reports unreadable and invalid files alike.    *)
ReadFiles(r) ==
  /\ \/ pc[r] = "read" /\ Continue(r, IF Readable(r) THEN "save" ELSE "reject")
     \/ pc[r] = "reread" /\ Continue(r, IF Readable(r) THEN "resave" ELSE "reject")
  /\ UNCHANGED <<tables, archive>>

SaveSummary(r) ==
  /\ pc[r] = "save"
  /\ SaveValidation(target[r], dup[r])
  /\ Continue(r, "offer")
  /\ UNCHANGED archive

MarkAwaiting(r) ==
  /\ pc[r] = "offer"
  /\ Transition(target[r], "validating", "awaiting_confirmation",
                IF dup[r] = None THEN SessionOf[file[r]] ELSE dup[r])
  /\ Continue(r, "answer")
  /\ UNCHANGED archive

-----------------------------------------------------------------------------
(* confirm_import                                                          *)

Confirm(r, i) ==
  /\ pc[r] = "idle"
  /\ status[i] # "none"
  /\ CASE status[i] = "completed" -> Respond(r, "confirm", i, 200, status[i])
       [] status[i] = "awaiting_confirmation" ->
            Begin(r, "confirm", i, checksum[i], sessionId[i], duplicateOf[i],
                  CASE sessionId[i] = None -> "fail"
                    [] duplicateOf[i] # None -> "claim"
                    [] OTHER -> "recheck")
       [] OTHER -> Respond(r, "confirm", i, 409, status[i])
  /\ UNCHANGED <<tables, archive>>

RecheckDuplicate(r) ==
  /\ pc[r] = "recheck"
  /\ \E d \in DuplicateSessions(file[r], target[r]) :
       dup' = [dup EXCEPT ![r] = d]
  /\ pc' = [pc EXCEPT ![r] = "claim"]
  /\ UNCHANGED <<tables, archive, op, target, file, sess, reply>>

(* Mutant: the UPDATE without the locked status check.                     *)
UnlockedPublishing(r) ==
  /\ pc[r] = "claim"
  /\ status' = [status EXCEPT ![target[r]] = "publishing"]
  /\ Continue(r, IF dup[r] # None THEN "adopt" ELSE "reread")
  /\ UNCHANGED <<checksum, sessionId, duplicateOf, owner, rows, archive>>

MarkPublishing(r) ==
  /\ pc[r] = "claim"
  /\ Transition(target[r], "awaiting_confirmation", "publishing", None)
  /\ Continue(r, IF dup[r] # None THEN "adopt" ELSE "reread")
  /\ UNCHANGED archive

MarkCompleted(r) ==
  /\ pc[r] = "adopt"
  /\ Transition(target[r], "publishing", "completed", dup[r])
  /\ Continue(r, "answerDone")
  /\ UNCHANGED archive

(* The summary of the second read carries no duplicate_session_id.         *)
ResaveSummary(r) ==
  /\ pc[r] = "resave"
  /\ SaveValidation(target[r], None)
  /\ Continue(r, "publish")
  /\ UNCHANGED archive

(* publish_import: the session row, its snapshots and quotes, and the      *)
(* import's status, in one transaction.  session_id is the primary key.    *)
(* Mutant: INSERT ... ON CONFLICT DO UPDATE instead of the primary key.    *)
CanOverwrite(r) == status[target[r]] = "publishing"

CanPublish(r) == status[target[r]] = "publishing" /\ owner[sess[r]] = None

PublishRows(r) ==
  /\ CanPublish(r)
  /\ owner' = [owner EXCEPT ![sess[r]] = target[r]]
  /\ rows' = [rows EXCEPT ![sess[r]] = checksum[target[r]]]
  /\ status' = [status EXCEPT ![target[r]] = "completed"]
  /\ sessionId' = [sessionId EXCEPT ![target[r]] = sess[r]]
  /\ UNCHANGED <<checksum, duplicateOf, archive>>

Publish(r) ==
  /\ pc[r] = "publish"
  /\ PublishRows(r)
  /\ Continue(r, "answerDone")

(* Mutant: the primary key conflict not caught.                            *)
ConflictEscapes(r) ==
  /\ pc[r] = "publish"
  /\ ~CanPublish(r)
  /\ Raise(r)
  /\ UNCHANGED <<tables, archive>>

PublishRefused(r) ==
  /\ pc[r] = "publish"
  /\ ~CanPublish(r)
  /\ Continue(r, "reject")
  /\ UNCHANGED <<tables, archive>>

-----------------------------------------------------------------------------
(* cancel_import, and the endings the three operations share.              *)

Cancel(r, i) ==
  /\ pc[r] = "idle"
  /\ status[i] # "none"
  /\ IF status[i] \in Cancellable
     THEN Begin(r, "cancel", i, None, None, None, "withdraw")
     ELSE Respond(r, "cancel", i, 409, status[i])
  /\ UNCHANGED <<tables, archive>>

(* Mutant: trusting the status cancel_import read before the row lock.     *)
UnlockedCancel(r) ==
  /\ pc[r] = "withdraw"
  /\ status' = [status EXCEPT ![target[r]] = "cancelled"]
  /\ Continue(r, "answer")
  /\ UNCHANGED <<checksum, sessionId, duplicateOf, owner, rows, archive>>

MarkCancelled(r) ==
  /\ pc[r] = "withdraw"
  /\ status[target[r]] \in Cancellable
  /\ status' = [status EXCEPT ![target[r]] = "cancelled"]
  /\ Continue(r, "answer")
  /\ UNCHANGED <<checksum, sessionId, duplicateOf, owner, rows, archive>>

SaveErrors(r) ==
  /\ pc[r] = "reject"
  /\ SaveValidation(target[r], None)
  /\ Continue(r, "fail")
  /\ UNCHANGED archive

MarkFailed(r) ==
  /\ pc[r] = "fail"
  /\ status[target[r]] \in Accepts.fail
  /\ status' = [status EXCEPT ![target[r]] = "failed"]
  /\ Continue(r, "answer")
  /\ UNCHANGED <<checksum, sessionId, duplicateOf, owner, rows, archive>>

(* _completed_result answers "completed" whatever the row it just read     *)
(* says; _result_from_record answers the row's status.  A confirm without  *)
(* a session id is told 409: the route goes by the wording of its error.   *)
Answer(r) ==
  /\ \/ /\ pc[r] = "answer"
        /\ Respond(r, op[r], target[r],
                   IF op[r] = "confirm" /\ sess[r] = None THEN 409 ELSE 200,
                   status[target[r]])
     \/ /\ pc[r] = "answerDone"
        /\ Respond(r, op[r], target[r], 200, "completed")
  /\ UNCHANGED <<tables, archive>>

-----------------------------------------------------------------------------
(* What the environment does to a request.                                 *)

(* A lost connection or a killed process, between any two transactions.    *)
Abort(r) ==
  /\ pc[r] # "idle"
  /\ Raise(r)
  /\ UNCHANGED <<tables, archive>>

(* The disk refuses the copy: caught by create_import.                     *)
ArchiveError(r) ==
  /\ pc[r] = "archive"
  /\ Continue(r, "reject")
  /\ UNCHANGED <<tables, archive>>

(* publish_import raises before its commit (nothing is written), or after  *)
(* it, when only the acknowledgement is lost: caught by confirm_import.    *)
PublishError(r) ==
  /\ pc[r] = "publish"
  /\ Continue(r, "reject")
  /\ PublishRows(r) \/ UNCHANGED <<tables, archive>>

(* The archive directory is not needed after a publish and may go away.    *)
LoseArchive(i) ==
  /\ i \in archive
  /\ archive' = archive \ {i}
  /\ UNCHANGED <<tables, pc, locals, reply>>

-----------------------------------------------------------------------------
(* A request that has begun, step by step.                                 *)
Work(r) ==
  \/ InsertImport(r) \/ MarkValidating(r) \/ ArchiveFiles(r) \/ ReadFiles(r)
  \/ SaveSummary(r) \/ MarkAwaiting(r)
  \/ RecheckDuplicate(r) \/ MarkPublishing(r) \/ MarkCompleted(r)
  \/ ResaveSummary(r) \/ Publish(r) \/ PublishRefused(r)
  \/ MarkCancelled(r) \/ SaveErrors(r) \/ MarkFailed(r)
  \/ Answer(r) \/ Refuse(r)

Arrive(r) ==
  \/ \E c \in Content : Create(r, c)
  \/ \E i \in Import : Confirm(r, i) \/ Cancel(r, i)

Fault ==
  \/ \E r \in Request : Abort(r) \/ ArchiveError(r) \/ PublishError(r)
  \/ \E i \in Import : LoseArchive(i)

CalmNext == \E r \in Request : Arrive(r) \/ Work(r)
Next == CalmNext \/ Fault

Spec == Init /\ [][Next]_vars

(* No fault, and every thread that has a request runs: the thread pool and *)
(* the event loop schedule every runnable handler.  Clients owe nothing.   *)
CalmSpec == Init /\ [][CalmNext]_vars /\ \A r \in Request : WF_vars(Work(r))

-----------------------------------------------------------------------------
(* Properties                                                              *)

Held == {"validate", "archive", "read", "save", "offer",
         "adopt", "reread", "resave", "publish", "reject", "fail"}
Publishers == {"adopt", "reread", "resave", "publish"}

(* At most one request at a time may write an import's row on its own      *)
(* authority: the create that made it, or the one confirm whose            *)
(* mark_publishing won.  However many confirms and cancels read            *)
(* awaiting_confirmation at the same moment, the others are refused.       *)
OneHolder ==
  \A q, r \in Request :
    /\ pc[q] \in Held /\ pc[r] \in Held /\ target[q] = target[r]
    => q = r

(* While a confirm works between mark_publishing and its commit, nobody    *)
(* takes its import out of `publishing': no cancel, no other confirm and   *)
(* no late mark_failed of a create.                                        *)
PublisherKeepsImport ==
  \A r \in Request : pc[r] \in Publishers => status[target[r]] = "publishing"

(* Public replay: a session row exists only together with the completed    *)
(* import that owns it, and it holds that import's own rows.  No crash,    *)
(* lost acknowledgement or race of two imports of the same files leaves a  *)
(* session of a failed, cancelled or half-published import.                *)
PublicIsComplete ==
  \A s \in Session :
    owner[s] # None =>
      /\ status[owner[s]] = "completed"
      /\ sessionId[owner[s]] = s
      /\ rows[s] = checksum[owner[s]]

(* Every completed import, adopted duplicates included, leads to a public  *)
(* session that shows the files that were uploaded with it, even when two  *)
(* contents share a session id.                                            *)
CompletedResolves ==
  \A i \in Import :
    status[i] = "completed" =>
      /\ sessionId[i] # None
      /\ owner[sessionId[i]] # None
      /\ rows[sessionId[i]] = checksum[i]

(* An answer never lies, then or later: "completed" is answered only for   *)
(* an import that is and stays completed, although _completed_result does  *)
(* not look at the row; "cancelled" and "failed" are as final.             *)
RepliesHonest ==
  \A r \in Request :
    /\ reply[r] # None
    /\ reply[r].code = 200
    /\ reply[r].status \in {"completed", "cancelled", "failed"}
    => status[reply[r].of] = reply[r].status

(* The abstract life of imports and public sessions, implemented.          *)
Phase(st) ==
  CASE st = "none" -> "absent"
    [] st \in Cancellable -> "pending"
    [] OTHER -> st

PhaseOf == [i \in Import |-> Phase(status[i])]

LinkOf ==
  [i \in Import |-> IF status[i] = "completed" THEN sessionId[i] ELSE None]

Lifecycle == INSTANCE ImportLifecycle
  WITH phase <- PhaseOf, files <- checksum, link <- LinkOf, shown <- rows

(* Concurrent, failing and restarting requests show imports and sessions   *)
(* that only ever move as ImportLifecycle allows.                          *)
ImplementsLifecycle == Lifecycle!Spec

(* Without faults a publishing import is decided: the confirm that claimed *)
(* it ends it, whatever the other requests do.                             *)
PublishingIsDecided ==
  \A i \in Import :
    status[i] = "publishing" ~> status[i] \in {"completed", "failed"}

-----------------------------------------------------------------------------
(* The inductive invariant: what relates a request's locals to the tables. *)

(* What each request holds is there when its next step needs it.           *)
LocalsOK ==
  \A r \in Request :
    /\ pc[r] # "idle" => op[r] \in Op
    /\ IF pc[r] \in {"idle", "insert"} THEN target[r] = None
                                      ELSE target[r] \in Import
    /\ pc[r] \in {"insert", "validate", "archive", "read", "save", "offer"}
         => file[r] \in Content
    /\ pc[r] \in {"claim", "recheck", "reread", "resave", "publish"}
         => sess[r] \in Session
    /\ pc[r] = "adopt" => dup[r] \in Session

(* Rows have their checksums from the start, an awaiting one its session.  *)
RecordsOK ==
  \A i \in Import :
    /\ IF status[i] = "none" THEN checksum[i] = None
                             ELSE checksum[i] \in Content
    /\ status[i] = "awaiting_confirmation" => sessionId[i] \in Session

(* The statuses a request can find under each of its steps: only a cancel  *)
(* can come between the steps of a create, nothing between a confirm's.    *)
StepStatus ==
  \A r \in Request :
    /\ pc[r] \notin {"idle", "insert"} => status[target[r]] # "none"
    /\ pc[r] = "validate" => status[target[r]] \in {"uploaded", "cancelled"}
    /\ pc[r] \in {"archive", "read", "save", "offer"}
         => status[target[r]] \in {"validating", "cancelled"}
    /\ pc[r] \in {"reject", "fail"}
         => status[target[r]] \in {"validating", "cancelled",
                                   "publishing", "completed"}
    /\ pc[r] = "answerDone" => status[target[r]] = "completed"

(* A duplicate's session, in a local or in a summary, shows the files of   *)
(* the import that is to adopt it.                                         *)
DuplicatesMatch ==
  /\ \A r \in Request :
       /\ dup[r] # None => file[r] # None /\ rows[dup[r]] = file[r]
       /\ target[r] # None /\ file[r] # None => file[r] = checksum[target[r]]
  /\ \A i \in Import :
       duplicateOf[i] # None =>
         checksum[i] # None /\ rows[duplicateOf[i]] = checksum[i]

(* Rows are there exactly for the sessions that have an owner.             *)
RowsOwned == \A s \in Session : owner[s] = None <=> rows[s] = None

(* A successful answer names its import.                                   *)
RepliesNamed ==
  \A r \in Request :
    reply[r] # None /\ reply[r].code = 200 => reply[r].of \in Import

IInv ==
  /\ TypeOK /\ LocalsOK /\ RecordsOK
  /\ OneHolder /\ StepStatus /\ PublisherKeepsImport
  /\ DuplicatesMatch /\ RowsOwned /\ PublicIsComplete /\ CompletedResolves
  /\ RepliesNamed /\ RepliesHonest

-----------------------------------------------------------------------------
(* What the design documents say and the code does not do.                 *)

(* "Confirming a duplicate should return the existing completed session."  *)
(* Two confirms of the same files may both find no duplicate; the loser of *)
(* the primary key is failed although its session is public.               *)
DuplicateConfirmAdopts ==
  \A r \in Request :
    reply[r] # None /\ reply[r].op = "confirm" /\ reply[r].status = "failed"
      /\ reply[r].code = 200
      => \A s \in Session : rows[s] # checksum[reply[r].of]
=============================================================================
