----------------------------- MODULE SavedViews -----------------------------
(***************************************************************************)
(* Saved views: routes/views.py over saved_views/, and the part of         *)
(* maintenance/retention.py that deletes them.                             *)
(*                                                                         *)
(* Requests run in threads of one process.  Each asks for the repository,  *)
(* makes sure of its schema and then saves or lists; Postgres may fail at  *)
(* each of these steps, also after it has committed.  The first failure    *)
(* turns the process to a repository in memory until it is restarted,      *)
(* whatever the other threads have in hand.                                *)
(*                                                                         *)
(* The client chooses the id of a view: a save replaces what is under it,  *)
(* its scope and its time of creation included, whoever saved that.        *)
(***************************************************************************)
EXTENDS Naturals, FiniteSets

CONSTANTS
  Thread, ViewId,
  View,           \* what clients save: records of an id, whether the scope is
                  \* the admin's, the time of creation given, and data
  Cutoffs,        \* the cutoffs of cleanups
  Private,        \* private mode
  NoView,
  MaxRestarts     \* bound: restarts of the process

ASSUME ViewAssumption ==
  /\ \A v \in View : v.id \in ViewId /\ v.admin \in BOOLEAN /\ v.created \in Nat
  /\ NoView \notin View /\ Cutoffs \subseteq Nat
ASSUME ModeAssumption == Private \in BOOLEAN /\ MaxRestarts \in Nat

VARIABLES
  stored, memory, \* in Postgres and in the fallback repository: the view of each id
  degraded,       \* _repository_degraded
  call, place,    \* of each thread: what it does and how far it is
  repository,     \* of each thread: the one it was given
  shown,          \* of each thread: what it answers
  retention,      \* the cutoff of the cleanup under way, and whether there is one
  restarts,
  kept, held,     \* history: what may be under each id, in Postgres and in
                  \* memory, by what their callers were told
  owed            \* history, of each list: what there was when it began, and since

viewsVars == <<stored, memory, degraded, call, place, repository, shown, retention, restarts,
               kept, held, owed>>

Each == View \cup {NoView}
Fill(x) == [i \in ViewId |-> x]
NoCall == [op |-> "none", view |-> NoView, token |-> FALSE]
Calls ==
  {NoCall} \cup [op : {"save"}, view : View, token : BOOLEAN]
           \cup [op : {"list"}, view : {NoView}, token : BOOLEAN]
NoCleanup == [on |-> FALSE, cutoff |-> 0]
Nothing == [fallen |-> FALSE, kept |-> Fill({}), held |-> Fill({})]

Of(x) == [t \in Thread |-> x]
ViewsInit ==
  /\ stored = Fill(NoView) /\ memory = Fill(NoView) /\ degraded = FALSE
  /\ call = Of(NoCall) /\ place = Of("idle") /\ repository = Of("none")
  /\ shown = Of(Fill(NoView)) /\ retention = NoCleanup /\ restarts = 0
  /\ kept = Fill({NoView}) /\ held = Fill({NoView}) /\ owed = Of(Nothing)

(***************************************************************************)
(* What is told to callers, and what a list is owed by it: for each id one *)
(* of the views that may have been there at some instant since it began.   *)
(***************************************************************************)
Listing(t) == call[t].op = "list" /\ place[t] \in {"schema", "work"}
Both(told, more) == [i \in ViewId |-> told[i] \cup more[i]]
Tell(postgres, inMemory) ==
  /\ kept' = postgres /\ held' = inMemory
  /\ owed' = [t \in Thread |->
       IF Listing(t)
       THEN [fallen |-> owed[t].fallen, kept |-> Both(owed[t].kept, postgres),
             held |-> Both(owed[t].held, inMemory)]
       ELSE owed[t]]
Acknowledged(told, v) == [told EXCEPT ![v.id] = {v}]
Uncertain(told, v) == [told EXCEPT ![v.id] = @ \cup {v}]
Quiet == UNCHANGED <<kept, held, owed>>

\* get_saved_view_repository
GivenPostgres == "postgres"
GivenRepository == IF degraded THEN "memory" ELSE "postgres"

\* The start of create_view and list_views: to save a view of the admin's
\* scope needs the token in private mode, whatever it replaces.
Begin(t, q) ==
  /\ place[t] = "idle" /\ q.op # "none"
  /\ Private /\ q.op = "save" /\ ~q.token => ~q.view.admin
  /\ call' = [call EXCEPT ![t] = q] /\ place' = [place EXCEPT ![t] = "schema"]
  /\ repository' = [repository EXCEPT ![t] = GivenRepository]
  /\ owed' = [owed EXCEPT ![t] =
       IF q.op = "list"
       THEN [fallen |-> \E i \in ViewId : held[i] # {NoView}, kept |-> kept, held |-> held]
       ELSE Nothing]
  /\ UNCHANGED <<stored, memory, degraded, shown, retention, restarts, kept, held>>

Goes(t, to) == place' = [place EXCEPT ![t] = to]
Degrades(t) == degraded' = TRUE /\ repository' = [repository EXCEPT ![t] = "memory"]

\* _available_repository
Schema(t) ==
  /\ place[t] = "schema" /\ Goes(t, "work")
  /\ \/ UNCHANGED <<degraded, repository>>
     \/ repository[t] = "postgres" /\ Degrades(t)
  /\ Quiet /\ UNCHANGED <<stored, memory, call, shown, retention, restarts>>

\* The upsert, and the assignment of the fallback repository.
AddedOnly(store, v) == IF store[v.id] = NoView THEN [store EXCEPT ![v.id] = v] ELSE store
Put(store, v) == [store EXCEPT ![v.id] = v]

\* Without the token nothing of the admin is listed in private mode.
Seen(t, v) == IF v # NoView /\ Private /\ ~call[t].token /\ v.admin THEN NoView ELSE v
Visible(t, store) == [i \in ViewId |-> Seen(t, store[i])]

\* save_view of Postgres: it commits and answers, or it raises, before the
\* commit or after it.
SaveToPostgres(t) ==
  /\ place[t] = "work" /\ call[t].op = "save" /\ repository[t] = "postgres"
  /\ \/ /\ stored' = Put(stored, call[t].view)
        /\ Tell(Acknowledged(kept, call[t].view), held)
        /\ Goes(t, "answer") /\ UNCHANGED <<degraded, repository>>
     \/ /\ stored' \in {stored, Put(stored, call[t].view)}
        /\ Tell(Uncertain(kept, call[t].view), held)
        /\ Degrades(t) /\ UNCHANGED place
  /\ UNCHANGED <<memory, call, shown, retention, restarts>>

ListFromPostgres(t) ==
  /\ place[t] = "work" /\ call[t].op = "list" /\ repository[t] = "postgres"
  /\ \/ /\ shown' = [shown EXCEPT ![t] = Visible(t, stored)]
        /\ Goes(t, "answer") /\ UNCHANGED <<degraded, repository>>
     \/ Degrades(t) /\ UNCHANGED <<place, shown>>
  /\ Quiet /\ UNCHANGED <<stored, memory, call, retention, restarts>>

\* The fallback repository does not fail.
UseMemory(t) ==
  /\ place[t] = "work" /\ repository[t] = "memory" /\ Goes(t, "answer")
  /\ \/ /\ call[t].op = "save" /\ memory' = Put(memory, call[t].view)
        /\ Tell(kept, Acknowledged(held, call[t].view)) /\ UNCHANGED shown
     \/ /\ call[t].op = "list" /\ shown' = [shown EXCEPT ![t] = Visible(t, memory)]
        /\ Quiet /\ UNCHANGED memory
  /\ UNCHANGED <<stored, degraded, call, repository, retention, restarts>>

Answer(t) ==
  /\ place[t] = "answer" /\ Goes(t, "idle")
  /\ call' = [call EXCEPT ![t] = NoCall]
  /\ repository' = [repository EXCEPT ![t] = "none"]
  /\ shown' = [shown EXCEPT ![t] = Fill(NoView)] /\ owed' = [owed EXCEPT ![t] = Nothing]
  /\ UNCHANGED <<stored, memory, degraded, retention, restarts, kept, held>>

\* cleanup_retention: it counts through the repositories, of which the one in
\* memory refuses, and deletes in a transaction of its own.
Count(cutoff) ==
  /\ ~retention.on /\ GivenRepository = "postgres"
  /\ retention' = [on |-> TRUE, cutoff |-> cutoff]
  /\ Quiet /\ UNCHANGED <<stored, memory, degraded, call, place, repository, shown, restarts>>

Expired(v) == v # NoView /\ v.created < retention.cutoff
Cut == [i \in ViewId |-> IF Expired(stored[i]) THEN NoView ELSE stored[i]]

\* It commits and answers, or it fails, before the commit or after it.
Remaining(told) ==
  [i \in ViewId |-> IF \E v \in told[i] : Expired(v)
                    THEN {v \in told[i] : ~Expired(v)} \cup {NoView} ELSE told[i]]
MayRemain(told) == Both(told, Remaining(told))
Delete ==
  /\ retention.on /\ retention' = NoCleanup
  /\ \/ stored' = Cut /\ Tell(Remaining(kept), held)
     \/ stored' \in {stored, Cut} /\ Tell(MayRemain(kept), held)
  /\ UNCHANGED <<memory, degraded, call, place, repository, shown, restarts>>

\* The process ends, with what it has in memory, and starts again.
Restart ==
  /\ restarts < MaxRestarts /\ restarts' = restarts + 1
  /\ memory' = Fill(NoView) /\ degraded' = FALSE
  /\ call' = Of(NoCall) /\ place' = Of("idle") /\ repository' = Of("none")
  /\ shown' = Of(Fill(NoView)) /\ retention' = NoCleanup
  /\ held' = Fill({NoView}) /\ owed' = Of(Nothing)
  /\ UNCHANGED <<stored, kept>>

ViewsNext ==
  \/ \E t \in Thread :
       \/ \E q \in Calls : Begin(t, q)
       \/ Schema(t) \/ SaveToPostgres(t) \/ ListFromPostgres(t) \/ UseMemory(t) \/ Answer(t)
  \/ (\E cutoff \in Cutoffs : Count(cutoff)) \/ Delete \/ Restart

ViewsSpec == ViewsInit /\ [][ViewsNext]_viewsVars

-----------------------------------------------------------------------------
(* Properties                                                              *)

\* What a list that is answered shows, against what it is owed.
Honest(t) ==
  /\ owed[t].fallen => repository[t] = "memory"
  /\ \A i \in ViewId :
       \E v \in (IF repository[t] = "memory" THEN owed[t].held ELSE owed[t].kept)[i] :
         shown[t][i] = Seen(t, v)

\* A list shows under every id the last view acknowledged when it began, or one
\* that has replaced it since, or that was sent and its answer lost; nothing is
\* missing but what the reader may not see, or the retention may have cut.
\* This is so in the repository that answers; once memory has acknowledged
\* anything, only memory answers, however the threads got there.  Only a list
\* of the fallback repository may lack what is in Postgres.
ListsWhatWasSaved ==
  \A t \in Thread : place[t] = "answer" /\ call[t].op = "list" => Honest(t)

\* What Postgres acknowledged last is what it has, through failures, fallbacks
\* and restarts, but for saves whose answer was lost and what the retention
\* may have deleted.
AcknowledgedStays == \A i \in ViewId : stored[i] \in kept[i]

\* A stored view goes in two ways only: another is saved under its id, by a
\* thread that was allowed to, or a cleanup with a later cutoff deletes it.
GoesRightly ==
  \A i \in ViewId : stored'[i] # stored[i] =>
    \/ stored'[i] = NoView /\ retention.on /\ stored[i].created < retention.cutoff
    \/ \E t \in Thread : /\ call[t].op = "save" /\ call[t].view = stored'[i]
                         /\ call[t].view.id = i
                         /\ Private /\ call[t].view.admin => call[t].token
ReplacedOrExpired == [][GoesRightly]_viewsVars
=============================================================================
