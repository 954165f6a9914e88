----------------------------- MODULE LiveState -----------------------------
(***************************************************************************)
(* The live collector state and its readers: ingestion/collector_state.py, *)
(* latest_state_cache.py and live_snapshot_service.py, behind              *)
(* routes/collector.py, stream.py and snapshot.py.                         *)
(*                                                                         *)
(* Events are ingested on the event loop, one at a time or in bulk, into   *)
(* dictionaries in memory; the whole state is then written to Redis.       *)
(* Readers run in the thread pool meanwhile.  Each compares a copy of the  *)
(* memory with the document in Redis, picks one, and answers a snapshot    *)
(* built from it, or the one the service built last if the identity of the *)
(* state has not changed.  The process restarts with an empty memory.      *)
(*                                                                         *)
(* An event sets one key of one dictionary; what it says is its number in  *)
(* order of arrival, so that a larger number under a key is newer data.    *)
(* A snapshot is the data it was built from.  One key of the service's     *)
(* cache is modelled: the keys never meet.                                 *)
(***************************************************************************)
EXTENDS Naturals, FiniteSets

CONSTANTS
  Key,          \* collector ids, contract ids and sessions
  Time,         \* event times
  Reader,       \* requests in the thread pool
  Live,         \* the memory itself, as opposed to a document
  None,         \* no time, no document, no cache entry
  InOrder,      \* TRUE if event times grow from one request to the next
  RedisFails,   \* TRUE if Redis may fail, time out or lose its data
  MaxEvents,    \* bound: events
  MaxRestarts   \* bound: restarts of the process

ASSUME KeyType == IsFiniteSet(Key)
ASSUME TimeType == Time \subseteq Nat /\ None \notin Time
ASSUME FlagType == InOrder \in BOOLEAN /\ RedisFails \in BOOLEAN
ASSUME BoundType == MaxEvents \in Nat /\ MaxRestarts \in Nat

VARIABLES
  mem,          \* collector_state
  loop, event,  \* the event loop: its next step, the event it ingests
  redis, late,  \* the document, and those that timed out on their way
  cache,        \* LiveSnapshotService._cache of one key
  pc, copy,     \* each reader: its next step, its copy of the memory
  source, id,   \* ... the state it picked, that state's identity
  answer,       \* ... and what it answers
  events,       \* events so far
  whole, acked, \* history: memory at its last revision; last acknowledged
  floor         \* history: what each reader has to see, from its beginning

process == <<mem, loop, event>>
store == <<redis, late>>
locals == <<copy, source, id, answer>>
vars == <<process, store, cache, pc, locals, events, whole, acked, floor>>

Data == [Key -> 0 .. MaxEvents]
State == [epoch : 0 .. MaxRestarts, rev : 0 .. MaxEvents, data : Data,
          time : Time \cup {None}]
Identity == [epoch : 0 .. MaxRestarts, rev : 0 .. MaxEvents,
             count : Nat, time : Time \cup {None}]
Entry == [id : Identity, of : State]
Picked == State \cup {Live}
ASSUME MarkType == Live # None /\ Live \notin State /\ None \notin State \cup Entry

TypeOK ==
  /\ mem \in State
  /\ loop \in {"idle", "data", "revision", "next"}
  /\ event \in [key : Key, time : Time] \cup {None}
  /\ redis \in State \cup {None} /\ late \subseteq State
  /\ cache \in Entry \cup {None}
  /\ pc \in [Reader -> {"idle", "time", "redis", "identity", "counts", "last",
                        "cache", "build", "keep", "answer"}]
  /\ copy \in [Reader -> [count : Nat, time : Time \cup {None}]]
  /\ source \in [Reader -> Picked \cup {None}]
  /\ id \in [Reader -> Identity]
  /\ answer \in [Reader -> State \cup {None}]
  /\ events \in 0 .. MaxEvents
  /\ whole \in State /\ acked \in State
  /\ floor \in [Reader -> State]

Empty(epoch) ==
  [epoch |-> epoch, rev |-> 0, data |-> [k \in Key |-> 0], time |-> None]
NoIdentity == [epoch |-> 0, rev |-> 0, count |-> 0, time |-> None]
NoCopy == [count |-> 0, time |-> None]
NoFloor == Empty(0)

Init ==
  /\ mem = Empty(0) /\ loop = "idle" /\ event = None
  /\ redis = None /\ late = {} /\ cache = None
  /\ pc = [r \in Reader |-> "idle"]
  /\ copy = [r \in Reader |-> NoCopy]
  /\ source = [r \in Reader |-> None]
  /\ id = [r \in Reader |-> NoIdentity]
  /\ answer = [r \in Reader |-> None]
  /\ events = 0
  /\ whole = Empty(0) /\ acked = Empty(0)
  /\ floor = [r \in Reader |-> NoFloor]

-----------------------------------------------------------------------------
(* _state_richness_score: the entries of all the dictionaries.             *)
Richness(s) == Cardinality({k \in Key : s.data[k] # 0})

(* Mutant: a document always beats the memory.                             *)
NeverFresher(c, doc) == c.time # None /\ doc.time = None

(* _memory_state_is_fresher, of a copy of the memory and a document.       *)
MemoryIsFresher(c, doc) ==
  /\ c.time # None
  /\ \/ doc.time = None
     \/ doc.time # None /\ c.time > doc.time
     \/ doc.time = c.time /\ c.count > Richness(doc)

(* _state_identity of a state that does not change.                        *)
IdentityOf(s) ==
  [epoch |-> s.epoch, rev |-> s.rev, count |-> Richness(s), time |-> s.time]

(* s has every event that t has.                                           *)
AtLeast(s, t) == \A k \in Key : s.data[k] >= t.data[k]

-----------------------------------------------------------------------------
(* Ingestion                                                               *)

(* Mutant: both stages count a revision.                                   *)
CountsTwice(stage, m, e) ==
  CASE stage = "data" -> [m EXCEPT !.data[e.key] = events, !.rev = @ + 1]
    [] stage = "revision" -> [m EXCEPT !.rev = @ + 1]

(* Mutant: the revision is counted before the event is stored.             *)
CountsFirst(stage, m, e) ==
  CASE stage = "revision" -> [m EXCEPT !.data[e.key] = events]
    [] stage = "data" -> [m EXCEPT !.rev = @ + 1]

(* CollectorState.ingest, after it has set _last_event_time.               *)
Ingested(stage, m, e) ==
  CASE stage = "data" -> [m EXCEPT !.data[e.key] = events]
    [] stage = "revision" -> [m EXCEPT !.rev = @ + 1]

(* ingest_collector_event and _bulk: the first event, or the next of a     *)
(* bulk.                                                                   *)
Receive(k, t) ==
  /\ loop \in {"idle", "next"}
  /\ events < MaxEvents
  /\ InOrder => \/ loop = "next" /\ t >= mem.time
                \/ /\ loop = "idle"
                   /\ whole.time # None => t > whole.time
                   /\ acked.time # None => t > acked.time
  /\ events' = events + 1
  /\ event' = [key |-> k, time |-> t]
  /\ mem' = [mem EXCEPT !.time = t]
  /\ loop' = "data"
  /\ UNCHANGED <<store, cache, pc, locals, whole, acked, floor>>

StoreEvent ==
  /\ loop = "data"
  /\ mem' = Ingested("data", mem, event)
  /\ loop' = "revision"
  /\ UNCHANGED <<event, store, cache, pc, locals, events, whole, acked, floor>>

CountRevision ==
  /\ loop = "revision"
  /\ mem' = Ingested("revision", mem, event)
  /\ whole' = mem'
  /\ loop' = "next"
  /\ UNCHANGED <<event, store, cache, pc, locals, events, acked, floor>>

(* persist_latest_state, then the answer to the collector.  The write may  *)
(* fail, or time out and still reach Redis later: both are swallowed.      *)
Persist ==
  /\ loop = "next"
  /\ \/ redis' = mem /\ UNCHANGED late
     \/ RedisFails /\ UNCHANGED store
     \/ RedisFails /\ late' = late \cup {mem} /\ UNCHANGED redis
  /\ acked' = mem
  /\ loop' = "idle"
  /\ event' = None
  /\ UNCHANGED <<mem, cache, pc, locals, events, whole, floor>>

-----------------------------------------------------------------------------
(* Readers                                                                 *)

(* cached_or_memory_collector_state copies the memory: the dictionaries    *)
(* first, then the time of the last event.                                 *)
Begin(r) ==
  /\ pc[r] = "idle"
  /\ copy' = [copy EXCEPT ![r] = [count |-> Richness(mem), time |-> None]]
  /\ floor' = [floor EXCEPT ![r] = IF InOrder THEN whole ELSE acked]
  /\ pc' = [pc EXCEPT ![r] = "time"]
  /\ UNCHANGED <<process, store, cache, source, id, answer, events, whole, acked>>

CopyTime(r) ==
  /\ pc[r] = "time"
  /\ copy' = [copy EXCEPT ![r].time = mem.time]
  /\ pc' = [pc EXCEPT ![r] = "redis"]
  /\ UNCHANGED <<process, store, cache, source, id, answer, events, whole, acked, floor>>

(* ... and picks the document unless the copy is fresher.  The memory it   *)
(* returns otherwise is not the copy: it goes on changing.                 *)
PickState(r) ==
  /\ pc[r] = "redis"
  /\ \E doc \in {redis} \cup (IF RedisFails THEN {None} ELSE {}) :
       source' = [source EXCEPT ![r] =
                    IF doc # None /\ ~MemoryIsFresher(copy[r], doc) THEN doc
                                                                   ELSE Live]
  /\ copy' = [copy EXCEPT ![r] = NoCopy]
  /\ pc' = [pc EXCEPT ![r] = "identity"]
  /\ UNCHANGED <<process, store, cache, id, answer, events, whole, acked, floor>>

(* _state_identity, which reads the memory's revision, then the counts of  *)
(* its dictionaries, then the time of the last event.                      *)
ReadRevision(r) ==
  /\ pc[r] = "identity"
  /\ id' = [id EXCEPT ![r] =
              IF source[r] = Live
              THEN [NoIdentity EXCEPT !.epoch = mem.epoch, !.rev = mem.rev]
              ELSE IdentityOf(source[r])]
  /\ pc' = [pc EXCEPT ![r] = IF source[r] = Live THEN "counts" ELSE "cache"]
  /\ UNCHANGED <<process, store, cache, copy, source, answer, events, whole, acked, floor>>

ReadCounts(r) ==
  /\ pc[r] = "counts"
  /\ id' = [id EXCEPT ![r].count = Richness(mem)]
  /\ pc' = [pc EXCEPT ![r] = "last"]
  /\ UNCHANGED <<process, store, cache, copy, source, answer, events, whole, acked, floor>>

ReadTime(r) ==
  /\ pc[r] = "last"
  /\ id' = [id EXCEPT ![r].time = mem.time]
  /\ pc' = [pc EXCEPT ![r] = "cache"]
  /\ UNCHANGED <<process, store, cache, copy, source, answer, events, whole, acked, floor>>

(* Mutant: the number of entries and the last event stand for the state.   *)
SameContents(i, j) == i.count = j.count /\ i.time = j.time

SameState(i, j) == i = j

Hit(r) == cache # None /\ SameState(cache.id, id[r])

(* LiveSnapshotService._cached_snapshot, in three steps.                   *)
LookUp(r) ==
  /\ pc[r] = "cache"
  /\ \/ /\ Hit(r)
        /\ answer' = [answer EXCEPT ![r] = cache.of]
        /\ source' = [source EXCEPT ![r] = None]
        /\ id' = [id EXCEPT ![r] = NoIdentity]
        /\ pc' = [pc EXCEPT ![r] = "answer"]
     \/ /\ ~Hit(r)
        /\ pc' = [pc EXCEPT ![r] = "build"]
        /\ UNCHANGED <<answer, source, id>>
  /\ UNCHANGED <<process, store, cache, copy, events, whole, acked, floor>>

(* The builder copies one dictionary of the memory after another; they are *)
(* taken as they are when it begins, and a later copy only has more.       *)
Build(r) ==
  /\ pc[r] = "build"
  /\ answer' = [answer EXCEPT ![r] = IF source[r] = Live THEN mem ELSE source[r]]
  /\ source' = [source EXCEPT ![r] = None]
  /\ pc' = [pc EXCEPT ![r] = "keep"]
  /\ UNCHANGED <<process, store, cache, copy, id, events, whole, acked, floor>>

Keep(r) ==
  /\ pc[r] = "keep"
  /\ cache' = [id |-> id[r], of |-> answer[r]]
  /\ id' = [id EXCEPT ![r] = NoIdentity]
  /\ pc' = [pc EXCEPT ![r] = "answer"]
  /\ UNCHANGED <<process, store, copy, source, answer, events, whole, acked, floor>>

(* The answer leaves; or the request fails, as when a dictionary grows     *)
(* while a reader copies it.                                               *)
Respond(r) ==
  /\ pc[r] \in {"time", "identity", "counts", "build", "answer"}
  /\ pc' = [pc EXCEPT ![r] = "idle"]
  /\ copy' = [copy EXCEPT ![r] = NoCopy]
  /\ source' = [source EXCEPT ![r] = None]
  /\ id' = [id EXCEPT ![r] = NoIdentity]
  /\ answer' = [answer EXCEPT ![r] = None]
  /\ floor' = [floor EXCEPT ![r] = NoFloor]
  /\ UNCHANGED <<process, store, cache, events, whole, acked>>

-----------------------------------------------------------------------------
(* Faults                                                                  *)

(* A write that timed out reaches Redis after all.                         *)
LandLate(s) ==
  /\ redis' = s
  /\ late' = late \ {s}
  /\ UNCHANGED <<process, cache, pc, locals, events, whole, acked, floor>>

LoseRedis ==
  /\ RedisFails /\ redis # None
  /\ redis' = None
  /\ UNCHANGED <<process, late, cache, pc, locals, events, whole, acked, floor>>

(* The process restarts: the memory, the service's cache and the requests  *)
(* are gone, the document stays.                                           *)
Restart ==
  /\ mem.epoch < MaxRestarts
  /\ mem' = Empty(mem.epoch + 1)
  /\ whole' = mem'
  /\ loop' = "idle" /\ event' = None /\ cache' = None
  /\ pc' = [r \in Reader |-> "idle"]
  /\ copy' = [r \in Reader |-> NoCopy]
  /\ source' = [r \in Reader |-> None]
  /\ id' = [r \in Reader |-> NoIdentity]
  /\ answer' = [r \in Reader |-> None]
  /\ floor' = [r \in Reader |-> NoFloor]
  /\ UNCHANGED <<store, events, acked>>

Next ==
  \/ \E k \in Key, t \in Time : Receive(k, t)
  \/ StoreEvent \/ CountRevision \/ Persist
  \/ \E r \in Reader :
       \/ Begin(r) \/ CopyTime(r) \/ PickState(r)
       \/ ReadRevision(r) \/ ReadCounts(r) \/ ReadTime(r)
       \/ LookUp(r) \/ Build(r) \/ Keep(r) \/ Respond(r)
  \/ \E s \in late : LandLate(s)
  \/ LoseRedis \/ Restart

Spec == Init /\ [][Next]_vars

-----------------------------------------------------------------------------
(* Properties                                                              *)

(* If event times grow from one request to the next, a reader sees every   *)
(* event that was ingested when it began, whatever becomes of Redis and    *)
(* whatever the service's cache holds.                                     *)
ReadsWhatIsIngested ==
  InOrder =>
    \A r \in Reader :
      pc[r] = "answer" => AtLeast(answer[r], floor[r])

(* If Redis never fails, a reader sees every event acknowledged when it    *)
(* began, whatever the event times; or it sees the state of a process that *)
(* started later.                                                          *)
ReadsWhatIsAcknowledged ==
  ~InOrder /\ ~RedisFails =>
    \A r \in Reader :
      pc[r] = "answer" =>
        \/ AtLeast(answer[r], floor[r])
        \/ answer[r].epoch > floor[r].epoch

-----------------------------------------------------------------------------
(* The inductive invariant                                                 *)

(* States in the order of their processes and revisions, and what a later  *)
(* one owes to an earlier one: its events, unless the process restarted.   *)
Before(s, t) == s.epoch < t.epoch \/ (s.epoch = t.epoch /\ s.rev <= t.rev)
Covers(s, t) == s.epoch > t.epoch \/ (s.epoch = t.epoch /\ AtLeast(s, t))

(* The whole states that something still refers to.                        *)
Documents == late \cup ({redis} \ {None})
Known ==
  {whole, acked} \cup Documents
    \cup {floor[r] : r \in {q \in Reader : pc[q] # "idle"}}
    \cup ({source[r] : r \in Reader} \ {Live, None})

MemoryOK ==
  /\ mem.epoch = whole.epoch /\ mem.rev = whole.rev /\ AtLeast(mem, whole)
  /\ loop \in {"idle", "next"} => mem = whole
  /\ loop \in {"data", "revision"} =>
       /\ event \in [key : Key, time : Time] /\ event.time = mem.time
       /\ whole.rev < events
  /\ whole.rev <= events /\ \A k \in Key : mem.data[k] <= events

KnownOK ==
  \A s \in Known :
    /\ Before(s, whole)
    /\ s.time = None => \A k \in Key : s.data[k] = 0
    /\ \A t \in Known : Before(s, t) => Covers(t, s)

(* Growing times tell documents from newer states.                         *)
TimesOK ==
  InOrder =>
    /\ loop # "idle" =>
         mem.time # None /\ (acked.time # None => mem.time > acked.time)
    /\ whole.time # None => mem.time # None /\ mem.time >= whole.time
    /\ \A d \in Documents :
         d.time # None =>
           /\ acked.time # None /\ acked.time >= d.time
           /\ \A s \in {whole} \cup {floor[r] : r \in Reader} :
                s.time # None /\ d.time >= s.time => AtLeast(d, s)

(* A Redis that never fails holds the state last acknowledged.             *)
RedisOK ==
  ~RedisFails =>
    /\ late = {}
    /\ redis = acked \/ (redis = None /\ acked = Empty(0))
    /\ ~InOrder => \A r \in Reader : Covers(acked, floor[r])

Serves(s, f) == IF InOrder THEN AtLeast(s, f) ELSE Covers(s, f)

(* A snapshot kept under an identity has every event of the states that    *)
(* come before it.                                                         *)
EntryOK(i, s) ==
  /\ s.epoch = i.epoch /\ Before(i, whole)
  /\ \A t \in Known : Before(t, i) => Covers(s, t)

CacheOK == cache # None => EntryOK(cache.id, cache.of)

ReaderOK(r) ==
  /\ InOrder /\ pc[r] # "idle" =>
       /\ floor[r].epoch = mem.epoch
       /\ floor[r].time # None => mem.time # None /\ mem.time >= floor[r].time
  /\ pc[r] = "idle" => floor[r] = NoFloor /\ source[r] = None
  /\ InOrder /\ pc[r] = "redis" /\ floor[r].time # None =>
       copy[r].time # None /\ copy[r].time >= floor[r].time
  /\ pc[r] \in {"identity", "counts", "last", "cache", "build"} =>
       /\ source[r] # None
       /\ source[r] # Live /\ (InOrder \/ ~RedisFails) =>
            Serves(source[r], floor[r])
  /\ pc[r] \in {"counts", "last"} => source[r] = Live
  /\ pc[r] \in {"counts", "last", "cache", "build"} =>
       IF source[r] = Live
       THEN /\ id[r].epoch = mem.epoch /\ id[r].rev <= mem.rev
            /\ Before(floor[r], id[r])
       ELSE id[r] = IdentityOf(source[r])
  /\ pc[r] = "keep" => EntryOK(id[r], answer[r])
  /\ pc[r] \in {"keep", "answer"} =>
       /\ answer[r] # None
       /\ InOrder \/ ~RedisFails => Serves(answer[r], floor[r])

IInv ==
  /\ TypeOK /\ MemoryOK /\ KnownOK /\ TimesOK /\ RedisOK /\ CacheOK
  /\ \A r \in Reader : ReaderOK(r)
=============================================================================
