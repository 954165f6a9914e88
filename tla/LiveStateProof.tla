--------------------------- MODULE LiveStateProof ---------------------------
EXTENDS LiveState, FiniteSetTheorems, TLAPS

(* Every whole state that something refers to is a state.                  *)
LEMMA KnownTypes ==
  ASSUME TypeOK
  PROVE  /\ Known \subseteq State /\ Documents \subseteq State
         /\ whole \in Known /\ acked \in Known /\ Documents \subseteq Known
         /\ None \notin Documents
<1>1. Documents \subseteq State /\ None \notin Documents
  BY MarkType DEF TypeOK, Documents
<1>2. \A r \in Reader : source[r] \in State \cup {Live, None}
  BY DEF TypeOK, Picked
<1>3. Known \subseteq State
  BY <1>1, <1>2 DEF TypeOK, Known
<1>4. QED
  BY <1>1, <1>3 DEF Known

LEMMA StateTypes ==
  ASSUME NEW s \in State
  PROVE  /\ s.epoch \in Nat /\ s.rev \in Nat
         /\ \A k \in Key : s.data[k] \in Nat
         /\ s.time # None => s.time \in Nat
         /\ s # None /\ s # Live
<1>1. MaxEvents \in Nat /\ MaxRestarts \in Nat /\ Time \subseteq Nat
  BY BoundType, TimeType
<1>2. /\ s.epoch \in 0 .. MaxRestarts /\ s.rev \in 0 .. MaxEvents
      /\ s.data \in [Key -> 0 .. MaxEvents] /\ s.time \in Time \cup {None}
  BY DEF State, Data
<1>3. s # None /\ s # Live
  BY MarkType
<1>4. s.epoch \in Nat /\ s.rev \in Nat /\ \A k \in Key : s.data[k] \in Nat
  <2>1. \A n \in 0 .. MaxEvents : n \in Nat
    BY <1>1
  <2>2. \A n \in 0 .. MaxRestarts : n \in Nat
    BY <1>1
  <2>3. QED
    BY <1>2, <2>1, <2>2
<1>5. s.time # None => s.time \in Nat
  BY <1>1, <1>2
<1>6. QED
  BY <1>3, <1>4, <1>5

LEMMA IdentityTypes ==
  ASSUME NEW i \in Identity
  PROVE  i.epoch \in Nat /\ i.rev \in Nat
BY BoundType DEF Identity

LEMMA RichnessType == \A s : Richness(s) \in Nat
<1> SUFFICES ASSUME NEW s
             PROVE  Richness(s) \in Nat
  OBVIOUS
<1>1. IsFiniteSet({k \in Key : s.data[k] # 0})
  BY KeyType, FS_Subset
<1>2. QED
  BY <1>1, FS_CardinalityType DEF Richness

(* Covering is reflexive and transitive, and so is having every event.     *)
LEMMA CoversOrder ==
  ASSUME NEW s \in State, NEW t \in State, NEW u \in State
  PROVE  /\ AtLeast(s, s) /\ Covers(s, s)
         /\ AtLeast(s, t) /\ AtLeast(t, u) => AtLeast(s, u)
         /\ Covers(s, t) /\ Covers(t, u) => Covers(s, u)
         /\ Covers(s, t) /\ s.epoch = t.epoch => AtLeast(s, t)
<1>1. /\ \A k \in Key : /\ s.data[k] \in Nat /\ t.data[k] \in Nat
                        /\ u.data[k] \in Nat
      /\ s.epoch \in Nat /\ t.epoch \in Nat /\ u.epoch \in Nat
  BY StateTypes
<1>2. /\ AtLeast(s, s)
      /\ AtLeast(s, t) /\ AtLeast(t, u) => AtLeast(s, u)
  BY <1>1 DEF AtLeast
<1>3. QED
  BY <1>1, <1>2 DEF Covers

LEMMA EmptyState ==
  ASSUME NEW e \in 0 .. MaxRestarts
  PROVE  /\ Empty(e) \in State /\ Empty(e).epoch = e /\ Empty(e).rev = 0
         /\ Empty(e).time = None /\ \A k \in Key : Empty(e).data[k] = 0
<1>1. 0 \in 0 .. MaxEvents
  BY BoundType
<1>2. [k \in Key |-> 0] \in Data
  BY <1>1 DEF Data
<1>3. QED
  BY <1>1, <1>2 DEF Empty, State

(* A state that nothing was stored in owes nothing.                        *)
LEMMA NothingOwed ==
  ASSUME NEW s \in State, NEW t \in State, \A k \in Key : t.data[k] = 0
  PROVE  AtLeast(s, t)
BY StateTypes DEF AtLeast

-----------------------------------------------------------------------------
(* A kept snapshot stays as good as its identity while the whole state     *)
(* only moves on and nothing earlier comes up.                             *)
LEMMA EntryKeeps ==
  ASSUME TypeOK, TypeOK', NEW i \in Identity, NEW s \in State, EntryOK(i, s),
         Before(whole, whole'),
         \A t \in Known' : t \in Known \/ ~Before(t, i)
  PROVE  EntryOK(i, s)'
<1>1. /\ whole.epoch \in Nat /\ whole.rev \in Nat
      /\ whole'.epoch \in Nat /\ whole'.rev \in Nat
      /\ i.epoch \in Nat /\ i.rev \in Nat
  BY StateTypes, IdentityTypes DEF TypeOK
<1>2. Before(i, whole)'
  BY <1>1 DEF EntryOK, Before
<1>3. s.epoch = i.epoch /\ \A t \in Known' : Before(t, i) => Covers(s, t)
  BY DEF EntryOK
<1>4. QED
  BY <1>2, <1>3 DEF EntryOK, Before, Covers, AtLeast

(* What a step may do around a reader that does not move.                  *)
Around ==
  /\ mem'.epoch = mem.epoch /\ mem'.rev >= mem.rev
  /\ mem.time # None => mem'.time # None /\ (InOrder => mem'.time >= mem.time)
  /\ Before(whole, whole')
  /\ \A t \in Known' \ Known : \A s \in Identity :
       Before(s, whole) => ~Before(t, s)

LEMMA BystanderKeeps ==
  ASSUME IInv, TypeOK', Around, NEW q \in Reader,
         pc'[q] = pc[q], copy'[q] = copy[q], source'[q] = source[q],
         id'[q] = id[q], answer'[q] = answer[q], floor'[q] = floor[q]
  PROVE  ReaderOK(q)'
<1>1. TypeOK /\ ReaderOK(q)
  BY DEF IInv
<1>2. /\ floor[q] \in State /\ mem \in State /\ mem' \in State
      /\ id[q] \in Identity
  BY <1>1 DEF TypeOK
<1>3. /\ mem.time # None => mem.time \in Nat
      /\ mem'.time # None => mem'.time \in Nat
      /\ floor[q].time # None => floor[q].time \in Nat
      /\ mem.rev \in Nat /\ mem'.rev \in Nat /\ id[q].rev \in Nat
  BY <1>2, StateTypes, IdentityTypes
<1>4. ASSUME pc[q] = "keep"
      PROVE  EntryOK(id[q], answer[q])'
  <2>1. EntryOK(id[q], answer[q]) /\ answer[q] \in State
    BY <1>1, <1>4 DEF ReaderOK, TypeOK
  <2>2. \A t \in Known' : t \in Known \/ ~Before(t, id[q])
    BY <1>2, <2>1 DEF Around, EntryOK
  <2>3. QED
    BY <1>1, <1>2, <2>1, <2>2, EntryKeeps DEF Around, EntryOK, Before, Covers, AtLeast
<1>5. /\ InOrder /\ pc[q] # "idle" =>
           /\ floor[q].epoch = mem'.epoch
           /\ floor[q].time # None => mem'.time # None /\ mem'.time >= floor[q].time
  BY <1>1, <1>3 DEF ReaderOK, Around
<1>6. pc[q] \in {"counts", "last", "cache", "build"} =>
        IF source[q] = Live
        THEN /\ id[q].epoch = mem'.epoch /\ id[q].rev <= mem'.rev
             /\ Before(floor[q], id[q])
        ELSE id[q] = IdentityOf(source[q])
  BY <1>1, <1>3 DEF ReaderOK, Around
<1>7. QED
  BY <1>1, <1>4, <1>5, <1>6
  DEF ReaderOK, Serves, AtLeast, Covers, Before, IdentityOf, Richness

-----------------------------------------------------------------------------
(* The steps of readers                                                    *)

(* What every reader's step leaves alone.                                  *)
ReaderFrame(r) ==
  /\ UNCHANGED <<process, store, events, whole, acked>>
  /\ \A q \in Reader \ {r} :
       /\ pc'[q] = pc[q] /\ copy'[q] = copy[q] /\ source'[q] = source[q]
       /\ id'[q] = id[q] /\ answer'[q] = answer[q] /\ floor'[q] = floor[q]

(* A step of r that brings up no new state, and no new floor but the due   *)
(* one, keeps the invariant as far as it is not about r or the cache.      *)
LEMMA FrameKeeps ==
  ASSUME IInv, TypeOK', NEW r \in Reader, ReaderFrame(r), Known' \subseteq Known,
         \/ floor'[r] = floor[r]
         \/ floor'[r] = IF InOrder THEN whole ELSE acked
         \/ floor'[r] = NoFloor
  PROVE  /\ MemoryOK' /\ KnownOK' /\ TimesOK' /\ RedisOK'
         /\ \A q \in Reader \ {r} : ReaderOK(q)'
         /\ \A i \in Identity, s \in State : EntryOK(i, s) => EntryOK(i, s)'
<1>1. /\ TypeOK /\ MemoryOK /\ KnownOK /\ TimesOK /\ RedisOK
      /\ UNCHANGED <<mem, loop, event, redis, late, events, whole, acked>>
      /\ Documents' = Documents
  BY DEF IInv, ReaderFrame, process, store, Documents
<1>2. /\ whole \in State /\ acked \in State /\ mem \in State
      /\ floor \in [Reader -> State] /\ floor' \in [Reader -> State]
      /\ Documents \subseteq State
  BY <1>1, KnownTypes DEF TypeOK
<1>3. MemoryOK'
  BY <1>1 DEF MemoryOK, AtLeast
<1>4. KnownOK'
  BY <1>1 DEF KnownOK, Before, Covers, AtLeast
<1>5. NoFloor.time = None /\ 0 \in 0 .. MaxRestarts
  BY EmptyState, BoundType DEF NoFloor
<1>6. \A q \in Reader : \/ floor'[q] = floor[q]
                        \/ floor'[q] = IF InOrder THEN whole ELSE acked
                        \/ floor'[q] = NoFloor
  BY DEF ReaderFrame
<1>7. TimesOK'
  <2>1. ASSUME InOrder, NEW d \in Documents, NEW q \in Reader, d.time # None,
               floor'[q].time # None, d.time >= floor'[q].time
        PROVE  AtLeast(d, floor'[q])
    BY <1>1, <1>5, <1>6, <2>1 DEF TimesOK
  <2>2. QED
    BY <1>1, <2>1 DEF TimesOK, AtLeast
<1>8. RedisOK'
  <2>1. ASSUME ~RedisFails, ~InOrder, NEW q \in Reader
        PROVE  Covers(acked, floor'[q])
    <3>1. CASE floor'[q] = floor[q]
      BY <1>1, <2>1, <3>1 DEF RedisOK
    <3>2. CASE floor'[q] = acked
      BY <1>2, <3>2, CoversOrder
    <3>3. CASE floor'[q] = NoFloor
      <4>1. NoFloor \in State /\ NoFloor.epoch = 0 /\ AtLeast(acked, NoFloor)
        BY <1>2, <1>5, EmptyState, NothingOwed DEF NoFloor
      <4>2. QED
        BY <1>2, <3>3, <4>1, StateTypes DEF Covers
    <3>4. QED
      BY <1>6, <2>1, <3>1, <3>2, <3>3
  <2>2. QED
    BY <1>1, <2>1 DEF RedisOK, Covers, AtLeast
<1>9. Around /\ Before(whole, whole')
  <2>1. Before(whole, whole')
    BY <1>1, <1>2, StateTypes DEF Before
  <2>2. mem'.rev >= mem.rev /\ (mem.time # None => mem'.time >= mem.time)
    BY <1>1, <1>2, StateTypes
  <2>3. QED
    BY <1>1, <2>1, <2>2 DEF Around
<1>10. \A q \in Reader \ {r} : ReaderOK(q)'
  BY <1>9, BystanderKeeps DEF ReaderFrame
<1>11. \A i \in Identity, s \in State : EntryOK(i, s) => EntryOK(i, s)'
  BY <1>1, <1>9, EntryKeeps
<1>12. QED
  BY <1>3, <1>4, <1>7, <1>8, <1>10, <1>11

(* What is left to show of a reader's step: its own part.                  *)
OwnStep(r) ==
  /\ TypeOK' /\ ReaderFrame(r) /\ Known' \subseteq Known
  /\ ReaderOK(r)'
  /\ \/ floor'[r] = floor[r]
     \/ floor'[r] = IF InOrder THEN whole ELSE acked
     \/ floor'[r] = NoFloor
  /\ \/ cache' = cache
     \/ cache'.id \in Identity /\ cache'.of \in State /\ EntryOK(cache'.id, cache'.of)

LEMMA OwnStepKeeps ==
  ASSUME IInv, NEW r \in Reader, OwnStep(r)
  PROVE  IInv'
<1>1. /\ MemoryOK' /\ KnownOK' /\ TimesOK' /\ RedisOK'
      /\ \A q \in Reader \ {r} : ReaderOK(q)'
      /\ \A i \in Identity, s \in State : EntryOK(i, s) => EntryOK(i, s)'
  BY FrameKeeps DEF OwnStep
<1>2. CacheOK'
  <2>1. CASE cache' = cache
    <3>1. cache # None => /\ cache.id \in Identity /\ cache.of \in State
                          /\ EntryOK(cache.id, cache.of)
      BY DEF IInv, TypeOK, CacheOK, Entry
    <3>2. cache # None => EntryOK(cache.id, cache.of)'
      BY <1>1, <3>1, <2>1 DEF EntryOK, Before, Covers, AtLeast
    <3>3. QED
      BY <2>1, <3>2 DEF CacheOK
  <2>2. CASE /\ cache'.id \in Identity /\ cache'.of \in State
             /\ EntryOK(cache'.id, cache'.of)
    <3>1. PICK i \in Identity, s \in State :
            cache'.id = i /\ cache'.of = s /\ EntryOK(i, s)
      BY <2>2
    <3>2. EntryOK(i, s)'
      BY <1>1, <3>1
    <3>3. QED
      BY <3>1, <3>2 DEF CacheOK, EntryOK
  <2>3. QED
    BY <2>1, <2>2 DEF OwnStep
<1>3. QED
  BY <1>1, <1>2 DEF IInv, OwnStep

LEMMA BeginKeeps ==
  ASSUME IInv, NEW r \in Reader, Begin(r)
  PROVE  OwnStep(r)
<1> DEFINE due == IF InOrder THEN whole ELSE acked
<1>1. /\ pc'[r] = "time" /\ floor'[r] = due /\ due \in State
      /\ mem.epoch = whole.epoch /\ mem = mem'
      /\ InOrder /\ whole.time # None => mem.time # None /\ mem.time >= whole.time
  BY DEF Begin, process, IInv, TypeOK, MemoryOK, TimesOK
<1>2. TypeOK'
  <2>1. Richness(mem) \in Nat
    BY RichnessType
  <2>2. QED
    BY <1>1, <2>1 DEF Begin, IInv, TypeOK, process, store
<1>3. Known' \subseteq Known
  BY DEF Begin, IInv, TypeOK, process, store, Known, Documents
<1>4. ReaderOK(r)'
  BY <1>1 DEF ReaderOK
<1>5. QED
  BY <1>1, <1>2, <1>3, <1>4 DEF Begin, OwnStep, ReaderFrame, IInv, TypeOK

LEMMA CopyTimeKeeps ==
  ASSUME IInv, NEW r \in Reader, CopyTime(r)
  PROVE  OwnStep(r)
<1>1. /\ pc[r] = "time" /\ pc'[r] = "redis" /\ floor'[r] = floor[r]
      /\ copy'[r].time = mem.time /\ mem' = mem /\ ReaderOK(r)
  BY DEF CopyTime, process, IInv, TypeOK
<1>2. TypeOK'
  BY DEF CopyTime, IInv, TypeOK, process, store, State
<1>3. Known' \subseteq Known
  BY DEF CopyTime, IInv, TypeOK, process, store, Known, Documents
<1>4. ReaderOK(r)'
  BY <1>1 DEF ReaderOK
<1>5. QED
  BY <1>1, <1>2, <1>3, <1>4 DEF CopyTime, OwnStep, ReaderFrame, IInv, TypeOK

(* A document that is not beaten by the copy has every event due.          *)
LEMMA PickedServes ==
  ASSUME IInv, NEW r \in Reader, pc[r] = "redis", NEW d \in Documents, d = redis,
         ~MemoryIsFresher(copy[r], d), InOrder \/ ~RedisFails
  PROVE  Serves(d, floor[r])
<1>1. /\ d \in State /\ floor[r] \in State /\ d \in Known /\ floor[r] \in Known
      /\ floor[r].time # None => floor[r].time \in Nat
      /\ d.time # None => d.time \in Nat
      /\ copy[r].time # None => copy[r].time \in Nat
  <2>1. floor[r] \in Known
    BY DEF Known
  <2>2. copy[r].time # None => copy[r].time \in Nat
    BY TimeType DEF IInv, TypeOK
  <2>3. QED
    BY <2>1, <2>2, KnownTypes, StateTypes DEF IInv
<1>2. CASE InOrder
  <2>1. CASE floor[r].time = None
    BY <1>1, <1>2, <2>1, NothingOwed DEF IInv, KnownOK, Serves
  <2>2. CASE floor[r].time # None
    <3>1. copy[r].time # None /\ copy[r].time >= floor[r].time
      BY <1>2, <2>2 DEF IInv, ReaderOK
    <3>2. d.time # None /\ d.time >= copy[r].time
      BY <1>1, <3>1 DEF MemoryIsFresher
    <3>3. d.time >= floor[r].time
      BY <1>1, <2>2, <3>1, <3>2
    <3>4. QED
      BY <1>2, <2>2, <3>2, <3>3 DEF IInv, TimesOK, Serves
  <2>3. QED
    BY <2>1, <2>2
<1>3. CASE ~InOrder
  <2>1. d = acked
    BY <1>1, <1>3, StateTypes DEF IInv, RedisOK
  <2>2. QED
    BY <1>3, <2>1 DEF IInv, RedisOK, Serves
<1>4. QED
  BY <1>2, <1>3

LEMMA PickKeeps ==
  ASSUME IInv, NEW r \in Reader, PickState(r)
  PROVE  OwnStep(r)
<1>1. /\ pc[r] = "redis" /\ pc'[r] = "identity" /\ floor'[r] = floor[r]
      /\ mem' = mem /\ ReaderOK(r)
  BY DEF PickState, process, IInv, TypeOK
<1>2. PICK doc \in {redis, None} :
        source' = [source EXCEPT ![r] =
                     IF doc # None /\ ~MemoryIsFresher(copy[r], doc) THEN doc
                                                                    ELSE Live]
  BY DEF PickState
<1>3. \/ source'[r] = Live
      \/ /\ source'[r] = redis /\ redis \in Documents /\ redis \in State
         /\ ~MemoryIsFresher(copy[r], redis)
  BY <1>2 DEF IInv, TypeOK, Documents
<1>4. TypeOK'
  <2>1. source'[r] \in Picked \cup {None}
    BY <1>3 DEF Picked
  <2>2. NoCopy \in [count : Nat, time : Time \cup {None}]
    BY DEF NoCopy
  <2>3. QED
    BY <1>2, <2>1, <2>2 DEF PickState, IInv, TypeOK, process, store
<1>5. Known' \subseteq Known
  <2>1. \A q \in Reader : source'[q] = source[q] \/ source'[q] \in {Live} \cup Documents
    BY <1>2, <1>3 DEF IInv, TypeOK
  <2>2. Documents' = Documents
    BY DEF PickState, store, Documents
  <2>3. QED
    BY <1>1, <2>1, <2>2 DEF PickState, IInv, TypeOK, process, Known
<1>6. /\ source'[r] # None
      /\ source'[r] # Live /\ (InOrder \/ ~RedisFails) =>
           Serves(source'[r], floor[r])
  BY <1>1, <1>3, PickedServes, MarkType, StateTypes
<1>7. ReaderOK(r)'
  BY <1>1, <1>6 DEF ReaderOK, Serves, AtLeast, Covers
<1>8. QED
  BY <1>1, <1>2, <1>4, <1>5, <1>7 DEF PickState, OwnStep, ReaderFrame, IInv, TypeOK

LEMMA IdentityType ==
  /\ NoIdentity \in Identity
  /\ \A s \in State : IdentityOf(s) \in Identity
<1>1. NoIdentity \in Identity
  BY BoundType DEF NoIdentity, Identity
<1>2. \A s \in State : IdentityOf(s) \in Identity
  BY RichnessType DEF IdentityOf, Identity, State
<1>3. QED
  BY <1>1, <1>2

(* A reader's floor comes before the memory.                               *)
LEMMA FloorBefore ==
  ASSUME IInv, NEW r \in Reader, pc[r] # "idle"
  PROVE  /\ floor[r] \in Known /\ floor[r] \in State
         /\ Before(floor[r], mem) /\ Covers(mem, floor[r])
         /\ InOrder \/ ~RedisFails => Serves(mem, floor[r])
<1>1. /\ floor[r] \in Known /\ floor[r] \in State /\ whole \in State
      /\ mem \in State /\ whole \in Known
  BY KnownTypes DEF Known, IInv, TypeOK
<1>2. Before(floor[r], whole) /\ Covers(whole, floor[r])
  BY <1>1 DEF IInv, KnownOK
<1>3. mem.epoch = whole.epoch /\ mem.rev = whole.rev /\ AtLeast(mem, whole)
  BY DEF IInv, MemoryOK
<1>4. Covers(mem, floor[r])
  BY <1>1, <1>2, <1>3, CoversOrder DEF Covers
<1>5. InOrder => floor[r].epoch = mem.epoch
  BY DEF IInv, ReaderOK
<1>6. Serves(mem, floor[r])
  BY <1>1, <1>4, <1>5, CoversOrder DEF Serves
<1>7. QED
  BY <1>1, <1>2, <1>3, <1>4, <1>6 DEF Before

LEMMA ReadRevisionKeeps ==
  ASSUME IInv, NEW r \in Reader, ReadRevision(r)
  PROVE  OwnStep(r)
<1>1. /\ pc[r] = "identity" /\ floor'[r] = floor[r] /\ source'[r] = source[r]
      /\ pc'[r] = IF source[r] = Live THEN "counts" ELSE "cache"
      /\ mem' = mem /\ ReaderOK(r) /\ mem \in State
      /\ source[r] \in Picked \cup {None}
  BY DEF ReadRevision, process, IInv, TypeOK
<1> DEFINE new == IF source[r] = Live
                  THEN [NoIdentity EXCEPT !.epoch = mem.epoch, !.rev = mem.rev]
                  ELSE IdentityOf(source[r])
<1>2. source[r] # None /\ (source[r] # Live => source[r] \in State)
  BY <1>1 DEF ReaderOK, Picked
<1>3. /\ new \in Identity
      /\ source[r] = Live => new.epoch = mem.epoch /\ new.rev = mem.rev
  <2>1. CASE source[r] = Live
    BY <1>1, <2>1, IdentityType DEF Identity, State
  <2>2. CASE source[r] # Live
    BY <1>2, <2>2, IdentityType
  <2>3. QED
    BY <2>1, <2>2
<1>4. id' = [id EXCEPT ![r] = new] /\ id'[r] = new
  BY DEF ReadRevision, IInv, TypeOK
<1>5. TypeOK'
  BY <1>3, <1>4 DEF ReadRevision, IInv, TypeOK, process, store
<1>6. Known' \subseteq Known
  BY <1>1 DEF ReadRevision, IInv, TypeOK, process, store, Known, Documents
<1>7. ReaderOK(r)'
  <2>1. CASE source[r] = Live
    <3>1. Before(floor[r], mem) /\ mem.rev \in Nat
      BY <1>1, FloorBefore, StateTypes
    <3>2. id'[r].epoch = mem.epoch /\ id'[r].rev = mem.rev
      BY <1>3, <1>4, <2>1
    <3>3. QED
      BY <1>1, <2>1, <3>1, <3>2 DEF ReaderOK, Before
  <2>2. CASE source[r] # Live
    BY <1>1, <1>4, <2>2 DEF ReaderOK, IdentityOf, Richness, Serves, AtLeast, Covers
  <2>3. QED
    BY <2>1, <2>2
<1>8. QED
  BY <1>1, <1>5, <1>6, <1>7 DEF ReadRevision, OwnStep, ReaderFrame, IInv, TypeOK

LEMMA ReadRestKeeps ==
  ASSUME IInv, NEW r \in Reader, ReadCounts(r) \/ ReadTime(r)
  PROVE  OwnStep(r)
<1>1. /\ pc[r] \in {"counts", "last"} /\ pc'[r] \in {"last", "cache"}
      /\ floor'[r] = floor[r] /\ source'[r] = source[r] /\ mem' = mem
      /\ id'[r].epoch = id[r].epoch /\ id'[r].rev = id[r].rev
      /\ ReaderOK(r)
  BY DEF ReadCounts, ReadTime, process, IInv, TypeOK, Identity
<1>2. TypeOK'
  <2>1. Richness(mem) \in Nat
    BY RichnessType
  <2>2. /\ id[r] \in Identity /\ id \in [Reader -> Identity]
        /\ mem.time \in Time \cup {None}
    BY DEF IInv, TypeOK, State
  <2>3. /\ [id[r] EXCEPT !.count = Richness(mem)] \in Identity
        /\ [id[r] EXCEPT !.time = mem.time] \in Identity
    BY <2>1, <2>2 DEF Identity
  <2>4. \/ id' = [id EXCEPT ![r] = [id[r] EXCEPT !.count = Richness(mem)]]
        \/ id' = [id EXCEPT ![r] = [id[r] EXCEPT !.time = mem.time]]
    BY DEF ReadCounts, ReadTime
  <2>5. id' \in [Reader -> Identity]
    BY <2>2, <2>3, <2>4
  <2>6. QED
    BY <2>5 DEF ReadCounts, ReadTime, IInv, TypeOK, process, store
<1>3. Known' \subseteq Known
  BY DEF ReadCounts, ReadTime, IInv, TypeOK, process, store, Known, Documents
<1>4. ReaderOK(r)'
  BY <1>1 DEF ReaderOK, Before
<1>5. QED
  BY <1>1, <1>2, <1>3, <1>4
  DEF ReadCounts, ReadTime, OwnStep, ReaderFrame, IInv, TypeOK

(* A snapshot kept under the identity of what a reader picked serves it.   *)
LEMMA HitServes ==
  ASSUME IInv, NEW r \in Reader, pc[r] = "cache", Hit(r), InOrder \/ ~RedisFails
  PROVE  Serves(cache.of, floor[r])
<1> DEFINE s == cache.of
           f == floor[r]
           d == source[r]
<1>1. /\ s \in State /\ cache.id = id[r] /\ EntryOK(id[r], s)
      /\ d \in Picked \cup {None} /\ id[r] \in Identity
  BY DEF Hit, SameState, IInv, CacheOK, TypeOK, Entry
<1>2. f \in State /\ f \in Known
  BY FloorBefore
<1>3. InOrder => f.epoch = mem.epoch
  BY DEF IInv, ReaderOK
<1>4. s.epoch = id[r].epoch /\ \A t \in Known : Before(t, id[r]) => Covers(s, t)
  BY <1>1 DEF EntryOK
<1>5. CASE d = Live
  <2>1. id[r].epoch = mem.epoch /\ Before(f, id[r])
    BY <1>5 DEF IInv, ReaderOK
  <2>2. Covers(s, f)
    BY <1>2, <1>4, <2>1
  <2>3. QED
    BY <1>1, <1>2, <1>3, <1>4, <2>1, <2>2, CoversOrder DEF Serves
<1>6. CASE d # Live
  <2>1. /\ d \in State /\ d \in Known /\ Serves(d, f)
        /\ id[r] = IdentityOf(d)
    BY <1>1, <1>6 DEF IInv, ReaderOK, Picked, Known
  <2>2. id[r].epoch = d.epoch /\ id[r].rev = d.rev /\ d.rev \in Nat
    BY <2>1, StateTypes DEF IdentityOf
  <2>3. Covers(s, d) /\ s.epoch = d.epoch
    BY <1>4, <2>1, <2>2 DEF Before
  <2>4. AtLeast(s, d)
    BY <1>1, <2>1, <2>3, CoversOrder
  <2>5. QED
    BY <1>1, <1>2, <2>1, <2>3, <2>4, CoversOrder DEF Serves
<1>7. QED
  BY <1>5, <1>6

LEMMA LookUpKeeps ==
  ASSUME IInv, NEW r \in Reader, LookUp(r)
  PROVE  OwnStep(r)
<1>1. /\ pc[r] = "cache" /\ floor'[r] = floor[r] /\ mem' = mem
      /\ ReaderOK(r)
  BY DEF LookUp, process, IInv, TypeOK
<1>2. Known' \subseteq Known
  <2>1. \A q \in Reader : source'[q] = source[q] \/ source'[q] = None
    BY DEF LookUp, IInv, TypeOK
  <2>2. QED
    BY <1>1, <2>1 DEF LookUp, IInv, TypeOK, process, store, Known, Documents
<1>3. CASE Hit(r) /\ pc'[r] = "answer"
  <2>1. cache.of \in State /\ answer'[r] = cache.of
    BY <1>1, <1>3 DEF LookUp, Hit, IInv, TypeOK, Entry
  <2>2. TypeOK'
    <3>1. /\ answer' = [answer EXCEPT ![r] = cache.of]
          /\ source' = [source EXCEPT ![r] = None]
          /\ id' = [id EXCEPT ![r] = NoIdentity]
          /\ pc' = [pc EXCEPT ![r] = "answer"]
      BY <1>3 DEF LookUp
    <3>2. QED
      BY <2>1, <3>1, IdentityType DEF LookUp, IInv, TypeOK, process, store
  <2>3. ReaderOK(r)'
    <3>1. InOrder \/ ~RedisFails => Serves(answer'[r], floor[r])
      BY <1>1, <1>3, <2>1, HitServes
    <3>2. answer'[r] # None
      BY <2>1, StateTypes
    <3>3. QED
      BY <1>1, <1>3, <3>1, <3>2 DEF ReaderOK, Serves, AtLeast, Covers
  <2>4. QED
    BY <1>1, <1>2, <2>2, <2>3 DEF LookUp, OwnStep, ReaderFrame, IInv, TypeOK
<1>4. CASE /\ pc'[r] = "build" /\ UNCHANGED <<answer, source, id>>
  <2>1. TypeOK'
    BY <1>4 DEF LookUp, IInv, TypeOK, process, store
  <2>2. ReaderOK(r)'
    BY <1>1, <1>4 DEF ReaderOK, Serves, AtLeast, Covers, Before, IdentityOf, Richness
  <2>3. QED
    BY <1>1, <1>2, <1>4, <2>1, <2>2 DEF LookUp, OwnStep, ReaderFrame, IInv, TypeOK
<1>5. QED
  BY <1>3, <1>4 DEF LookUp, IInv, TypeOK

LEMMA BuildKeeps ==
  ASSUME IInv, NEW r \in Reader, Build(r)
  PROVE  OwnStep(r)
<1> DEFINE new == IF source[r] = Live THEN mem ELSE source[r]
<1>1. /\ pc[r] = "build" /\ pc'[r] = "keep" /\ floor'[r] = floor[r]
      /\ source'[r] = None /\ answer'[r] = new /\ id'[r] = id[r]
      /\ mem' = mem /\ whole' = whole /\ ReaderOK(r)
      /\ mem \in State /\ source[r] \in Picked \cup {None} /\ id[r] \in Identity
  BY DEF Build, process, IInv, TypeOK
<1>2. /\ new \in State
      /\ InOrder \/ ~RedisFails => Serves(new, floor[r])
  <2>1. CASE source[r] = Live
    BY <1>1, <2>1, FloorBefore
  <2>2. CASE source[r] # Live
    BY <1>1, <2>2 DEF ReaderOK, Picked
  <2>3. QED
    BY <2>1, <2>2
<1>3. TypeOK'
  BY <1>2 DEF Build, IInv, TypeOK, process, store
<1>4. Known' \subseteq Known
  <2>1. \A q \in Reader : source'[q] = source[q] \/ source'[q] = None
    BY DEF Build, IInv, TypeOK
  <2>2. QED
    BY <1>1, <2>1 DEF Build, IInv, TypeOK, process, store, Known, Documents
<1>5. EntryOK(id[r], new)
  <2>1. CASE source[r] = Live
    <3>1. id[r].epoch = mem.epoch /\ id[r].rev <= mem.rev
      BY <1>1, <2>1 DEF ReaderOK
    <3>2. /\ mem.epoch = whole.epoch /\ mem.rev = whole.rev /\ AtLeast(mem, whole)
          /\ whole \in State /\ whole \in Known /\ Known \subseteq State
      BY KnownTypes DEF IInv, MemoryOK, TypeOK
    <3>3. ASSUME NEW t \in Known
          PROVE  Covers(mem, t)
      <4>1. Covers(whole, t)
        BY <3>2 DEF IInv, KnownOK
      <4>2. Covers(mem, whole)
        BY <3>2 DEF Covers
      <4>3. QED
        BY <1>1, <3>2, <4>1, <4>2, CoversOrder
    <3>4. QED
      BY <2>1, <3>1, <3>2, <3>3 DEF EntryOK, Before
  <2>2. CASE source[r] # Live
    <3>1. /\ source[r] \in State /\ source[r] \in Known
          /\ id[r] = IdentityOf(source[r])
      BY <1>1, <2>2 DEF ReaderOK, Picked, Known
    <3>2. id[r].epoch = new.epoch /\ id[r].rev = new.rev
      BY <2>2, <3>1 DEF IdentityOf
    <3>3. Before(new, whole) /\ \A t \in Known : Before(t, new) => Covers(new, t)
      BY <2>2, <3>1 DEF IInv, KnownOK
    <3>4. QED
      BY <3>2, <3>3 DEF EntryOK, Before
  <2>3. QED
    BY <2>1, <2>2
<1>6. EntryOK(id[r], answer[r])'
  <2>1. \A t \in Known' : Before(t, id[r]) => Covers(new, t)
    BY <1>4, <1>5 DEF EntryOK
  <2>2. QED
    BY <1>1, <1>5, <2>1 DEF EntryOK, Before, Covers, AtLeast
<1>7. ReaderOK(r)'
  <2>1. answer'[r] # None
    BY <1>1, <1>2, StateTypes
  <2>2. InOrder \/ ~RedisFails => Serves(answer[r], floor[r])'
    BY <1>1, <1>2 DEF Serves, AtLeast, Covers
  <2>3. QED
    BY <1>1, <1>6, <2>1, <2>2 DEF ReaderOK
<1>8. QED
  BY <1>1, <1>3, <1>4, <1>7 DEF Build, OwnStep, ReaderFrame, IInv, TypeOK

LEMMA KeepKeeps ==
  ASSUME IInv, NEW r \in Reader, Keep(r)
  PROVE  OwnStep(r)
<1>1. /\ pc[r] = "keep" /\ pc'[r] = "answer" /\ floor'[r] = floor[r]
      /\ source' = source /\ answer' = answer /\ mem' = mem /\ ReaderOK(r)
      /\ id[r] \in Identity /\ answer[r] \in State
  BY DEF Keep, process, IInv, TypeOK, ReaderOK
<1>2. /\ cache'.id \in Identity /\ cache'.of \in State
      /\ EntryOK(cache'.id, cache'.of)
  BY <1>1 DEF Keep, ReaderOK
<1>3. TypeOK'
  BY <1>1, IdentityType DEF Keep, IInv, TypeOK, Entry, process, store
<1>4. Known' \subseteq Known
  BY <1>1 DEF Keep, IInv, TypeOK, process, store, Known, Documents
<1>5. ReaderOK(r)'
  BY <1>1 DEF ReaderOK, Serves, AtLeast, Covers
<1>6. QED
  BY <1>1, <1>2, <1>3, <1>4, <1>5 DEF Keep, OwnStep, ReaderFrame, IInv, TypeOK

LEMMA RespondKeeps ==
  ASSUME IInv, NEW r \in Reader, Respond(r)
  PROVE  OwnStep(r)
<1>1. /\ pc'[r] = "idle" /\ floor'[r] = NoFloor /\ source'[r] = None
  BY DEF Respond, IInv, TypeOK
<1>2. TypeOK'
  <2>1. NoCopy \in [count : Nat, time : Time \cup {None}]
    BY DEF NoCopy
  <2>2. NoFloor \in State
    BY EmptyState, BoundType DEF NoFloor
  <2>3. QED
    BY <2>1, <2>2, IdentityType DEF Respond, IInv, TypeOK, process, store
<1>3. Known' \subseteq Known
  <2>1. \A q \in Reader : source'[q] = source[q] \/ source'[q] = None
    BY DEF Respond, IInv, TypeOK
  <2>2. \A q \in Reader : pc'[q] # "idle" => pc[q] # "idle" /\ floor'[q] = floor[q]
    BY DEF Respond, IInv, TypeOK
  <2>3. QED
    BY <2>1, <2>2 DEF Respond, process, store, Known, Documents
<1>4. ReaderOK(r)'
  BY <1>1 DEF ReaderOK, NoFloor, Empty
<1>5. QED
  BY <1>1, <1>2, <1>3, <1>4 DEF Respond, OwnStep, ReaderFrame, IInv, TypeOK

-----------------------------------------------------------------------------
(* The steps of the event loop and the faults                              *)

(* What every step of the loop, or of Redis, leaves alone.                 *)
LoopFrame == UNCHANGED <<cache, pc, locals, floor>>

LEMMA LoopKeeps ==
  ASSUME IInv, TypeOK', Around, LoopFrame
  PROVE  CacheOK' /\ \A q \in Reader : ReaderOK(q)'
<1>1. \A q \in Reader : ReaderOK(q)'
  BY BystanderKeeps DEF LoopFrame, locals
<1>2. ASSUME cache # None
      PROVE  EntryOK(cache.id, cache.of)'
  <2>1. /\ cache.id \in Identity /\ cache.of \in State
        /\ EntryOK(cache.id, cache.of)
    BY <1>2 DEF IInv, TypeOK, CacheOK, Entry
  <2>2. \A t \in Known' : t \in Known \/ ~Before(t, cache.id)
    BY <2>1 DEF Around, EntryOK
  <2>3. PICK i \in Identity, s \in State :
          i = cache.id /\ s = cache.of /\ EntryOK(i, s)
    BY <2>1
  <2>4. EntryOK(i, s)'
    BY <2>2, <2>3, EntryKeeps DEF IInv, Around
  <2>5. cache' = cache
    BY DEF LoopFrame
  <2>6. QED
    BY <2>3, <2>4, <2>5 DEF EntryOK
<1>3. QED
  BY <1>1, <1>2 DEF CacheOK, LoopFrame

(* What the types say of the times and numbers that the steps compare.     *)
LEMMA Numbers ==
  ASSUME TypeOK
  PROVE  /\ mem.rev \in Nat /\ mem.epoch \in Nat
         /\ whole.rev \in Nat /\ whole.epoch \in Nat /\ events \in Nat
         /\ \A k \in Key : mem.data[k] \in Nat /\ whole.data[k] \in Nat
         /\ mem.time # None => mem.time \in Nat
         /\ whole.time # None => whole.time \in Nat
         /\ acked.time # None => acked.time \in Nat
         /\ \A d \in Documents : d.time # None => d.time \in Nat
<1>1. events \in Nat
  BY BoundType DEF TypeOK
<1>2. mem \in State /\ whole \in State /\ acked \in State
  BY DEF TypeOK
<1>3. Documents \subseteq State
  BY KnownTypes
<1>4. QED
  BY <1>1, <1>2, <1>3, StateTypes

LEMMA ReceiveKeeps ==
  ASSUME IInv, NEW k \in Key, NEW t \in Time, Receive(k, t)
  PROVE  IInv'
<1>1. /\ TypeOK /\ MemoryOK /\ KnownOK /\ TimesOK /\ RedisOK
      /\ loop \in {"idle", "next"} /\ mem = whole /\ loop' = "data"
      /\ mem' = [mem EXCEPT !.time = t] /\ events' = events + 1
      /\ event' = [key |-> k, time |-> t]
      /\ UNCHANGED <<redis, late, cache, pc, copy, source, id, answer, whole, acked, floor>>
  BY DEF Receive, IInv, MemoryOK, store, locals
<1>2. /\ mem'.epoch = mem.epoch /\ mem'.rev = mem.rev /\ mem'.data = mem.data
      /\ mem'.time = t /\ t \in Nat /\ t # None /\ mem' \in State
  BY <1>1, TimeType DEF TypeOK, State
<1>3. TypeOK'
  <2>1. events' \in 0 .. MaxEvents
    BY <1>1, BoundType DEF Receive, TypeOK
  <2>2. event' \in [key : Key, time : Time] \cup {None}
    BY <1>1
  <2>3. QED
    BY <1>1, <1>2, <2>1, <2>2 DEF TypeOK
<1>4. Known' = Known /\ Documents' = Documents
  BY <1>1 DEF Known, Documents
<1>5. InOrder /\ mem.time # None => t >= mem.time
  BY <1>1, <1>2, Numbers DEF Receive
<1>6. Around
  BY <1>1, <1>2, <1>4, <1>5, Numbers DEF Around, Before
<1>7. MemoryOK'
  <2>1. /\ whole.rev < events + 1 /\ whole.rev <= events + 1
        /\ \A j \in Key : mem.data[j] <= events + 1
    BY <1>1, Numbers DEF MemoryOK
  <2>2. /\ AtLeast(mem, whole)' /\ event' \in [key : Key, time : Time]
        /\ event'.time = t
    BY <1>1, <1>2 DEF MemoryOK, AtLeast
  <2>3. QED
    BY <1>1, <1>2, <2>1, <2>2 DEF MemoryOK
<1>8. KnownOK'
  BY <1>1, <1>4 DEF KnownOK, Before, Covers, AtLeast
<1>9. TimesOK'
  <2>1. ASSUME InOrder, acked.time # None
        PROVE  t > acked.time
    BY <1>1, <1>2, <2>1, Numbers DEF Receive, TimesOK
  <2>2. QED
    BY <1>1, <1>2, <1>4, <1>5, <2>1 DEF TimesOK, AtLeast
<1>10. RedisOK'
  BY <1>1 DEF RedisOK, Covers, AtLeast, Empty
<1>11. QED
  BY <1>1, <1>3, <1>6, <1>7, <1>8, <1>9, <1>10, LoopKeeps DEF IInv, LoopFrame, locals

LEMMA StoreEventKeeps ==
  ASSUME IInv, StoreEvent
  PROVE  IInv'
<1>1. /\ TypeOK /\ MemoryOK /\ KnownOK /\ TimesOK /\ RedisOK
      /\ loop = "data" /\ loop' = "revision"
      /\ mem' = [mem EXCEPT !.data[event.key] = events]
      /\ UNCHANGED <<event, redis, late, cache, pc, copy, source, id, answer, events,
                     whole, acked, floor>>
  BY DEF StoreEvent, IInv, store, locals, Ingested
<1>2. event.key \in Key /\ mem.data \in Data /\ mem \in State
  BY <1>1 DEF TypeOK, MemoryOK, State
<1>3. /\ mem'.epoch = mem.epoch /\ mem'.rev = mem.rev /\ mem'.time = mem.time
      /\ mem'.data = [mem.data EXCEPT ![event.key] = events] /\ mem' \in State
  BY <1>1, <1>2 DEF TypeOK, State, Data
<1>4. TypeOK'
  BY <1>1, <1>3 DEF TypeOK
<1>5. Known' = Known /\ Documents' = Documents
  BY <1>1 DEF Known, Documents
<1>6. Around
  BY <1>1, <1>3, <1>5, Numbers DEF Around, Before
<1>7. MemoryOK'
  <2>1. \A k \in Key : mem'.data[k] = IF k = event.key THEN events ELSE mem.data[k]
    BY <1>2, <1>3 DEF Data
  <2>2. \A k \in Key : mem'.data[k] <= events /\ mem'.data[k] >= mem.data[k]
    BY <1>1, <2>1, Numbers DEF MemoryOK
  <2>3. \A k \in Key : mem'.data[k] >= whole.data[k] /\ mem'.data[k] \in Nat
    BY <1>1, <2>1, <2>2, Numbers DEF MemoryOK, AtLeast
  <2>4. QED
    BY <1>1, <1>3, <2>2, <2>3 DEF MemoryOK, AtLeast
<1>8. KnownOK'
  BY <1>1, <1>5 DEF KnownOK, Before, Covers, AtLeast
<1>9. TimesOK'
  BY <1>1, <1>3, <1>5 DEF TimesOK, AtLeast
<1>10. RedisOK'
  BY <1>1 DEF RedisOK, Covers, AtLeast, Empty
<1>11. QED
  BY <1>1, <1>4, <1>6, <1>7, <1>8, <1>9, <1>10, LoopKeeps DEF IInv, LoopFrame, locals

LEMMA CountRevisionKeeps ==
  ASSUME IInv, CountRevision
  PROVE  IInv'
<1>1. /\ TypeOK /\ MemoryOK /\ KnownOK /\ TimesOK /\ RedisOK
      /\ loop = "revision" /\ loop' = "next"
      /\ mem' = [mem EXCEPT !.rev = @ + 1] /\ whole' = mem'
      /\ UNCHANGED <<event, redis, late, cache, pc, copy, source, id, answer, events,
                     acked, floor>>
  BY DEF CountRevision, IInv, store, locals, Ingested
<1>2. /\ mem.rev + 1 <= events /\ mem.time \in Nat /\ mem.time # None
      /\ mem \in State
  <2>1. mem.time \in Time /\ mem \in State
    BY <1>1 DEF TypeOK, MemoryOK
  <2>2. mem.time \in Nat /\ mem.time # None
    BY <2>1, TimeType
  <2>3. mem.rev + 1 <= events
    BY <1>1, Numbers DEF MemoryOK
  <2>4. QED
    BY <2>1, <2>2, <2>3
<1>3. /\ mem'.epoch = mem.epoch /\ mem'.rev = mem.rev + 1
      /\ mem'.time = mem.time /\ mem'.data = mem.data
  BY <1>1, <1>2 DEF State
<1>4. mem' \in State
  <2>1. mem.rev + 1 \in 0 .. MaxEvents
    BY <1>1, <1>2, Numbers, BoundType DEF TypeOK
  <2>2. QED
    BY <1>1, <1>2, <2>1 DEF State
<1>5. TypeOK'
  BY <1>1, <1>4 DEF TypeOK
<1>6. Documents' = Documents /\ Known' \subseteq Known \cup {whole'}
  BY <1>1 DEF Known, Documents
<1>7. /\ whole'.epoch = whole.epoch /\ whole'.rev = whole.rev + 1
      /\ whole' \in State /\ whole \in State /\ Covers(whole', whole)
  BY <1>1, <1>3, <1>4 DEF MemoryOK, TypeOK, Covers, AtLeast
<1>8. \A i \in Identity \cup Known : Before(i, whole) => ~Before(whole', i)
  <2>1. \A i \in Identity \cup Known : i.epoch \in Nat /\ i.rev \in Nat
    BY <1>1, KnownTypes, StateTypes, IdentityTypes
  <2>2. QED
    BY <1>1, <1>7, <2>1, Numbers DEF Before
<1>9. Around
  <2>1. Before(whole, whole') /\ mem'.rev >= mem.rev
    BY <1>1, <1>3, <1>7, Numbers DEF Before
  <2>2. mem'.time >= mem.time
    BY <1>2, <1>3
  <2>3. QED
    BY <1>2, <1>3, <1>6, <1>8, <2>1, <2>2 DEF Around
<1>10. MemoryOK'
  BY <1>1, <1>2, <1>3, <1>7, CoversOrder DEF MemoryOK
<1>11. KnownOK'
  <2>1. \A s \in Known : Before(s, whole) /\ s \in State /\ Covers(whole', s)
    <3>1. \A s \in Known : Before(s, whole) /\ s \in State /\ Covers(whole, s)
      BY <1>1, KnownTypes DEF KnownOK
    <3>2. QED
      BY <1>7, <3>1, CoversOrder
  <2>2. \A s \in Known : Before(s, whole')
    BY <1>1, <1>7, <2>1, StateTypes, Numbers DEF Before
  <2>3. Before(whole', whole') /\ Covers(whole', whole')
    BY <1>7, CoversOrder, StateTypes DEF Before
  <2>4. whole'.time # None
    BY <1>1, <1>2, <1>3
  <2>5. \A s \in Known \cup {whole'} : \A t \in Known \cup {whole'} :
          Before(s, t) => Covers(t, s)
    BY <1>1, <1>8, <2>1, <2>3 DEF KnownOK
  <2>6. \A s \in Known \cup {whole'} :
          Before(s, whole') /\ (s.time = None => \A k \in Key : s.data[k] = 0)
    BY <1>1, <2>2, <2>3, <2>4 DEF KnownOK
  <2>7. \A s \in Known' : Before(s, whole)'
    BY <1>6, <2>6 DEF Before
  <2>8. QED
    BY <1>6, <2>5, <2>6, <2>7 DEF KnownOK, Before, Covers, AtLeast
<1>12. TimesOK'
  <2>1. ASSUME InOrder, NEW d \in Documents, d.time # None
        PROVE  ~(d.time >= whole'.time)
    <3>1. acked.time # None /\ acked.time >= d.time /\ mem.time > acked.time
      BY <1>1, <2>1 DEF TimesOK
    <3>2. QED
      BY <1>1, <1>2, <1>3, <2>1, <3>1, Numbers
  <2>2. mem'.time >= mem'.time
    BY <1>2, <1>3
  <2>3. /\ mem'.time # None
        /\ InOrder /\ acked'.time # None => mem'.time > acked'.time
        /\ whole'.time = mem'.time
    BY <1>1, <1>2, <1>3 DEF TimesOK
  <2>4. ASSUME InOrder, NEW d \in Documents, d.time # None
        PROVE  /\ acked'.time # None /\ acked'.time >= d.time
               /\ \A s \in {whole'} \cup {floor'[r] : r \in Reader} :
                    s.time # None /\ d.time >= s.time => AtLeast(d, s)
    BY <1>1, <2>1, <2>4 DEF TimesOK
  <2>5. QED
    BY <1>6, <2>2, <2>3, <2>4 DEF TimesOK, AtLeast
<1>13. RedisOK'
  BY <1>1 DEF RedisOK, Covers, AtLeast, Empty
<1>14. QED
  BY <1>1, <1>5, <1>9, <1>10, <1>11, <1>12, <1>13, LoopKeeps
  DEF IInv, LoopFrame, locals

(* Whole memory serves every reader.                                       *)
LEMMA WholeServes ==
  ASSUME IInv, NEW r \in Reader, mem = whole
  PROVE  /\ ~InOrder => Covers(mem, floor[r])
         /\ InOrder => AtLeast(mem, floor[r])
<1>1. mem \in State
  BY DEF IInv, TypeOK
<1>2. CASE pc[r] # "idle"
  <2>1. /\ Covers(mem, floor[r]) /\ floor[r] \in State
        /\ InOrder => floor[r].epoch = mem.epoch
    BY <1>2, FloorBefore DEF IInv, ReaderOK
  <2>2. QED
    BY <1>1, <2>1, CoversOrder
<1>3. CASE pc[r] = "idle"
  <2>1. floor[r] = NoFloor
    BY <1>3 DEF IInv, ReaderOK
  <2>2. NoFloor \in State /\ NoFloor.epoch = 0 /\ \A k \in Key : NoFloor.data[k] = 0
    BY EmptyState, BoundType DEF NoFloor
  <2>3. AtLeast(mem, NoFloor)
    BY <1>1, <2>2, NothingOwed
  <2>4. Covers(mem, NoFloor)
    BY <1>1, <2>2, <2>3, StateTypes DEF Covers
  <2>5. QED
    BY <2>1, <2>3, <2>4
<1>4. QED
  BY <1>2, <1>3

LEMMA PersistKeeps ==
  ASSUME IInv, Persist
  PROVE  IInv'
<1>1. /\ TypeOK /\ MemoryOK /\ KnownOK /\ TimesOK /\ RedisOK
      /\ loop = "next" /\ loop' = "idle" /\ mem = whole /\ acked' = mem
      /\ \/ redis' = mem /\ late' = late
         \/ RedisFails /\ redis' = redis /\ late' \subseteq late \cup {mem}
      /\ event' = None
      /\ UNCHANGED <<mem, cache, pc, copy, source, id, answer, events, whole, floor>>
  BY DEF Persist, IInv, MemoryOK, store, locals
<1>2. TypeOK'
  BY <1>1 DEF TypeOK
<1>3. Documents' \subseteq Documents \cup {mem}
  BY <1>1 DEF Documents
<1>4. Known' \subseteq Known
  BY <1>1, <1>3 DEF Known
<1>5. Around
  BY <1>1, <1>4, Numbers DEF Around, Before
<1>6. MemoryOK'
  BY <1>1 DEF MemoryOK, AtLeast
<1>7. KnownOK'
  BY <1>1, <1>4 DEF KnownOK, Before, Covers, AtLeast
<1>8. TimesOK'
  <2>1. ASSUME InOrder, NEW d \in Documents \cup {mem}, d.time # None
        PROVE  /\ acked'.time # None /\ acked'.time >= d.time
               /\ \A s \in {whole} \cup {floor[r] : r \in Reader} :
                    s.time # None /\ d.time >= s.time => AtLeast(d, s)
    <3>1. CASE d = mem
      <4>1. \A r \in Reader : AtLeast(mem, floor[r])
        BY <1>1, <2>1, WholeServes
      <4>2. AtLeast(mem, whole)
        BY <1>1 DEF MemoryOK
      <4>3. acked'.time >= d.time
        BY <1>1, <2>1, <3>1, Numbers
      <4>4. QED
        BY <1>1, <2>1, <3>1, <4>1, <4>2, <4>3
    <3>2. CASE d \in Documents
      <4>1. /\ acked.time # None /\ acked.time >= d.time
            /\ mem.time # None /\ mem.time > acked.time
        BY <1>1, <2>1, <3>2 DEF TimesOK
      <4>2. acked'.time >= d.time
        BY <1>1, <2>1, <3>2, <4>1, Numbers
      <4>3. QED
        BY <1>1, <2>1, <3>2, <4>1, <4>2 DEF TimesOK
    <3>3. QED
      BY <2>1, <3>1, <3>2
  <2>2. InOrder => (whole.time # None => mem.time # None /\ mem.time >= whole.time)
    BY <1>1 DEF TimesOK
  <2>3. QED
    BY <1>1, <1>3, <2>1, <2>2 DEF TimesOK, AtLeast
<1>9. RedisOK'
  <2>1. ASSUME ~RedisFails
        PROVE  late' = {} /\ redis' = acked'
    BY <1>1, <2>1 DEF RedisOK
  <2>2. ASSUME ~InOrder, NEW r \in Reader
        PROVE  Covers(mem, floor[r])
    BY <1>1, <2>2, WholeServes
  <2>3. QED
    BY <1>1, <2>1, <2>2 DEF RedisOK, Covers, AtLeast
<1>10. QED
  BY <1>1, <1>2, <1>5, <1>6, <1>7, <1>8, <1>9, LoopKeeps
  DEF IInv, LoopFrame, locals

(* A late write lands, or Redis loses its data: no state is new.           *)
LEMMA FaultKeeps ==
  ASSUME IInv, LoseRedis \/ \E s \in late : LandLate(s)
  PROVE  IInv'
<1>1. /\ TypeOK /\ MemoryOK /\ KnownOK /\ TimesOK /\ RedisOK
      /\ redis' \in late \cup {None} /\ late' \subseteq late
      /\ UNCHANGED <<mem, loop, event, cache, pc, copy, source, id, answer, events,
                     whole, acked, floor>>
  BY DEF LoseRedis, LandLate, IInv, process, locals
<1>2. RedisFails
  BY <1>1, FlagType DEF LoseRedis, RedisOK
<1>3. TypeOK'
  BY <1>1 DEF TypeOK
<1>4. Documents' \subseteq Documents /\ Known' \subseteq Known
  <2>1. Documents' \subseteq Documents
    BY <1>1 DEF Documents
  <2>2. QED
    BY <1>1, <2>1 DEF Known
<1>5. Around
  BY <1>1, <1>4, Numbers DEF Around, Before
<1>6. MemoryOK' /\ RedisOK'
  BY <1>1, <1>2 DEF MemoryOK, RedisOK, AtLeast
<1>7. KnownOK'
  BY <1>1, <1>4 DEF KnownOK, Before, Covers, AtLeast
<1>8. TimesOK'
  BY <1>1, <1>4 DEF TimesOK, AtLeast
<1>9. QED
  BY <1>1, <1>3, <1>5, <1>6, <1>7, <1>8, LoopKeeps DEF IInv, LoopFrame, locals

LEMMA RestartKeeps ==
  ASSUME IInv, Restart
  PROVE  IInv'
<1> DEFINE fresh == Empty(mem.epoch + 1)
<1>1. /\ TypeOK /\ MemoryOK /\ KnownOK /\ TimesOK /\ RedisOK
      /\ mem' = fresh /\ whole' = fresh /\ loop' = "idle" /\ event' = None
      /\ cache' = None
      /\ UNCHANGED <<redis, late, events, acked>>
  BY DEF Restart, IInv, store
<1>2. \A r \in Reader :
        /\ pc'[r] = "idle" /\ copy'[r] = NoCopy /\ source'[r] = None
        /\ id'[r] = NoIdentity /\ answer'[r] = None /\ floor'[r] = NoFloor
  BY DEF Restart
<1>3. /\ fresh \in State /\ fresh.epoch = mem.epoch + 1 /\ fresh.rev = 0
      /\ fresh.time = None /\ \A k \in Key : fresh.data[k] = 0
  <2>1. mem.epoch + 1 \in 0 .. MaxRestarts
    BY <1>1, Numbers, BoundType DEF Restart
  <2>2. QED
    BY <2>1, EmptyState
<1>4. /\ NoFloor \in State /\ NoFloor.epoch = 0 /\ NoFloor.time = None
      /\ \A k \in Key : NoFloor.data[k] = 0
  BY EmptyState, BoundType DEF NoFloor
<1>5. TypeOK'
  <2>1. NoCopy \in [count : Nat, time : Time \cup {None}]
    BY DEF NoCopy
  <2>2. QED
    BY <1>1, <1>3, <1>4, <2>1, IdentityType DEF Restart, TypeOK
<1>6. Documents' = Documents /\ Known' = {fresh, acked} \cup Documents
  <2>1. Documents' = Documents
    BY <1>1 DEF Documents
  <2>2. QED
    BY <1>1, <1>2, <2>1 DEF Known
<1>7. MemoryOK'
  BY <1>1, <1>3, CoversOrder, Numbers DEF MemoryOK
<1>8. KnownOK'
  <2>1. \A s \in {acked} \cup Documents :
          /\ s \in Known /\ s \in State /\ Before(s, whole)
    BY <1>1, KnownTypes DEF KnownOK
  <2>2. \A s \in {acked} \cup Documents : s.epoch < fresh.epoch /\ s.epoch \in Nat
    BY <1>1, <1>3, <2>1, StateTypes, Numbers DEF MemoryOK, Before
  <2>3. /\ Before(fresh, fresh) /\ Covers(fresh, fresh)
        /\ fresh.epoch \in Nat
    BY <1>3, CoversOrder, StateTypes DEF Before
  <2>4. \A s \in {acked} \cup Documents :
          Before(s, fresh) /\ Covers(fresh, s) /\ ~Before(fresh, s)
    BY <2>2, <2>3 DEF Before, Covers
  <2>5. \A s, t \in {fresh, acked} \cup Documents : Before(s, t) => Covers(t, s)
    BY <1>1, <2>1, <2>3, <2>4 DEF KnownOK
  <2>6. \A s \in {fresh, acked} \cup Documents :
          Before(s, fresh) /\ (s.time = None => \A k \in Key : s.data[k] = 0)
    BY <1>1, <1>3, <2>1, <2>3, <2>4 DEF KnownOK
  <2>7. \A s \in Known' : Before(s, whole)'
    BY <1>1, <1>6, <2>6 DEF Before
  <2>8. QED
    BY <1>6, <2>5, <2>6, <2>7 DEF KnownOK, Before, Covers, AtLeast
<1>9. TimesOK'
  BY <1>1, <1>2, <1>3, <1>4, <1>6 DEF TimesOK
<1>10. RedisOK'
  <2>1. acked \in State /\ Covers(acked, NoFloor)
    BY <1>1, <1>4, NothingOwed, StateTypes DEF TypeOK, Covers
  <2>2. QED
    BY <1>1, <1>2, <2>1 DEF RedisOK, Covers, AtLeast
<1>11. CacheOK' /\ \A r \in Reader : ReaderOK(r)'
  BY <1>1, <1>2 DEF CacheOK, ReaderOK, NoFloor, Empty
<1>12. QED
  BY <1>5, <1>7, <1>8, <1>9, <1>10, <1>11 DEF IInv

-----------------------------------------------------------------------------
LEMMA InitKeeps ==
  ASSUME Init
  PROVE  IInv
<1>1. /\ Empty(0) \in State /\ Empty(0).epoch = 0 /\ Empty(0).rev = 0
      /\ Empty(0).time = None /\ \A k \in Key : Empty(0).data[k] = 0
  BY EmptyState, BoundType
<1>2. TypeOK
  <2>1. NoCopy \in [count : Nat, time : Time \cup {None}]
    BY DEF NoCopy
  <2>2. QED
    BY <1>1, <2>1, IdentityType, BoundType DEF Init, TypeOK, NoFloor
<1>3. Documents = {} /\ Known = {Empty(0)}
  BY DEF Init, Known, Documents
<1>4. AtLeast(Empty(0), Empty(0)) /\ Covers(Empty(0), Empty(0))
  BY <1>1, CoversOrder
<1>5. MemoryOK
  BY <1>1, <1>4 DEF Init, MemoryOK
<1>6. KnownOK
  BY <1>1, <1>3, <1>4 DEF Init, KnownOK, Before
<1>7. TimesOK
  BY <1>1, <1>3 DEF Init, TimesOK
<1>8. RedisOK
  BY <1>4 DEF Init, RedisOK, NoFloor
<1>9. CacheOK /\ \A r \in Reader : ReaderOK(r)
  BY DEF Init, CacheOK, ReaderOK
<1>10. QED
  BY <1>2, <1>5, <1>6, <1>7, <1>8, <1>9 DEF IInv

LEMMA StepKeeps ==
  ASSUME IInv, [Next]_vars
  PROVE  IInv'
<1>1. CASE \E k \in Key, t \in Time : Receive(k, t)
  BY <1>1, ReceiveKeeps
<1>2. CASE StoreEvent
  BY <1>2, StoreEventKeeps
<1>3. CASE CountRevision
  BY <1>3, CountRevisionKeeps
<1>4. CASE Persist
  BY <1>4, PersistKeeps
<1>5. ASSUME NEW r \in Reader,
             \/ Begin(r) \/ CopyTime(r) \/ PickState(r)
             \/ ReadRevision(r) \/ ReadCounts(r) \/ ReadTime(r)
             \/ LookUp(r) \/ Build(r) \/ Keep(r) \/ Respond(r)
      PROVE  IInv'
  <2>1. OwnStep(r)
    BY <1>5, BeginKeeps, CopyTimeKeeps, PickKeeps, ReadRevisionKeeps,
       ReadRestKeeps, LookUpKeeps, BuildKeeps, KeepKeeps, RespondKeeps
  <2>2. QED
    BY <2>1, OwnStepKeeps
<1>6. CASE LoseRedis \/ \E s \in late : LandLate(s)
  BY <1>6, FaultKeeps
<1>7. CASE Restart
  BY <1>7, RestartKeeps
<1>8. CASE UNCHANGED vars
  <2>1. UNCHANGED <<mem, loop, event, redis, late, cache, pc, copy, source, id,
                    answer, events, whole, acked, floor>>
    BY <1>8 DEF vars, process, store, locals
  <2>2. Known' = Known /\ Documents' = Documents
    BY <2>1 DEF Known, Documents
  <2>3. TypeOK' /\ MemoryOK'
    BY <2>1 DEF IInv, TypeOK, MemoryOK, AtLeast
  <2>4. KnownOK'
    BY <2>1, <2>2 DEF IInv, KnownOK, Before, Covers, AtLeast
  <2>5. TimesOK'
    BY <2>1, <2>2 DEF IInv, TimesOK, AtLeast
  <2>6. RedisOK'
    BY <2>1 DEF IInv, RedisOK, Covers, AtLeast, Empty
  <2>7. Around
    BY <2>1, <2>2, Numbers DEF IInv, Around, Before
  <2>8. CacheOK' /\ \A r \in Reader : ReaderOK(r)'
    BY <2>1, <2>3, <2>7, LoopKeeps DEF LoopFrame, locals
  <2>9. QED
    BY <2>3, <2>4, <2>5, <2>6, <2>8 DEF IInv
<1>9. QED
  BY <1>1, <1>2, <1>3, <1>4, <1>5, <1>6, <1>7, <1>8 DEF Next

(* The invariant holds in every state the program reaches.                 *)
THEOREM InductiveInvariant == Spec => []IInv
<1>1. Init => IInv
  BY InitKeeps
<1>2. IInv /\ [Next]_vars => IInv'
  BY StepKeeps
<1>3. QED
  BY <1>1, <1>2, PTL DEF Spec

(* Every state and every answer is of its type.                            *)
THEOREM TypeCorrect == Spec => []TypeOK
<1>1. IInv => TypeOK
  BY DEF IInv
<1>2. QED
  BY <1>1, InductiveInvariant, PTL

(* CollectorState.ingest counts the revision last and event times grow: no *)
(* reader misses an event ingested before it began, through any fault of   *)
(* Redis and any entry of the service's cache.                             *)
THEOREM IngestedIsRead == Spec => []ReadsWhatIsIngested
<1>1. IInv => ReadsWhatIsIngested
  BY DEF IInv, ReaderOK, Serves, ReadsWhatIsIngested
<1>2. QED
  BY <1>1, InductiveInvariant, PTL

(* If persist_latest_state always succeeds, no reader misses an event that *)
(* was acknowledged before it began, whatever the event times.             *)
THEOREM AcknowledgedIsRead == Spec => []ReadsWhatIsAcknowledged
<1>1. IInv => ReadsWhatIsAcknowledged
  BY DEF IInv, ReaderOK, Serves, Covers, ReadsWhatIsAcknowledged
<1>2. QED
  BY <1>1, InductiveInvariant, PTL
=============================================================================
