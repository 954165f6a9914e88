----------------------------- MODULE RoutesProof -----------------------------
(***************************************************************************)
(* What the routes that read promise: the replays, for any files, rows,    *)
(* seed and times asked for, and the saved views, for any threads, views   *)
(* and restarts.  They are two machines that share nothing, and each       *)
(* theorem is of the specification it names.                               *)
(***************************************************************************)
EXTENDS ReplayReads, SavedViews, FiniteSetTheorems, WellFoundedInduction, TLAPS

\* A set of numbers that is not empty has a least one.
LEMMA LeastIsThere ==
  ASSUME NEW S, S \subseteq Nat, S # {}
  PROVE  \E m \in S : \A n \in S : m <= n
<1> DEFINE Less == {ss \in Nat \X Nat : ss[1] < ss[2]}
<1>1. IsWellFoundedOn(Less, Nat)
  BY NatLessThanWellFounded DEF OpToRel
<1>2. PICK m \in S : \A n \in S : <<n, m>> \notin Less
  <2> HIDE DEF Less
  <2> QED
    BY <1>1, WFMin
<1>3. ASSUME NEW n \in S
      PROVE  m <= n
  <2>1. m \in Nat /\ n \in Nat
    OBVIOUS
  <2>2. ~ n < m
    BY <1>2, <2>1
  <2> QED
    BY <2>1, <2>2
<1> QED
  BY <1>3

-----------------------------------------------------------------------------
(* Orders of finite sets, as the queries sort by them.                     *)

IsOrder(R, S) ==
  \A x, y, z \in S :
    /\ <<x, x>> \notin R
    /\ x # y => <<x, y>> \in R \/ <<y, x>> \in R
    /\ <<x, y>> \in R /\ <<y, z>> \in R => <<x, z>> \in R
Below(R, S, r) == {o \in S : <<o, r>> \in R}
Rank(R, S) == [r \in S |-> Cardinality(Below(R, S, r))]

\* The number of elements before one tells them apart, and takes every value.
LEMMA RankIsPlace ==
  ASSUME NEW S, IsFiniteSet(S), NEW R, IsOrder(R, S)
  PROVE  /\ Rank(R, S) \in [S -> 0 .. Cardinality(S) - 1]
         /\ \A i \in 0 .. Cardinality(S) - 1 : \E r \in S : Rank(R, S)[r] = i
         /\ \A a, b \in S : <<a, b>> \in R <=> Rank(R, S)[a] < Rank(R, S)[b]
<1> DEFINE n == Cardinality(S)
           k == Rank(R, S)
<1>0. n \in Nat
  BY FS_CardinalityType
<1>1. ASSUME NEW r \in S
      PROVE  /\ IsFiniteSet(Below(R, S, r)) /\ k[r] \in 0 .. n - 1
             /\ k[r] = Cardinality(Below(R, S, r))
  <2>1. Below(R, S, r) \subseteq S /\ r \notin Below(R, S, r)
    BY DEF Below, IsOrder
  <2>2. /\ IsFiniteSet(Below(R, S, r)) /\ Cardinality(Below(R, S, r)) <= n
        /\ Cardinality(Below(R, S, r)) # n
    BY <2>1, FS_Subset
  <2>3. Cardinality(Below(R, S, r)) \in Nat
    BY <2>2, FS_CardinalityType
  <2>4. k[r] = Cardinality(Below(R, S, r))
    BY DEF Rank
  <2> QED
    BY <1>0, <2>2, <2>3, <2>4
<1>2. k \in [S -> 0 .. n - 1]
  BY <1>1 DEF Rank
<1>3. ASSUME NEW a \in S, NEW b \in S, <<a, b>> \in R
      PROVE  k[a] < k[b]
  <2>1. Below(R, S, a) \subseteq Below(R, S, b) /\ Below(R, S, a) # Below(R, S, b)
    BY <1>3 DEF Below, IsOrder
  <2>2. /\ Cardinality(Below(R, S, a)) <= Cardinality(Below(R, S, b))
        /\ Cardinality(Below(R, S, a)) # Cardinality(Below(R, S, b))
    BY <1>1, <2>1, FS_Subset
  <2>3. k[a] <= k[b] /\ k[a] # k[b] /\ k[a] \in 0 .. n - 1 /\ k[b] \in 0 .. n - 1
    BY <1>1, <2>2
  <2> QED
    BY <1>0, <2>3
<1>4. ASSUME NEW a \in S, NEW b \in S, k[a] < k[b]
      PROVE  <<a, b>> \in R
  <2>1. k[a] \in Int /\ k[b] \in Int
    BY <1>0, <1>1
  <2>2. a # b /\ <<b, a>> \notin R
    BY <1>3, <1>4, <2>1
  <2> QED
    BY <2>2 DEF IsOrder
<1>5. k \in Injection(S, 0 .. n - 1)
  <2> HIDE DEF k
  <2>1. ASSUME NEW a \in S, NEW b \in S, k[a] = k[b]
        PROVE  a = b
    <3>1. k[a] \in Int
      BY <1>0, <1>1
    <3>2. <<a, b>> \notin R /\ <<b, a>> \notin R
      BY <1>3, <2>1, <3>1
    <3> QED
      BY <3>2 DEF IsOrder
  <2> QED
    BY <1>2, <2>1 DEF Injection, IsInjective
<1>6. k \in Surjection(S, 0 .. n - 1)
  <2>1. IsFiniteSet(0 .. n - 1) /\ Cardinality(0 .. n - 1) = n
    BY <1>0, FS_Interval
  <2> QED
    BY <1>5, <2>1, FS_Injection
<1>7. \A i \in 0 .. n - 1 : \E r \in S : k[r] = i
  BY <1>6 DEF Surjection
<1> QED
  BY <1>2, <1>3, <1>4, <1>7

\* There is one first element of a set that is not empty.
LEMMA FirstIsThere ==
  ASSUME NEW S, IsFiniteSet(S), S # {}, NEW R, IsOrder(R, S)
  PROVE  \E x \in S : /\ {r \in S : \A o \in S \ {r} : <<r, o>> \in R} = {x}
                      /\ \A o \in S \ {x} : <<x, o>> \in R
<1> DEFINE n == Cardinality(S)
           k == Rank(R, S)
<1>1. n \in Nat /\ n # 0
  BY FS_CardinalityType, FS_EmptySet
<1>2. /\ k \in [S -> 0 .. n - 1]
      /\ \A i \in 0 .. n - 1 : \E r \in S : k[r] = i
      /\ \A a, b \in S : <<a, b>> \in R <=> k[a] < k[b]
  BY RankIsPlace
<1> HIDE DEF n, k
<1>3. PICK x \in S : k[x] = 0
  BY <1>1, <1>2
<1>4. ASSUME NEW o \in S \ {x}
      PROVE  <<x, o>> \in R
  <2>1. k[o] \in 0 .. n - 1 /\ ~ k[o] < 0
    BY <1>1, <1>2
  <2>2. <<o, x>> \notin R
    BY <1>2, <1>3, <2>1
  <2> QED
    BY <2>2 DEF IsOrder
<1>5. ASSUME NEW r \in S, \A o \in S \ {r} : <<r, o>> \in R
      PROVE  r = x
  BY <1>4, <1>5 DEF IsOrder
<1> QED
  BY <1>4, <1>5

\* A sequence that has at each place the element of this rank.
LEMMA RankedIsSorted ==
  ASSUME NEW S, IsFiniteSet(S), NEW R, IsOrder(R, S),
         NEW seq \in [1 .. Cardinality(S) -> S],
         \A i \in 1 .. Cardinality(S) : Rank(R, S)[seq[i]] = i - 1
  PROVE  /\ \A r \in S : \E i \in 1 .. Cardinality(S) : seq[i] = r
         /\ \A i, j \in 1 .. Cardinality(S) : i < j <=> <<seq[i], seq[j]>> \in R
<1> DEFINE n == Cardinality(S)
           k == Rank(R, S)
<1>1. n \in Nat
  BY FS_CardinalityType
<1>2. /\ k \in [S -> 0 .. n - 1]
      /\ \A a, b \in S : <<a, b>> \in R <=> k[a] < k[b]
  BY RankIsPlace
<1> HIDE DEF n, k
<1>3. /\ seq \in [1 .. n -> S]
      /\ \A i \in 1 .. n : k[seq[i]] = i - 1
  BY DEF n, k
<1>4. ASSUME NEW r \in S
      PROVE  \E i \in 1 .. n : seq[i] = r
  <2> DEFINE i == k[r] + 1
  <2>1. i \in 1 .. n /\ i - 1 = k[r]
    BY <1>1, <1>2
  <2> HIDE DEF i
  <2>2. k[seq[i]] = i - 1 /\ seq[i] \in S /\ k[r] \in 0 .. n - 1
    BY <1>2, <1>3, <2>1
  <2>3. <<seq[i], r>> \notin R /\ <<r, seq[i]>> \notin R
    BY <1>1, <1>2, <2>1, <2>2
  <2>4. seq[i] = r
    BY <2>2, <2>3 DEF IsOrder
  <2> QED
    BY <1>3, <2>1, <2>4
<1>5. ASSUME NEW i \in 1 .. n, NEW j \in 1 .. n
      PROVE  i < j <=> <<seq[i], seq[j]>> \in R
  <2>1. seq[i] \in S /\ seq[j] \in S /\ k[seq[i]] = i - 1 /\ k[seq[j]] = j - 1
    BY <1>3
  <2>2. i < j <=> i - 1 < j - 1
    BY <1>1
  <2> QED
    BY <1>2, <2>1, <2>2
<1> QED
  BY <1>4, <1>5 DEF n

\* A set of at most one element as a sequence.
LEMMA SequenceOfNone == SetToSeq({}) = <<>>
  BY FS_EmptySet DEF SetToSeq, IsInjective

\* A set of one element is the sequence of it.
LEMMA SequenceOfOne ==
  ASSUME NEW x
  PROVE  SetToSeq({x}) = <<x>> /\ Rows(<<x>>) = {x} /\ <<x>> # <<>>
<1>1. Cardinality({x}) = 1
  BY FS_Singleton
<1>2. \A f \in [1 .. 1 -> {x}] : f = <<x>>
  OBVIOUS
<1>3. <<x>> \in [1 .. 1 -> {x}] /\ IsInjective(<<x>>)
  BY DEF IsInjective
<1>4. SetToSeq({x}) = <<x>>
  <2>1. SetToSeq({x}) = CHOOSE f \in [1 .. 1 -> {x}] : IsInjective(f)
    BY <1>1 DEF SetToSeq
  <2>2. SetToSeq({x}) \in [1 .. 1 -> {x}]
    BY <1>3, <2>1
  <2> QED
    BY <1>2, <2>2
<1>5. Rows(<<x>>) = {x} /\ <<x>> # <<>>
  BY DEF Rows
<1> QED
  BY <1>4, <1>5

-----------------------------------------------------------------------------
(* Files that pass the validation: ParquetReader.                          *)

\* The two tables of a pair of files are sequences of rows.
LEMMA FilesAreRows ==
  ASSUME NEW f \in Files
  PROVE  /\ f.snapshots \in Seq(SnapshotRow) /\ f.quotes \in Seq(QuoteRow)
         /\ Len(f.snapshots) \in Nat /\ DOMAIN f.snapshots = 1 .. Len(f.snapshots)
         /\ Len(f.quotes) \in Nat /\ DOMAIN f.quotes = 1 .. Len(f.quotes)
         /\ f.snapshots # <<>> => Len(f.snapshots) # 0
         /\ \A i \in DOMAIN f.snapshots : f.snapshots[i] \in SnapshotRow
         /\ \A i \in DOMAIN f.quotes : f.quotes[i] \in QuoteRow
<1>1. f.snapshots \in Seq(SnapshotRow) /\ f.quotes \in Seq(QuoteRow)
  BY FilesAssumption
<1> QED
  BY <1>1

\* What the errors are, one by one.
LEMMA NoErrors ==
  ASSUME NEW f, Accepted(f)
  PROVE  /\ f.snapshots # <<>>
         /\ \A r \in Rows(f.snapshots) : ~SnapshotIsBad(r)
         /\ \A q \in Rows(f.quotes) : ~QuoteIsBad(q)
         /\ Duplicates(Column(f.snapshots, "id")) = {}
         /\ Cardinality(Expiries(f.snapshots)) = 1 /\ Cardinality(Expiries(f.quotes)) = 1
         /\ \/ Expiries(f.snapshots) = {} \/ Expiries(f.quotes) = {}
            \/ Expiries(f.snapshots) = Expiries(f.quotes)
         /\ Ids(f.quotes) \subseteq Ids(f.snapshots)
<1> DEFINE Complains(e) ==
             CASE e = "bad row" -> \/ \E r \in Rows(f.snapshots) : SnapshotIsBad(r)
                                 \/ \E q \in Rows(f.quotes) : QuoteIsBad(q)
               [] e = "expiries" -> Cardinality(Expiries(f.snapshots)) # 1
               [] e = "duplicate ids" -> Duplicates(Column(f.snapshots, "id")) # {}
               [] e = "quote expiries" -> Cardinality(Expiries(f.quotes)) # 1
               [] e = "mismatch" -> /\ Expiries(f.snapshots) # {} /\ Expiries(f.quotes) # {}
                                    /\ Expiries(f.snapshots) # Expiries(f.quotes)
               [] e = "no snapshot" -> ~(Ids(f.quotes) \subseteq Ids(f.snapshots))
               [] e = "no valid quote" -> ~\E i \in Counted(f) : IsValid(f.quotes[i])
           All == {"bad row", "expiries", "duplicate ids", "quote expiries", "mismatch",
                   "no snapshot", "no valid quote"}
<1>1. /\ f.readable /\ f.snapshots # <<>>
      /\ {e \in All : Complains(e)} = {}
  BY DEF Accepted, Errors
<1>2. \A e \in All : ~Complains(e)
  <2> HIDE DEF Complains, All
  <2> QED
    BY <1>1
<1>3. /\ ~Complains("bad row") /\ ~Complains("expiries") /\ ~Complains("duplicate ids")
      /\ ~Complains("quote expiries") /\ ~Complains("mismatch") /\ ~Complains("no snapshot")
  <2> HIDE DEF Complains
  <2> QED
    BY <1>2
<1>4. Complains("bad row") <=> \/ \E r \in Rows(f.snapshots) : SnapshotIsBad(r)
                               \/ \E q \in Rows(f.quotes) : QuoteIsBad(q)
  OBVIOUS
<1>5. Complains("expiries") <=> Cardinality(Expiries(f.snapshots)) # 1
  OBVIOUS
<1>6. Complains("duplicate ids") <=> Duplicates(Column(f.snapshots, "id")) # {}
  OBVIOUS
<1>7. Complains("quote expiries") <=> Cardinality(Expiries(f.quotes)) # 1
  OBVIOUS
<1>8. Complains("mismatch") <=> /\ Expiries(f.snapshots) # {} /\ Expiries(f.quotes) # {}
                                /\ Expiries(f.snapshots) # Expiries(f.quotes)
  OBVIOUS
<1>9. Complains("no snapshot") <=> ~(Ids(f.quotes) \subseteq Ids(f.snapshots))
  OBVIOUS
<1> HIDE DEF Complains
<1> QED
  BY <1>1, <1>3, <1>4, <1>5, <1>6, <1>7, <1>8, <1>9

\* The ids of the snapshots tell them apart, and every quote has one of them.
LEMMA AcceptedIds ==
  ASSUME NEW f \in Files, Accepted(f)
  PROVE  /\ Len(f.snapshots) # 0
         /\ \A i \in DOMAIN f.snapshots : f.snapshots[i].id # Bad /\ f.snapshots[i].time \in Time
         /\ \A i \in DOMAIN f.quotes : f.quotes[i].id # Bad
         /\ \A i, j \in DOMAIN f.snapshots : f.snapshots[i].id = f.snapshots[j].id => i = j
         /\ \A i \in DOMAIN f.quotes :
              \E j \in DOMAIN f.snapshots : f.quotes[i].id = f.snapshots[j].id
<1> DEFINE S == f.snapshots
           Q == f.quotes
<1>1. ASSUME NEW i \in DOMAIN S
      PROVE  S[i].id # Bad /\ S[i].time \in Time
  <2>1. ~SnapshotIsBad(S[i]) /\ S[i] \in SnapshotRow
    BY NoErrors, FilesAreRows DEF Rows
  <2> QED
    BY <2>1 DEF SnapshotIsBad, IdIsBad, TimeIsBad, SnapshotRow
<1>2. ASSUME NEW i \in DOMAIN Q
      PROVE  Q[i].id # Bad
  <2>1. ~QuoteIsBad(Q[i])
    BY NoErrors DEF Rows
  <2> QED
    BY <2>1 DEF QuoteIsBad, SnapshotIsBad, IdIsBad
<1>3. ASSUME NEW i \in DOMAIN S, NEW j \in DOMAIN S, i < j
      PROVE  S[i].id # S[j].id
  <2> DEFINE C == Column(S, "id")
  <2>1. /\ DOMAIN C = DOMAIN S /\ C[i] = S[i].id /\ C[j] = S[j].id
        /\ Duplicates(C) = {}
    BY NoErrors DEF Column
  <2>2. C[j] # Bad
    BY <1>1, <2>1
  <2>3. i \in 1 .. j - 1
    BY <1>3, FilesAreRows
  <2> HIDE DEF C
  <2>4. C[i] = C[j] => C[j] \in Duplicates(C)
    BY <2>1, <2>2, <2>3 DEF Duplicates
  <2> QED
    BY <2>1, <2>4
<1>4. ASSUME NEW i \in DOMAIN S, NEW j \in DOMAIN S, S[i].id = S[j].id
      PROVE  i = j
  <2>1. i \in Nat /\ j \in Nat
    BY FilesAreRows
  <2>2. ~ i < j /\ ~ j < i
    BY <1>3, <1>4
  <2> QED
    BY <2>1, <2>2
<1>5. ASSUME NEW i \in DOMAIN Q
      PROVE  \E j \in DOMAIN S : Q[i].id = S[j].id
  <2>1. Q[i].id \in Ids(Q)
    BY <1>2 DEF Ids, Rows
  <2>2. Q[i].id \in Ids(S)
    BY <2>1, NoErrors
  <2> QED
    BY <2>2 DEF Ids, Rows
<1>6. Len(S) # 0
  BY NoErrors, FilesAreRows
<1> QED
  BY <1>1, <1>2, <1>4, <1>5, <1>6

\* All rows are of one expiry.
LEMMA AcceptedExpiry ==
  ASSUME NEW f \in Files, Accepted(f)
  PROVE  \A i \in DOMAIN f.quotes, j \in DOMAIN f.snapshots :
           f.quotes[i].expiry = f.snapshots[j].expiry
<1> DEFINE S == f.snapshots
           Q == f.quotes
<1>1. ASSUME NEW j \in DOMAIN S
      PROVE  S[j].expiry \in Expiries(S)
  <2>1. ~SnapshotIsBad(S[j]) /\ S[j] \in Rows(S)
    BY NoErrors DEF Rows
  <2> QED
    BY <2>1 DEF Expiries, SnapshotIsBad, ExpiryIsBad
<1>2. ASSUME NEW i \in DOMAIN Q
      PROVE  Q[i].expiry \in Expiries(Q)
  <2>1. ~QuoteIsBad(Q[i]) /\ Q[i] \in Rows(Q)
    BY NoErrors DEF Rows
  <2> QED
    BY <2>1 DEF Expiries, QuoteIsBad, SnapshotIsBad, ExpiryIsBad
<1>3. IsFiniteSet(Expiries(S))
  <2>1. IsFiniteSet(DOMAIN S)
    <3>1. Len(S) \in Int /\ DOMAIN S = 1 .. Len(S)
      BY FilesAreRows
    <3>2. IsFiniteSet(1 .. Len(S))
      BY <3>1, FS_Interval
    <3> QED
      BY <3>1, <3>2
  <2> DEFINE g == [i \in DOMAIN S |-> S[i].expiry]
             E == {S[i].expiry : i \in DOMAIN S}
  <2>2. g \in Surjection(DOMAIN S, E)
    BY DEF Surjection
  <2>3. IsFiniteSet(E)
    BY <2>1, <2>2, FS_Surjection
  <2>4. Expiries(S) \subseteq E
    BY DEF Expiries, Rows
  <2> QED
    BY <2>3, <2>4, FS_Subset
<1>4. PICK e : Expiries(S) = {e}
  BY <1>3, NoErrors, FS_Singleton
<1>5. ASSUME NEW i \in DOMAIN Q, NEW j \in DOMAIN S
      PROVE  Q[i].expiry = S[j].expiry
  <2>1. Expiries(Q) = {e}
    BY <1>2, <1>4, NoErrors
  <2> QED
    BY <1>1, <1>2, <1>4, <2>1
<1> QED
  BY <1>5

\* So every quote has one snapshot.
LEMMA AcceptedQuotes ==
  ASSUME NEW f \in Files, Accepted(f), NEW i \in DOMAIN f.quotes
  PROVE  Cardinality({j \in DOMAIN f.snapshots : f.quotes[i].id = f.snapshots[j].id
                                              /\ f.quotes[i].expiry = f.snapshots[j].expiry}) = 1
<1>1. PICK j \in DOMAIN f.snapshots : f.quotes[i].id = f.snapshots[j].id
  BY AcceptedIds
<1>2. \A k \in DOMAIN f.snapshots : f.quotes[i].id = f.snapshots[k].id => k = j
  BY <1>1, AcceptedIds
<1>3. {k \in DOMAIN f.snapshots : f.quotes[i].id = f.snapshots[k].id
                                /\ f.quotes[i].expiry = f.snapshots[k].expiry} = {j}
  BY <1>1, <1>2, AcceptedExpiry
<1> QED
  BY <1>3, FS_Singleton

-----------------------------------------------------------------------------
(* The queries of an import: ReplayReads.                                  *)

PlacesOK ==
  IsFiniteSet(Places) /\ \A i \in Places : i \in Nat /\ TimeOf(i) \in Nat

\* The orders of the places: the later time, the earlier and the later time
\* and place.
Later(i, j) == TimeOf(i) > TimeOf(j) \/ (TimeOf(i) = TimeOf(j) /\ i < j)
Earlier(i, j) == TimeOf(i) < TimeOf(j) \/ (TimeOf(i) = TimeOf(j) /\ i < j)
Newer(i, j) == TimeOf(i) > TimeOf(j) \/ (TimeOf(i) = TimeOf(j) /\ i > j)

\* The last of the places before a time, and the first of those after it.
LEMMA CandidateBefore ==
  ASSUME PlacesOK, NEW at, \E i \in Places : TimeOf(i) <= at
  PROVE  \E x \in Places :
           /\ BeforeCandidate(at) = {x} /\ TimeOf(x) <= at
           /\ \A o \in Places : TimeOf(o) <= at =>
                TimeOf(x) > TimeOf(o) \/ (TimeOf(x) = TimeOf(o) /\ x <= o)
<1> DEFINE S == {i \in Places : TimeOf(i) <= at}
<1> DEFINE R == {p \in Places \X Places : Later(p[1], p[2])}
<1>1. \A i, j \in Places : <<i, j>> \in R <=> Later(i, j)
  OBVIOUS
<1> HIDE DEF R
<1>2. IsFiniteSet(S) /\ S # {} /\ S \subseteq Places
  BY FS_Subset DEF PlacesOK
<1>3. ASSUME NEW x \in Places, NEW y \in Places, NEW z \in Places
      PROVE  /\ ~Later(x, x)
             /\ x # y => Later(x, y) \/ Later(y, x)
             /\ Later(x, y) /\ Later(y, z) => Later(x, z)
  BY DEF PlacesOK, Later
<1>4. IsOrder(R, S)
  BY <1>1, <1>2, <1>3 DEF IsOrder
<1>5. PICK x \in S : /\ {r \in S : \A o \in S \ {r} : <<r, o>> \in R} = {x}
                     /\ \A o \in S \ {x} : <<x, o>> \in R
  <2> HIDE DEF S
  <2> QED
    BY <1>2, <1>4, FirstIsThere
<1>6. /\ {r \in S : \A o \in S \ {r} : Later(r, o)} = {x}
      /\ \A o \in S \ {x} : Later(x, o)
  <2>1. S \subseteq Places
    BY <1>2
  <2> QED
    BY <1>1, <1>5, <2>1
<1>7. BeforeCandidate(at) = {r \in S : \A o \in S \ {r} : Later(r, o)}
  BY DEF BeforeCandidate, FirstBy, Later
<1>8. \A o \in S : TimeOf(x) > TimeOf(o) \/ (TimeOf(x) = TimeOf(o) /\ x <= o)
  BY <1>6 DEF Later, PlacesOK
<1> QED
  BY <1>6, <1>7, <1>8

\* The candidate after a time is the first place of the least time.
LEMMA CandidateAfter ==
  ASSUME PlacesOK, NEW at, \E i \in Places : TimeOf(i) >= at
  PROVE  \E x \in Places :
           /\ AfterCandidate(at) = {x} /\ TimeOf(x) >= at
           /\ \A o \in Places : TimeOf(o) >= at =>
                TimeOf(x) < TimeOf(o) \/ (TimeOf(x) = TimeOf(o) /\ x <= o)
<1> DEFINE S == {i \in Places : TimeOf(i) >= at}
<1> DEFINE R == {p \in Places \X Places : Earlier(p[1], p[2])}
<1>1. \A i, j \in Places : <<i, j>> \in R <=> Earlier(i, j)
  OBVIOUS
<1> HIDE DEF R
<1>2. IsFiniteSet(S) /\ S # {} /\ S \subseteq Places
  BY FS_Subset DEF PlacesOK
<1>3. ASSUME NEW x \in Places, NEW y \in Places, NEW z \in Places
      PROVE  /\ ~Earlier(x, x)
             /\ x # y => Earlier(x, y) \/ Earlier(y, x)
             /\ Earlier(x, y) /\ Earlier(y, z) => Earlier(x, z)
  BY DEF PlacesOK, Earlier
<1>4. IsOrder(R, S)
  BY <1>1, <1>2, <1>3 DEF IsOrder
<1>5. PICK x \in S : /\ {r \in S : \A o \in S \ {r} : <<r, o>> \in R} = {x}
                     /\ \A o \in S \ {x} : <<x, o>> \in R
  <2> HIDE DEF S
  <2> QED
    BY <1>2, <1>4, FirstIsThere
<1>6. /\ {r \in S : \A o \in S \ {r} : Earlier(r, o)} = {x}
      /\ \A o \in S \ {x} : Earlier(x, o)
  <2>1. S \subseteq Places
    BY <1>2
  <2> QED
    BY <1>1, <1>5, <2>1
<1>7. AfterCandidate(at) = {r \in S : \A o \in S \ {r} : Earlier(r, o)}
  BY DEF AfterCandidate, FirstBy, Earlier
<1>8. \A o \in S : TimeOf(x) < TimeOf(o) \/ (TimeOf(x) = TimeOf(o) /\ x <= o)
  BY <1>6 DEF Earlier, PlacesOK
<1> QED
  BY <1>6, <1>7, <1>8

\* Without a time the last place of the greatest time is shown.
LEMMA LatestIsThere ==
  ASSUME PlacesOK, Places # {}
  PROVE  \E x \in Places : Latest = {x} /\ \A o \in Places : TimeOf(o) <= TimeOf(x)
<1> DEFINE S == Places
<1> DEFINE R == {p \in Places \X Places : Newer(p[1], p[2])}
<1>1. \A i, j \in Places : <<i, j>> \in R <=> Newer(i, j)
  OBVIOUS
<1> HIDE DEF R
<1>2. IsFiniteSet(S) /\ S # {} /\ S \subseteq Places
  BY FS_Subset DEF PlacesOK
<1>3. ASSUME NEW x \in Places, NEW y \in Places, NEW z \in Places
      PROVE  /\ ~Newer(x, x)
             /\ x # y => Newer(x, y) \/ Newer(y, x)
             /\ Newer(x, y) /\ Newer(y, z) => Newer(x, z)
  BY DEF PlacesOK, Newer
<1>4. IsOrder(R, S)
  BY <1>1, <1>2, <1>3 DEF IsOrder
<1>5. PICK x \in S : /\ {r \in S : \A o \in S \ {r} : <<r, o>> \in R} = {x}
                     /\ \A o \in S \ {x} : <<x, o>> \in R
  <2> HIDE DEF S
  <2> QED
    BY <1>2, <1>4, FirstIsThere
<1>6. /\ {r \in S : \A o \in S \ {r} : Newer(r, o)} = {x}
      /\ \A o \in S \ {x} : Newer(x, o)
  <2>1. S \subseteq Places
    BY <1>2
  <2> QED
    BY <1>1, <1>5, <2>1
<1>7. Latest = {r \in S : \A o \in S \ {r} : Newer(r, o)}
  BY DEF Latest, FirstBy, Newer
<1>8. \A o \in S : TimeOf(o) <= TimeOf(x)
  BY <1>6 DEF Newer, PlacesOK
<1> QED
  BY <1>6, <1>7, <1>8

\* Which of two places is shown for a time.
LEMMA NearerOfTwo ==
  ASSUME PlacesOK, NEW at \in Nat, NEW S, S \subseteq Places, S # {}
  PROVE  \E x \in S : /\ FirstBy(S, LAMBDA i, j : Nearer(at, i, j)) = {x}
                      /\ \A o \in S \ {x} : Nearer(at, x, o)
<1> DEFINE R == {p \in Places \X Places : Nearer(at, p[1], p[2])}
<1>1. \A i, j \in Places : <<i, j>> \in R <=> Nearer(at, i, j)
  OBVIOUS
<1> HIDE DEF R
<1>2. IsFiniteSet(S) /\ S # {} /\ S \subseteq Places
  BY FS_Subset DEF PlacesOK
<1>3. ASSUME NEW x \in Places, NEW y \in Places, NEW z \in Places
      PROVE  /\ ~Nearer(at, x, x)
             /\ x # y => Nearer(at, x, y) \/ Nearer(at, y, x)
             /\ Nearer(at, x, y) /\ Nearer(at, y, z) => Nearer(at, x, z)
  <2>1. \A i \in Places : Distance(TimeOf(i), at) \in Nat /\ i \in Nat
    BY DEF PlacesOK, Distance
  <2> QED
    BY <2>1 DEF Nearer
<1>4. IsOrder(R, S)
  BY <1>1, <1>2, <1>3 DEF IsOrder
<1>5. PICK x \in S : /\ {r \in S : \A o \in S \ {r} : <<r, o>> \in R} = {x}
                     /\ \A o \in S \ {x} : <<x, o>> \in R
  BY <1>2, <1>4, FirstIsThere
<1>6. /\ {r \in S : \A o \in S \ {r} : Nearer(at, r, o)} = {x}
      /\ \A o \in S \ {x} : Nearer(at, x, o)
  <2>1. S \subseteq Places
    BY <1>2
  <2> QED
    BY <1>1, <1>5, <2>1
<1>7. FirstBy(S, LAMBDA i, j : Nearer(at, i, j)) = {x}
  BY <1>6 DEF FirstBy
<1> QED
  BY <1>6, <1>7

\* The nearest of two candidates is the nearest of all.
LEMMA NearestOfAll ==
  ASSUME PlacesOK, Places # {}, NEW at \in Nat, at # None
  PROVE  \E x \in Places : /\ NearestImported(at) = {x}
                           /\ \A j \in Places :
                                \/ Distance(TimeOf(x), at) < Distance(TimeOf(j), at)
                                \/ Distance(TimeOf(x), at) = Distance(TimeOf(j), at) /\ x <= j
<1> DEFINE C == BeforeCandidate(at) \cup AfterCandidate(at)
           Best(x, j) == \/ Distance(TimeOf(x), at) < Distance(TimeOf(j), at)
                         \/ Distance(TimeOf(x), at) = Distance(TimeOf(j), at) /\ x <= j
<1>0. \A i \in Places : i \in Nat /\ TimeOf(i) \in Nat /\ Distance(TimeOf(i), at) \in Nat
  BY DEF PlacesOK, Distance
<1>1. C \subseteq Places
  BY DEF BeforeCandidate, AfterCandidate, FirstBy
<1>2. ASSUME NEW j \in Places
      PROVE  \E c \in C : Best(c, j)
  <2>1. CASE TimeOf(j) <= at
    <3>1. PICK c \in Places : /\ BeforeCandidate(at) = {c} /\ TimeOf(c) <= at
                              /\ TimeOf(c) > TimeOf(j) \/ (TimeOf(c) = TimeOf(j) /\ c <= j)
      BY <2>1, CandidateBefore
    <3>2. Best(c, j)
      BY <1>0, <2>1, <3>1 DEF Distance
    <3> QED
      BY <3>1, <3>2
  <2>2. CASE TimeOf(j) >= at
    <3>1. PICK c \in Places : /\ AfterCandidate(at) = {c} /\ TimeOf(c) >= at
                              /\ TimeOf(c) < TimeOf(j) \/ (TimeOf(c) = TimeOf(j) /\ c <= j)
      BY <2>2, CandidateAfter
    <3>2. Best(c, j)
      BY <1>0, <2>2, <3>1 DEF Distance
    <3> QED
      BY <3>1, <3>2
  <2> QED
    BY <1>0, <2>1, <2>2
<1>3. PICK x \in C : /\ FirstBy(C, LAMBDA i, j : Nearer(at, i, j)) = {x}
                     /\ \A o \in C \ {x} : Nearer(at, x, o)
  BY <1>1, <1>2, NearerOfTwo
<1>4. NearestImported(at) = {x}
  BY <1>3 DEF NearestImported
<1>5. ASSUME NEW j \in Places
      PROVE  Best(x, j)
  <2>1. PICK c \in C : Best(c, j)
    BY <1>2
  <2>2. x = c \/ Nearer(at, x, c)
    BY <1>3
  <2>3. x \in Places /\ c \in Places
    BY <1>1
  <2> QED
    BY <1>0, <2>1, <2>2, <2>3 DEF Nearer
<1> QED
  BY <1>1, <1>4, <1>5

\* What an import shows without a source snapshot id.
LEMMA NearestOfImport ==
  ASSUME PlacesOK, Places # {}, NEW at \in At \cup {None}
  PROVE  \E x \in Places :
           /\ NearestImported(at) = {x}
           /\ \A j \in Places :
                IF at = None THEN TimeOf(j) <= TimeOf(x)
                ELSE \/ Distance(TimeOf(x), at) < Distance(TimeOf(j), at)
                     \/ Distance(TimeOf(x), at) = Distance(TimeOf(j), at) /\ x <= j
<1>1. CASE at = None
  BY <1>1, LatestIsThere DEF NearestImported
<1>2. CASE at # None
  <2>1. at \in Nat
    BY <1>2, AtAssumption
  <2> QED
    BY <1>2, <2>1, NearestOfAll
<1> QED
  BY <1>1, <1>2

\* Numbers in order.
LEMMA NumbersInOrder ==
  ASSUME NEW S, S \subseteq Nat, IsFiniteSet(S)
  PROVE  /\ Cardinality(S) \in Nat /\ DOMAIN InOrder(S) = 1 .. Cardinality(S)
         /\ InOrder(S) \in Seq(S) /\ Len(InOrder(S)) = Cardinality(S)
         /\ \A r \in S : \E i \in DOMAIN InOrder(S) : InOrder(S)[i] = r
         /\ \A i, j \in DOMAIN InOrder(S) : i < j <=> InOrder(S)[i] < InOrder(S)[j]
<1> DEFINE R == {p \in Nat \X Nat : p[1] < p[2]}
           n == Cardinality(S)
           Chosen(i) == CHOOSE r \in S : Cardinality({o \in S : o < r}) = i - 1
           seq == [i \in 1 .. n |-> Chosen(i)]
<1>0. \A i, j \in Nat : <<i, j>> \in R <=> i < j
  OBVIOUS
<1> HIDE DEF R
<1>1. IsOrder(R, S)
  <2>1. ASSUME NEW x \in S, NEW y \in S, NEW z \in S
        PROVE  /\ ~ x < x
               /\ x # y => x < y \/ y < x
               /\ x < y /\ y < z => x < z
    OBVIOUS
  <2> QED
    BY <1>0, <2>1 DEF IsOrder
<1>2. n \in Nat
  BY FS_CardinalityType
<1> DEFINE k == Rank(R, S)
<1>9. \A i \in 0 .. n - 1 : \E r \in S : k[r] = i
  BY <1>1, RankIsPlace
<1>3. \A r \in S : k[r] = Cardinality({o \in S : o < r})
  <2>1. \A r \in S : Below(R, S, r) = {o \in S : o < r}
    BY <1>0 DEF Below
  <2> QED
    BY <2>1 DEF Rank
<1>4. ASSUME NEW i \in 1 .. n
      PROVE  Chosen(i) \in S /\ k[Chosen(i)] = i - 1
  <2>1. i - 1 \in 0 .. n - 1
    BY <1>2
  <2>2. \E r \in S : k[r] = i - 1
    BY <2>1, <1>9
  <2>3. \E r \in S : Cardinality({o \in S : o < r}) = i - 1
    BY <1>3, <2>2
  <2>4. Chosen(i) \in S /\ Cardinality({o \in S : o < Chosen(i)}) = i - 1
    BY <2>3
  <2> QED
    BY <1>3, <2>4
<1>5. InOrder(S) = seq
  BY DEF InOrder, SortedBy
<1> HIDE DEF Chosen
<1>6. seq \in [1 .. n -> S] /\ \A i \in 1 .. n : k[seq[i]] = i - 1
  BY <1>4
<1> HIDE DEF seq
<1>7. /\ \A r \in S : \E i \in DOMAIN seq : seq[i] = r
      /\ \A i, j \in DOMAIN seq : i < j <=> <<seq[i], seq[j]>> \in R
      /\ DOMAIN seq = 1 .. n /\ Len(seq) = n /\ seq \in Seq(S)
  <2>1. /\ seq \in [1 .. Cardinality(S) -> S]
        /\ \A i \in 1 .. Cardinality(S) : Rank(R, S)[seq[i]] = i - 1
    BY <1>6
  <2>2. /\ \A r \in S : \E i \in 1 .. Cardinality(S) : seq[i] = r
        /\ \A i, j \in 1 .. Cardinality(S) : i < j <=> <<seq[i], seq[j]>> \in R
    BY <1>1, <2>1, RankedIsSorted
  <2>3. DOMAIN seq = 1 .. n /\ Len(seq) = n /\ seq \in Seq(S)
    BY <1>2, <1>6
  <2> QED
    BY <2>2, <2>3
<1>8. \A i, j \in DOMAIN seq : i < j <=> seq[i] < seq[j]
  <2>1. \A i \in DOMAIN seq : seq[i] \in Nat
    BY <1>6
  <2> QED
    BY <1>0, <1>7, <2>1
<1> QED
  BY <1>2, <1>5, <1>7, <1>8

\* An interval in order is itself.
LEMMA IntervalInOrder ==
  ASSUME NEW a \in Nat, NEW b \in Nat, a <= b + 1
  PROVE  InOrder(a .. b) = [k \in 1 .. b - a + 1 |-> a + k - 1]
<1> DEFINE S == a .. b
           seq == InOrder(S)
           n == b - a + 1
<1>1. n \in Nat /\ S \subseteq Nat /\ IsFiniteSet(S) /\ Cardinality(S) = n
  BY FS_Interval
<1>2. /\ DOMAIN seq = 1 .. n /\ seq \in Seq(S) /\ Len(seq) = n
      /\ \A r \in S : \E i \in DOMAIN seq : seq[i] = r
      /\ \A i, j \in DOMAIN seq : i < j <=> seq[i] < seq[j]
  BY <1>1, NumbersInOrder
<1> HIDE DEF seq
<1>3. \A i \in 1 .. n : seq[i] \in S
  BY <1>2
<1>4. ASSUME NEW k \in 1 .. n, seq[k] # a + k - 1,
             \A m \in 1 .. n : m < k => seq[m] = a + m - 1
      PROVE  FALSE
  <2>1. a + k - 1 \in S
    BY <1>1
  <2>2. PICK i \in 1 .. n : seq[i] = a + k - 1
    BY <1>2, <2>1
  <2>3. i # k /\ ~ i < k
    BY <1>4, <2>2
  <2>4. k < i
    BY <1>1, <2>3
  <2>8. seq[k] < seq[i]
    BY <1>2, <2>4
  <2>9. k \in Nat /\ n \in Nat /\ seq[k] \in a .. b
    BY <1>1, <1>3
  <2>5. k \in Nat /\ n \in Nat /\ seq[k] \in Nat /\ seq[k] < a + k - 1 /\ seq[k] >= a
    BY <2>2, <2>8, <2>9
  <2> DEFINE m == seq[k] - a + 1
  <2>7. m \in 1 .. n /\ m < k /\ a + m - 1 = seq[k]
    BY <2>5
  <2> HIDE DEF m
  <2>6. m \in 1 .. n /\ m < k /\ seq[m] = seq[k]
    BY <1>4, <2>7
  <2>10. seq[m] < seq[k]
    BY <1>2, <2>6
  <2> QED
    BY <2>6, <2>9, <2>10
<1>5. \A k \in 1 .. n : seq[k] = a + k - 1
  <2> DEFINE T == {k \in 1 .. n : seq[k] # a + k - 1}
  <2>1. T # {} => \E k \in T : \A m \in T : k <= m
    <3>1. T \subseteq Nat
      BY <1>1
    <3> HIDE DEF T
    <3> QED
      BY <3>1, LeastIsThere
  <2>2. ASSUME NEW k \in T, \A m \in T : k <= m
        PROVE  FALSE
    BY <1>4, <2>2
  <2> QED
    BY <2>1, <2>2
<1>6. seq = [k \in 1 .. n |-> seq[k]]
  BY <1>2
<1>7. seq = [k \in 1 .. n |-> a + k - 1]
  BY <1>5, <1>6
<1> QED
  BY <1>7 DEF seq

-----------------------------------------------------------------------------
(* The queries of the captured rows and of the seed: ReplayReads.          *)

RowsKnown ==
  /\ IsFiniteSet(rows) /\ \A r \in rows : r.id \in Nat /\ r.time \in Nat
  /\ \A r, s \in rows : r.id = s.id => r = s

\* The orders of repository.py: the nearest row first, and that of time.
Far(at, r) == IF at = None THEN 0 ELSE Distance(r.time, at)
NearerRow(at, r, s) ==
  \/ Far(at, r) < Far(at, s)
  \/ Far(at, r) = Far(at, s) /\ (r.time > s.time \/ (r.time = s.time /\ r.id > s.id))
Sooner(r, s) == r.time < s.time \/ (r.time = s.time /\ r.id < s.id)

\* If there is a row, one is shown, and none is nearer.
LEMMA NearestRowIsThere ==
  ASSUME RowsKnown, NEW at \in At \cup {None}, rows # {}
  PROVE  \E x \in rows : NearestRow(at) = {x} /\ \A o \in rows : Far(at, x) <= Far(at, o)
<1> DEFINE R == {p \in rows \X rows : NearerRow(at, p[1], p[2])}
<1>1. \A r, s \in rows : <<r, s>> \in R <=> NearerRow(at, r, s)
  OBVIOUS
<1> HIDE DEF R
<1>2. \A r \in rows : Far(at, r) \in Nat
  BY AtAssumption DEF RowsKnown, Far, Distance
<1>3. ASSUME NEW x \in rows, NEW y \in rows, NEW z \in rows
      PROVE  /\ ~NearerRow(at, x, x)
             /\ x # y => NearerRow(at, x, y) \/ NearerRow(at, y, x)
             /\ NearerRow(at, x, y) /\ NearerRow(at, y, z) => NearerRow(at, x, z)
  <2>1. /\ {Far(at, x), Far(at, y), Far(at, z)} \subseteq Nat
        /\ {x.id, y.id, z.id, x.time, y.time, z.time} \subseteq Nat
        /\ x # y => x.id # y.id
    BY <1>2 DEF RowsKnown
  <2> QED
    BY <2>1 DEF NearerRow
<1>4. IsOrder(R, rows)
  BY <1>1, <1>3 DEF IsOrder
<1>5. PICK x \in rows : /\ {r \in rows : \A o \in rows \ {r} : <<r, o>> \in R} = {x}
                        /\ \A o \in rows \ {x} : <<x, o>> \in R
  BY <1>4, FirstIsThere DEF RowsKnown
<1>6. /\ {r \in rows : \A o \in rows \ {r} : NearerRow(at, r, o)} = {x}
      /\ \A o \in rows \ {x} : NearerRow(at, x, o)
  BY <1>1, <1>5
<1>7. NearestRow(at) = {r \in rows : \A o \in rows \ {r} : NearerRow(at, r, o)}
  BY DEF NearestRow, FirstBy, NearerRow, Far
<1>8. \A o \in rows : Far(at, x) <= Far(at, o)
  BY <1>2, <1>6 DEF NearerRow
<1> QED
  BY <1>6, <1>7, <1>8

\* The rows of a stream are all that there are from the time on, in its order.
LEMMA RowsInOrder ==
  ASSUME RowsKnown, NEW at \in At \cup {None}
  PROVE  LET S == {r \in rows : at = None \/ r.time >= at}
         IN  /\ S \subseteq Rows(RowsFrom(at))
             /\ RowsFrom(at) = <<>> => S = {}
             /\ \A i \in 1 .. Len(RowsFrom(at)) - 1 :
                  RowsFrom(at)[i].time <= RowsFrom(at)[i + 1].time
<1> DEFINE S == {r \in rows : at = None \/ r.time >= at}
           R == {p \in rows \X rows : Sooner(p[1], p[2])}
           n == Cardinality(S)
           Chosen(i) == CHOOSE r \in S : Cardinality({o \in S : Sooner(o, r)}) = i - 1
           seq == [i \in 1 .. n |-> Chosen(i)]
<1>1. \A r, s \in rows : <<r, s>> \in R <=> Sooner(r, s)
  OBVIOUS
<1> HIDE DEF R
<1>2. IsFiniteSet(S) /\ S \subseteq rows /\ n \in Nat
  BY FS_Subset, FS_CardinalityType DEF RowsKnown
<1>3. ASSUME NEW x \in rows, NEW y \in rows, NEW z \in rows
      PROVE  /\ ~Sooner(x, x)
             /\ x # y => Sooner(x, y) \/ Sooner(y, x)
             /\ Sooner(x, y) /\ Sooner(y, z) => Sooner(x, z)
  <2>1. /\ {x.id, y.id, z.id, x.time, y.time, z.time} \subseteq Nat
        /\ x # y => x.id # y.id
    BY DEF RowsKnown
  <2> QED
    BY <2>1 DEF Sooner
<1> DEFINE k == Rank(R, S)
<1>5. RowsFrom(at) = seq
  BY DEF RowsFrom, SortedBy, Sooner
<1> HIDE DEF S
<1>4. IsOrder(R, S)
  BY <1>1, <1>2, <1>3 DEF IsOrder
<1>6. \A i \in 0 .. n - 1 : \E r \in S : k[r] = i
  BY <1>2, <1>4, RankIsPlace
<1>7. \A r \in S : k[r] = Cardinality({o \in S : Sooner(o, r)})
  <2>1. \A r \in S : Below(R, S, r) = {o \in S : Sooner(o, r)}
    BY <1>1, <1>2 DEF Below
  <2> QED
    BY <2>1 DEF Rank
<1>8. ASSUME NEW i \in 1 .. n
      PROVE  Chosen(i) \in S /\ k[Chosen(i)] = i - 1
  <2>1. i - 1 \in 0 .. n - 1
    BY <1>2
  <2>2. \E r \in S : k[r] = i - 1
    BY <2>1, <1>6
  <2>3. \E r \in S : Cardinality({o \in S : Sooner(o, r)}) = i - 1
    BY <1>7, <2>2
  <2>4. Chosen(i) \in S /\ Cardinality({o \in S : Sooner(o, Chosen(i))}) = i - 1
    BY <2>3
  <2> QED
    BY <1>7, <2>4
<1> HIDE DEF Chosen
<1>9. seq \in [1 .. n -> S] /\ \A i \in 1 .. n : k[seq[i]] = i - 1
  BY <1>8
<1> HIDE DEF seq
<1>10. /\ \A r \in S : \E i \in 1 .. n : seq[i] = r
       /\ \A i, j \in 1 .. n : i < j <=> <<seq[i], seq[j]>> \in R
  BY <1>2, <1>4, <1>9, RankedIsSorted
<1>11. DOMAIN seq = 1 .. n /\ Len(seq) = n
  BY <1>2, <1>9
<1>12. S \subseteq Rows(seq)
  BY <1>10, <1>11 DEF Rows
<1>13. seq = <<>> => S = {}
  BY <1>2, <1>10, <1>11
<1>14. ASSUME NEW i \in 1 .. n - 1
       PROVE  seq[i].time <= seq[i + 1].time
  <2>1. i \in 1 .. n /\ i + 1 \in 1 .. n /\ i < i + 1
    BY <1>2
  <2>2. seq[i] \in rows /\ seq[i + 1] \in rows /\ <<seq[i], seq[i + 1]>> \in R
    BY <1>2, <1>9, <1>10, <2>1
  <2>3. Sooner(seq[i], seq[i + 1]) /\ seq[i].time \in Nat /\ seq[i + 1].time \in Nat
    BY <1>1, <2>2 DEF RowsKnown
  <2> QED
    BY <2>3 DEF Sooner
<1> QED
  BY <1>5, <1>11, <1>12, <1>13, <1>14 DEF S

\* The seed has an answer for every time, and a stream of it is empty only if
\* it ends before.
LEMMA SeedNumbers ==
  /\ Len(SeedTimes) \in Nat \ {0} /\ SeedPlaces = 1 .. Len(SeedTimes)
  /\ IsFiniteSet(SeedPlaces) /\ \A i \in SeedPlaces : i \in Nat /\ SeedTimes[i] \in Nat
<1>1. Len(SeedTimes) \in Nat \ {0} /\ SeedPlaces = 1 .. Len(SeedTimes)
  BY SeedAssumption DEF SeedPlaces
<1>2. IsFiniteSet(1 .. Len(SeedTimes))
  BY <1>1, FS_Interval
<1>3. \A i \in SeedPlaces : i \in Nat /\ SeedTimes[i] \in Nat
  BY <1>1, SeedAssumption
<1> QED
  BY <1>1, <1>2, <1>3

NearerSeed(at, i, j) ==
  \/ Distance(SeedTimes[i], at) < Distance(SeedTimes[j], at)
  \/ Distance(SeedTimes[i], at) = Distance(SeedTimes[j], at) /\ i < j

\* The seed has one snapshot for every time.
LEMMA SeedAnswers ==
  ASSUME NEW at \in At \cup {None}
  PROVE  \E x \in SeedPlaces : NearestSeed(at) = {x}
<1>1. CASE at = None
  <2>1. Len(SeedTimes) \in SeedPlaces
    BY SeedNumbers
  <2> QED
    BY <1>1, <2>1 DEF NearestSeed
<1>2. CASE at # None
  <2> DEFINE R == {p \in SeedPlaces \X SeedPlaces : NearerSeed(at, p[1], p[2])}
  <2>1. \A i, j \in SeedPlaces : <<i, j>> \in R <=> NearerSeed(at, i, j)
    OBVIOUS
  <2> HIDE DEF R
  <2>2. \A i \in SeedPlaces : Distance(SeedTimes[i], at) \in Nat /\ i \in Nat
    BY <1>2, AtAssumption, SeedNumbers DEF Distance
  <2>3. IsOrder(R, SeedPlaces)
    <3>1. ASSUME NEW x \in SeedPlaces, NEW y \in SeedPlaces, NEW z \in SeedPlaces
          PROVE  /\ ~NearerSeed(at, x, x)
                 /\ x # y => NearerSeed(at, x, y) \/ NearerSeed(at, y, x)
                 /\ NearerSeed(at, x, y) /\ NearerSeed(at, y, z) => NearerSeed(at, x, z)
      BY <2>2 DEF NearerSeed
    <3> QED
      BY <2>1, <3>1 DEF IsOrder
  <2>4. SeedPlaces # {}
    BY SeedNumbers
  <2>5. PICK x \in SeedPlaces :
          /\ {r \in SeedPlaces : \A o \in SeedPlaces \ {r} : <<r, o>> \in R} = {x}
          /\ \A o \in SeedPlaces \ {x} : <<x, o>> \in R
    <3>1. IsFiniteSet(SeedPlaces)
      BY SeedNumbers
    <3> QED
      BY <2>3, <2>4, <3>1, FirstIsThere
  <2>6. {r \in SeedPlaces : \A o \in SeedPlaces \ {r} : NearerSeed(at, r, o)} = {x}
    BY <2>1, <2>5
  <2>7. NearestSeed(at) = {r \in SeedPlaces : \A o \in SeedPlaces \ {r} : NearerSeed(at, r, o)}
    BY <1>2 DEF NearestSeed, FirstBy, NearerSeed
  <2> QED
    BY <2>6, <2>7
<1> QED
  BY <1>1, <1>2

\* Numbers in order are an empty sequence only if there are none.
LEMMA InOrderOfNone ==
  ASSUME NEW S, S \subseteq Nat, IsFiniteSet(S), InOrder(S) = <<>>
  PROVE  S = {}
<1>1. DOMAIN InOrder(S) = {}
  OBVIOUS
<1> QED
  BY <1>1, NumbersInOrder

\* No numbers in order are the empty sequence.
LEMMA InOrderOfEmpty == InOrder({}) = <<>>
<1>1. DOMAIN InOrder({}) = 1 .. 0 /\ InOrder({}) \in Seq({})
  BY NumbersInOrder, FS_EmptySet
<1> QED
  BY <1>1

\* A stream of the seed is empty only if all of it is before the time.
LEMMA SeedStream ==
  ASSUME NEW at \in At \cup {None}, SeedFrom(at) = <<>>
  PROVE  at # None /\ \A i \in SeedPlaces : SeedTimes[i] < at
<1> DEFINE S == {i \in SeedPlaces : at = None \/ SeedTimes[i] >= at}
<1>1. S \subseteq Nat /\ IsFiniteSet(S)
  BY SeedNumbers, FS_Subset
<1>2. InOrder(S) = <<>>
  BY DEF SeedFrom
<1>3. S = {}
  <2> HIDE DEF S
  <2> QED
    BY <1>1, <1>2, InOrderOfNone
<1>4. SeedPlaces # {}
  BY SeedNumbers
<1>5. at # None
  BY <1>3, <1>4
<1> QED
  BY <1>3, <1>5, SeedNumbers, AtAssumption

-----------------------------------------------------------------------------
(* What the reads of replays promise: ReplayReads.                         *)

TableOf(f) == [i \in DOMAIN Snapshots(f) |-> FrameOf(Snapshots(f)[i], Quotes(f))]
Published == status = "completed" /\ file \in Files /\ Accepted(file) /\ table = TableOf(file)

\* The table of a published import is its file, row by row.
LEMMA TableIsFile ==
  ASSUME Published
  PROVE  /\ table = FramesOfFile
         /\ Places = DOMAIN file.snapshots /\ Places = 1 .. Len(file.snapshots)
         /\ Len(file.snapshots) \in Nat \ {0} /\ PlacesOK
         /\ \A i \in Places : table[i].id = file.snapshots[i].id
<1> DEFINE S == file.snapshots
           Q == file.quotes
<1>1. DOMAIN table = DOMAIN S /\ DOMAIN S = 1 .. Len(S) /\ Len(S) \in Nat \ {0}
  BY FilesAreRows, AcceptedIds DEF Published, TableOf, Snapshots
<1>2. ASSUME NEW i \in DOMAIN S
      PROVE  table[i] = FramesOfFile[i] /\ table[i].id = S[i].id /\ table[i].time = S[i].time
  <2> DEFINE mine == {p \in Quotes(file) : p.id = S[i].id}
             theirs == {r \in Rows(Q) : r.id = S[i].id}
  <2>1. table[i] = [id |-> S[i].id, time |-> S[i].time,
                    quotes |-> {[contract |-> q.contract, valid |-> q.valid] : q \in mine}]
    BY <1>1 DEF Published, TableOf, Snapshots, FrameOf
  <2>2. FramesOfFile[i] = [id |-> S[i].id, time |-> S[i].time,
          quotes |-> {[contract |-> q.contract, valid |-> IsValid(q)] : q \in theirs}]
    BY DEF FramesOfFile
  <2>3. ASSUME NEW q \in mine
        PROVE  \E r \in theirs : r.contract = q.contract /\ IsValid(r) = q.valid
    <3>1. PICK j \in Counted(file) :
            q = [id |-> Q[j].id, order |-> OrderOf(file, Q[j].id),
                 contract |-> Q[j].contract, valid |-> IsValid(Q[j])]
      BY DEF Quotes
    <3>2. Q[j] \in theirs
      BY <3>1 DEF Counted, Rows
    <3> QED
      BY <3>1, <3>2
  <2>4. ASSUME NEW r \in theirs
        PROVE  \E q \in mine : r.contract = q.contract /\ IsValid(r) = q.valid
    <3>1. PICK j \in DOMAIN Q : r = Q[j]
      BY DEF Rows
    <3>2. j \in Counted(file)
      BY AcceptedIds DEF Counted, Published
    <3> DEFINE q == [id |-> Q[j].id, order |-> OrderOf(file, Q[j].id),
                     contract |-> Q[j].contract, valid |-> IsValid(Q[j])]
    <3>3. q \in Quotes(file)
      BY <3>2 DEF Quotes
    <3>4. q \in mine
      BY <3>1, <3>3
    <3> QED
      BY <3>1, <3>4
  <2>5. {[contract |-> q.contract, valid |-> q.valid] : q \in mine}
          = {[contract |-> q.contract, valid |-> IsValid(q)] : q \in theirs}
    <3> HIDE DEF mine, theirs
    <3> QED
      BY <2>3, <2>4
  <2>6. table[i] = FramesOfFile[i]
    <3> HIDE DEF mine, theirs
    <3> QED
      BY <2>1, <2>2, <2>5
  <2> QED
    BY <2>1, <2>6
<1>3. table = FramesOfFile
  <2>1. DOMAIN FramesOfFile = DOMAIN S
    BY DEF FramesOfFile
  <2>2. table = [i \in DOMAIN S |-> table[i]]
    BY DEF Published, TableOf, Snapshots
  <2>3. FramesOfFile = [i \in DOMAIN S |-> FramesOfFile[i]]
    BY DEF FramesOfFile
  <2> QED
    BY <1>2, <2>2, <2>3
<1>4. PlacesOK
  <2>1. ASSUME NEW i \in Places
        PROVE  i \in Nat /\ TimeOf(i) \in Nat
    <3>1. i \in DOMAIN S /\ i \in Nat
      BY <1>1 DEF Places
    <3>2. S[i].time \in Time
      BY <3>1, AcceptedIds DEF Published
    <3> QED
      BY <1>2, <3>1, <3>2, TimeAssumption DEF TimeOf
  <2>2. IsFiniteSet(1 .. Len(S))
    BY <1>1, FS_Interval
  <2> QED
    BY <1>1, <2>1, <2>2 DEF PlacesOK, Places
<1> QED
  BY <1>1, <1>2, <1>3, <1>4 DEF Places

\* A source snapshot id has one place or none.
LEMMA NamedPlace ==
  ASSUME Published, NEW id
  PROVE  \/ ById(id) = {} /\ \A i \in DOMAIN file.snapshots : file.snapshots[i].id # id
         \/ \E i \in Places : ById(id) = {i} /\ file.snapshots[i].id = id
<1>1. \A i, j \in DOMAIN file.snapshots :
        file.snapshots[i].id = file.snapshots[j].id => i = j
  BY AcceptedIds DEF Published
<1>2. ById(id) = {i \in DOMAIN file.snapshots : file.snapshots[i].id = id}
  BY TableIsFile DEF ById
<1> QED
  BY <1>1, <1>2, TableIsFile

\* A part of a sequence, element by element.
LEMMA PartOf ==
  ASSUME NEW s, NEW m \in Nat, NEW n \in Nat
  PROVE  SubSeq(s, m, n) = [k \in 1 .. n - m + 1 |-> s[m + k - 1]]
  OBVIOUS

\* The frames from a place on, in order, are the rest of the file.
LEMMA StreamedFrom ==
  ASSUME Published, NEW id, id # None, NEW at, NEW i \in Places, ById(id) = {i},
         NEW frames, frames = InOrder(Streamed(at, id))
  PROVE  /\ frames # <<>>
         /\ [k \in DOMAIN frames |-> table[frames[k]]]
              = SubSeq(FramesOfFile, i, Len(file.snapshots))
<1> DEFINE n == Len(file.snapshots)
<1>1. n \in Nat /\ i \in 1 .. n /\ Places = 1 .. n
  BY TableIsFile
<1>2. Streamed(at, id) = i .. n
  <2>1. Streamed(at, id) = {k \in Places : \E j \in ById(id) : k >= j}
    BY DEF Streamed
  <2> QED
    BY <1>1, <2>1
<1>3. frames = [k \in 1 .. n - i + 1 |-> i + k - 1]
  BY <1>1, <1>2, IntervalInOrder
<1>4. frames # <<>>
  <2>1. 1 \in 1 .. n - i + 1
    BY <1>1
  <2> HIDE DEF n
  <2>2. 1 \in DOMAIN frames
    BY <1>3, <2>1
  <2> QED
    BY <2>2
<1>5. [k \in DOMAIN frames |-> table[frames[k]]]
        = [k \in 1 .. n - i + 1 |-> FramesOfFile[i + k - 1]]
  <2>1. table = FramesOfFile
    BY TableIsFile
  <2> HIDE DEF n
  <2> QED
    BY <1>3, <2>1
<1>6. SubSeq(FramesOfFile, i, n) = [k \in 1 .. n - i + 1 |-> FramesOfFile[i + k - 1]]
  BY <1>1, PartOf
<1> QED
  BY <1>4, <1>5, <1>6

\* The frame at a place is that part of the file.
LEMMA NamedFrame ==
  ASSUME Published, NEW i \in Places
  PROVE  [k \in DOMAIN <<i>> |-> table[<<i>>[k]]] = SubSeq(FramesOfFile, i, i)
<1>1. table = FramesOfFile /\ i \in Nat
  BY TableIsFile
<1>2. DOMAIN <<i>> = 1 .. 1 /\ \A k \in 1 .. 1 : k = 1 /\ <<i>>[k] = i
  OBVIOUS
<1>3. SubSeq(FramesOfFile, i, i) = [k \in 1 .. 1 |-> FramesOfFile[i + k - 1]]
  <2>1. i - i + 1 = 1
    BY <1>1
  <2> QED
    BY <1>1, <2>1, PartOf
<1>4. \A k \in 1 .. 1 : i + k - 1 = i
  BY <1>1, <1>2
<1> QED
  BY <1>1, <1>2, <1>3, <1>4

\* A stream of a public import is empty only if nothing of it matches.
LEMMA StreamedNone ==
  ASSUME Published, NEW at \in At \cup {None}, NEW id, InOrder(Streamed(at, id)) = <<>>
  PROVE  \/ id # None /\ id \notin Ids(file.snapshots)
         \/ at # None /\ \A i \in Places : TimeOf(i) < at
<1>1. PlacesOK /\ Places # {}
  <2>1. 1 \in 1 .. Len(file.snapshots)
    BY TableIsFile
  <2> QED
    BY <2>1, TableIsFile
<1>2. Streamed(at, id) \subseteq Places
  BY DEF Streamed
<1>3. Streamed(at, id) = {}
  <2>1. Streamed(at, id) \subseteq Nat /\ IsFiniteSet(Streamed(at, id))
    BY <1>1, <1>2, FS_Subset DEF PlacesOK
  <2> QED
    BY <2>1, InOrderOfNone
<1>4. CASE id # None
  <2>1. Streamed(at, id) = {i \in Places : \E j \in ById(id) : i >= j}
    BY <1>4 DEF Streamed
  <2>2. ById(id) = {}
    BY <1>1, <1>3, <2>1 DEF ById, PlacesOK
  <2>3. \A i \in DOMAIN file.snapshots : file.snapshots[i].id # id
    BY <2>2, NamedPlace
  <2> QED
    BY <1>4, <2>3 DEF Ids, Rows
<1>5. CASE id = None /\ at = None
  BY <1>1, <1>3, <1>5 DEF Streamed
<1>6. CASE id = None /\ at # None
  <2>1. {i \in Places : TimeOf(i) >= at} = {}
    BY <1>3, <1>6 DEF Streamed
  <2>2. at \in Nat
    BY <1>6, AtAssumption
  <2> QED
    BY <1>1, <1>6, <2>1, <2>2 DEF PlacesOK
<1> QED
  BY <1>4, <1>5, <1>6

-----------------------------------------------------------------------------
(* The invariant of the reads.                                             *)

ReadsTypes ==
  /\ file \in Files /\ status \in {"uploaded", "accepted", "failed", "completed"}
  /\ rows \subseteq Row /\ had \subseteq Row /\ nextRow \in 1 .. MaxCaptures + 1
  /\ request \in Requests
  /\ pc \in {"idle", "member", "imported", "persisted", "list imported", "list persisted", "answer"}
  /\ answer.from \in {"none", "empty", "unavailable", "estimated", "imported", "captured",
                      "seed", "sessions"}
  /\ listed \in Seq(Sessions) /\ failed \subseteq {"member", "imported", "persisted"}
  /\ public \in BOOLEAN

\* What the validation and the publication leave.
ImportOK ==
  /\ status \in {"accepted", "completed"} => Accepted(file)
  /\ table = IF status = "completed" THEN TableOf(file) ELSE <<>>
  /\ public => status = "completed"

\* Captured rows are told apart by their ids; captures to come are later ones.
RowsOK ==
  /\ IsFiniteSet(rows) /\ \A r \in rows \cup had : r.id < nextRow /\ r.edition < nextRow
  /\ \A r, s \in rows : r.id = s.id => r = s

\* How a request got to where it is.
StepOK ==
  /\ pc \in {"member", "imported"} => request.kind \in {"timestamps", "snapshot", "stream"}
  /\ pc = "imported" => request.session = "imported" /\ status = "completed"
  /\ pc = "persisted" => /\ request.kind \in {"snapshot", "stream"}
                         /\ public /\ request.session = "imported" =>
                              request.id = None /\ "member" \in failed
  /\ pc \in {"list imported", "list persisted"} => request.kind = "sessions"
  /\ pc = "answer" /\ answer.from = "imported" => status = "completed"

\* NothingCapturedIsMissed, by the kind of the request.
FromCaptured ==
  /\ pc = "answer" /\ request.session = "captured" /\ request.id = None
  /\ answer.from \in {"captured", "empty"}
OldRows == had \cap rows
NoneNearer == \A r \in OldRows : \E g \in Given : Far(request.at, g) <= Far(request.at, r)
AllInOrder ==
  /\ \A r \in OldRows : request.at = None \/ r.time >= request.at => r \in Given
  /\ \A i \in 1 .. Len(answer.frames) - 1 : answer.frames[i].time <= answer.frames[i + 1].time
CapturedShown ==
  FromCaptured =>
    /\ request.kind \in {"snapshot", "stream"}
    /\ request.kind = "snapshot" => NoneNearer
    /\ request.kind = "stream" => AllInOrder

Promises == ExactWhenNamed /\ NearestIsNearest /\ CapturedShown /\ AnsweredFromItsOwn

ReadsInv == ReadsTypes /\ ImportOK /\ RowsOK /\ StepOK /\ Promises

\* The fields of a request.
LEMMA RequestFields ==
  ASSUME NEW q \in Requests
  PROVE  /\ q.kind \in {"none", "snapshot", "stream", "timestamps", "sessions"}
         /\ q.at \in At \cup {None} /\ q.session \in Sessions
         /\ q.kind \in {"timestamps", "sessions", "none"} => q.id = None
         /\ q.kind = "sessions" => q.session = "unknown"
  BY DEF Requests, NoRequest, Sessions

\* Nothing is promised before the answer is there.
LEMMA NothingPromised ==
  ASSUME pc' # "answer"
  PROVE  Promises'
  BY DEF Promises, ExactWhenNamed, NearestIsNearest, CapturedShown, FromCaptured,
         AnsweredFromItsOwn, Asked

\* At first nothing is published, captured or asked for.
LEMMA InitReads == Init => ReadsInv
<1> SUFFICES ASSUME Init
             PROVE  ReadsInv
  OBVIOUS
<1> USE DEF Init
<1>1. ReadsTypes
  <2>1. NoRequest \in Requests
    BY DEF Requests
  <2>2. 1 \in 1 .. MaxCaptures + 1
    BY CaptureAssumption
  <2>3. /\ rows \subseteq Row /\ had \subseteq Row
        /\ failed \subseteq {"member", "imported", "persisted"}
    OBVIOUS
  <2>4. listed \in Seq(Sessions)
    OBVIOUS
  <2>5. public \in BOOLEAN
    OBVIOUS
  <2> QED
    BY <2>1, <2>2, <2>3, <2>4, <2>5 DEF ReadsTypes, NoAnswer
<1>2. ImportOK
  BY DEF ImportOK
<1>3. RowsOK
  BY FS_EmptySet DEF RowsOK
<1>4. StepOK
  BY DEF StepOK
<1>5. Promises
  BY DEF Promises, ExactWhenNamed, NearestIsNearest, CapturedShown, FromCaptured,
         AnsweredFromItsOwn, Asked
<1> QED
  BY <1>1, <1>2, <1>3, <1>4, <1>5 DEF ReadsInv

-----------------------------------------------------------------------------
(* The steps of the import, the collector and the retention.               *)

\* The file is validated and published.
LEMMA ImportKeeps ==
  ASSUME ReadsInv, Validate \/ Publish
  PROVE  ReadsInv'
<1> USE DEF ReadsInv
<1>1. ReadsTypes'
  BY DEF ReadsTypes, Validate, Publish, captured, reader
<1>2. ImportOK'
  BY DEF ImportOK, Validate, Publish, captured, reader, TableOf
<1>3. RowsOK'
  BY DEF RowsOK, Validate, Publish, captured, reader
<1>4. /\ status # "completed" /\ ~public /\ pc # "imported"
      /\ pc = "answer" => answer.from # "imported"
  <2>1. status # "completed"
    BY DEF Validate, Publish
  <2> QED
    BY <2>1 DEF ImportOK, StepOK, ReadsTypes
<1>6. UNCHANGED <<file, rows, request, pc, answer, failed, public, had>>
  BY DEF Validate, Publish, captured, reader
<1>5. StepOK'
  BY <1>4, <1>6 DEF StepOK
<1>7. Promises'
  <2>1. ExactWhenNamed'
    BY <1>4, <1>6 DEF ExactWhenNamed
  <2>2. NearestIsNearest'
    BY <1>4, <1>6 DEF NearestIsNearest, Asked
  <2>3. CapturedShown'
    BY <1>6 DEF Promises, CapturedShown, FromCaptured, OldRows, NoneNearer, AllInOrder, Given, Far
  <2>4. AnsweredFromItsOwn'
    BY <1>4, <1>6 DEF Promises, AnsweredFromItsOwn
  <2> QED
    BY <2>1, <2>2, <2>3, <2>4 DEF Promises
<1> QED
  BY <1>1, <1>2, <1>3, <1>5, <1>7

\* What is owed of the captured rows can only be taken away.
LEMMA FewerRowsOwed ==
  ASSUME CapturedShown, OldRows' \subseteq OldRows, UNCHANGED <<import, reader>>
  PROVE  CapturedShown'
<1>1. UNCHANGED <<request, pc, answer, had>>
  BY DEF reader
<1>2. FromCaptured' => FromCaptured
  BY <1>1 DEF FromCaptured
<1>3. NoneNearer => NoneNearer'
  BY <1>1 DEF NoneNearer, Given, Far
<1>4. AllInOrder => AllInOrder'
  BY <1>1 DEF AllInOrder, Given
<1> QED
  BY <1>1, <1>2, <1>3, <1>4 DEF CapturedShown

\* What is promised of an import and of the seed is about these alone.
LEMMA PromisesStand ==
  ASSUME ExactWhenNamed, NearestIsNearest, AnsweredFromItsOwn,
         UNCHANGED <<file, table, request, pc, answer, failed, public>>
  PROVE  ExactWhenNamed' /\ NearestIsNearest' /\ AnsweredFromItsOwn'
<1>1. ExactWhenNamed'
  <2>1. FramesOfFile' = FramesOfFile
    BY DEF FramesOfFile
  <2> QED
    BY <2>1 DEF ExactWhenNamed
<1>2. NearestIsNearest'
  BY DEF NearestIsNearest, Asked, Given, Places, TimeOf
<1>3. AnsweredFromItsOwn'
  BY DEF AnsweredFromItsOwn, Places, TimeOf
<1> QED
  BY <1>1, <1>2, <1>3

\* A row is captured, or old ones are removed.
LEMMA RowsKeep ==
  ASSUME ReadsInv, NEW t \in Time, Capture(t) \/ Cleanup(t)
  PROVE  ReadsInv'
<1> USE DEF ReadsInv
<1>1. UNCHANGED <<import, reader>>
  BY DEF Capture, Cleanup
<1>2. /\ nextRow \in 1 .. MaxCaptures + 1 /\ MaxCaptures \in Nat /\ nextRow \in Nat
      /\ \A r \in Row : r.id \in Nat /\ r.edition \in Nat
  <2>1. nextRow \in 1 .. MaxCaptures + 1 /\ MaxCaptures \in Nat
    BY CaptureAssumption DEF ReadsTypes
  <2>2. \A r \in Row : r.id \in 1 .. MaxCaptures /\ r.edition \in 1 .. MaxCaptures
    BY DEF Row
  <2> QED
    BY <2>1, <2>2
<1>3. ASSUME Capture(t)
      PROVE  ReadsTypes' /\ RowsOK' /\ OldRows' \subseteq OldRows
  <2>1. nextRow <= MaxCaptures /\ nextRow' = nextRow + 1 /\ had' = had
    BY <1>1, <1>3 DEF Capture, reader
  <2>2. nextRow' \in 1 .. MaxCaptures + 1 /\ nextRow \in 1 .. MaxCaptures
    BY <1>2, <2>1
  <2>3. \A r \in rows \cup had : /\ r \in Row /\ r.id < nextRow /\ r.edition < nextRow
                                 /\ r.id \in Nat /\ r.edition \in Nat
    BY <1>2 DEF RowsOK, ReadsTypes
  <2>4. PICK old \in SUBSET rows, new \in Row :
          /\ rows' = old \cup {new} /\ new.edition = nextRow /\ new.id <= nextRow
          /\ \A r \in old : r.id # new.id
    <3>1. CASE Insert(t)
      <4> DEFINE new == [id |-> nextRow, edition |-> nextRow, time |-> t]
      <4>1. new \in Row /\ new.edition = nextRow /\ new.id = nextRow
        BY <2>2 DEF Row
      <4>2. \A r \in rows : r.id # new.id
        BY <1>2, <2>3
      <4>3. rows' = rows \cup {new}
        BY <3>1 DEF Insert
      <4> HIDE DEF new
      <4>4. new.id <= nextRow /\ rows \in SUBSET rows
        BY <1>2, <4>1
      <4> QED
        BY <4>1, <4>2, <4>3, <4>4
    <3>2. CASE Update(t)
      <4>1. PICK r \in rows :
              rows' = (rows \ {r}) \cup {[id |-> r.id, edition |-> nextRow, time |-> t]}
        BY <3>2 DEF Update
      <4> DEFINE new == [id |-> r.id, edition |-> nextRow, time |-> t]
      <4>2. new \in Row /\ new.edition = nextRow /\ new.id = r.id /\ new.id < nextRow
        BY <2>2, <2>3 DEF Row
      <4>3. \A q \in rows \ {r} : q.id # new.id
        BY <4>2 DEF RowsOK
      <4> HIDE DEF new
      <4>4. new.id <= nextRow
        BY <1>2, <4>2
      <4>5. rows' = (rows \ {r}) \cup {new}
        BY <4>1 DEF new
      <4> QED
        BY <4>2, <4>3, <4>4, <4>5
    <3> QED
      BY <1>3, <3>1, <3>2 DEF Capture
  <2>5. ReadsTypes'
    BY <1>1, <2>1, <2>2, <2>4 DEF ReadsTypes, import, reader
  <2>6. RowsOK'
    <3>1. IsFiniteSet(rows')
      BY <2>4, FS_Subset, FS_AddElement DEF RowsOK
    <3>2. \A r \in rows' \cup had' : r.id < nextRow' /\ r.edition < nextRow'
      BY <1>2, <2>1, <2>3, <2>4
    <3>3. \A r, s \in rows' : r.id = s.id => r = s
      BY <2>4 DEF RowsOK
    <3> QED
      BY <3>1, <3>2, <3>3 DEF RowsOK
  <2>7. OldRows' \subseteq OldRows
    <3>1. new \notin had
      BY <1>2, <2>3, <2>4
    <3> QED
      BY <2>1, <2>4, <3>1 DEF OldRows
  <2> QED
    BY <2>5, <2>6, <2>7
<1>4. ASSUME Cleanup(t)
      PROVE  ReadsTypes' /\ RowsOK' /\ OldRows' \subseteq OldRows
  <2>1. rows' \subseteq rows /\ UNCHANGED nextRow
    BY <1>4 DEF Cleanup
  <2>2. IsFiniteSet(rows')
    BY <2>1, FS_Subset DEF RowsOK
  <2> QED
    BY <1>1, <2>1, <2>2 DEF ReadsTypes, RowsOK, OldRows, import, reader
<1>5. ReadsTypes' /\ RowsOK' /\ OldRows' \subseteq OldRows
  BY <1>3, <1>4
<1>6. ImportOK' /\ StepOK'
  BY <1>1 DEF ImportOK, StepOK, import, reader, TableOf
<1>7. CapturedShown'
  BY <1>1, <1>5, FewerRowsOwed DEF Promises
<1>8. ExactWhenNamed' /\ NearestIsNearest' /\ AnsweredFromItsOwn'
  <2>1. UNCHANGED <<file, table, request, pc, answer, failed, public>>
    BY <1>1 DEF import, reader
  <2> QED
    BY <2>1, PromisesStand DEF Promises
<1> QED
  BY <1>5, <1>6, <1>7, <1>8 DEF Promises

-----------------------------------------------------------------------------
(* The steps of a request.                                                 *)

\* A request comes.
LEMMA AskKeeps ==
  ASSUME ReadsInv, NEW q \in Requests, Ask(q)
  PROVE  ReadsInv'
<1> USE DEF ReadsInv
<1>1. /\ UNCHANGED <<file, status, table, rows, nextRow, answer, listed>>
      /\ request' = q /\ failed' = {} /\ public' = (status = "completed") /\ had' = rows
      /\ q.kind # "none" /\ pc' = IF q.kind = "sessions" THEN "list imported" ELSE "member"
  BY DEF Ask, import, captured
<1>2. ReadsTypes'
  BY <1>1 DEF ReadsTypes
<1>3. ImportOK'
  BY <1>1 DEF ImportOK, TableOf
<1>4. RowsOK'
  BY <1>1 DEF RowsOK
<1>5. StepOK'
  BY <1>1, RequestFields DEF StepOK
<1>6. Promises'
  BY <1>1, NothingPromised
<1> QED
  BY <1>2, <1>3, <1>4, <1>5, <1>6

\* A step of a request changes nothing but the request.
LEMMA OthersKeep ==
  ASSUME ReadsInv, UNCHANGED <<import, captured, request, public, had>>
  PROVE  /\ UNCHANGED <<file, status, table, rows, nextRow, request, public, had>>
         /\ ImportOK' /\ RowsOK'
<1>1. UNCHANGED <<file, status, table, rows, nextRow, request, public, had>>
  BY DEF import, captured
<1>2. ImportOK'
  BY <1>1 DEF ReadsInv, ImportOK, TableOf
<1>3. RowsOK'
  BY <1>1 DEF ReadsInv, RowsOK
<1> QED
  BY <1>1, <1>2, <1>3

\* A refusal breaks no promise if something failed, nor does an estimate if
\* the import was not public.
LEMMA RefusalKeeps ==
  ASSUME ReadsInv, UNCHANGED <<file, status, table, rows, request, public, had>>,
         answer' = Unavailable, failed' # {}
  PROVE  Promises'
<1>1. answer'.from = "unavailable" /\ answer' # Empty
  BY DEF Unavailable, Empty
<1>2. ExactWhenNamed'
  BY <1>1 DEF ExactWhenNamed, Unavailable
<1>3. NearestIsNearest' /\ CapturedShown'
  BY <1>1 DEF NearestIsNearest, CapturedShown, FromCaptured
<1>4. AnsweredFromItsOwn'
  BY <1>1 DEF AnsweredFromItsOwn
<1> QED
  BY <1>2, <1>3, <1>4 DEF Promises

\* The session is looked up among the imports, or cannot be.
LEMMA MemberKeeps ==
  ASSUME ReadsInv, Member
  PROVE  ReadsInv'
<1> USE DEF ReadsInv
<1>1. /\ UNCHANGED <<file, status, table, rows, nextRow, request, listed, public, had>>
      /\ ImportOK' /\ RowsOK'
  BY OthersKeep DEF Member, seen
<1>2. /\ pc = "member" /\ request \in Requests
      /\ request.kind \in {"timestamps", "snapshot", "stream"}
  BY DEF Member, StepOK, ReadsTypes
<1>3. CASE failed' = failed /\ request.session = "imported" /\ status = "completed"
           /\ pc' = "imported" /\ answer' = answer
  <2>1. ReadsTypes' /\ StepOK'
    BY <1>1, <1>2, <1>3 DEF ReadsTypes, StepOK
  <2> QED
    BY <1>1, <1>3, <2>1, NothingPromised
<1>4. CASE failed' = failed /\ ~(request.session = "imported" /\ status = "completed") /\ Elsewhere
  <2>1. public => request.session # "imported"
    BY <1>4 DEF ImportOK
  <2>2. CASE request.kind = "timestamps"
    <3>1. pc' = "answer" /\ answer' = [from |-> "estimated", frames |-> <<>>]
      BY <1>4, <2>2 DEF Elsewhere
    <3>2. answer'.from = "estimated" /\ answer' # Empty
      BY <3>1 DEF Empty
    <3>3. ReadsTypes' /\ StepOK'
      BY <1>1, <1>4, <3>1, <3>2 DEF ReadsTypes, StepOK
    <3>4. ExactWhenNamed'
      BY <1>1, <2>1 DEF ExactWhenNamed
    <3>5. NearestIsNearest' /\ CapturedShown' /\ AnsweredFromItsOwn'
      BY <3>2 DEF NearestIsNearest, CapturedShown, FromCaptured, AnsweredFromItsOwn
    <3> QED
      BY <1>1, <3>3, <3>4, <3>5 DEF Promises
  <2>3. CASE request.kind # "timestamps"
    <3>1. pc' = "persisted" /\ answer' = answer
      BY <1>4, <2>3 DEF Elsewhere
    <3>2. ReadsTypes' /\ StepOK'
      BY <1>1, <1>2, <1>4, <2>1, <2>3, <3>1 DEF ReadsTypes, StepOK
    <3> QED
      BY <1>1, <3>1, <3>2, NothingPromised
  <2> QED
    BY <2>2, <2>3
<1>5. CASE failed' = failed \cup {"member"} /\ MustBeAvailable /\ Refuses
  <2>1. failed' # {} /\ answer' = Unavailable /\ pc' = "answer" /\ answer'.from = "unavailable"
    BY <1>5 DEF Refuses, Unavailable
  <2>2. ReadsTypes' /\ StepOK'
    BY <1>1, <1>5, <2>1 DEF ReadsTypes, StepOK
  <2> QED
    BY <1>1, <2>1, <2>2, RefusalKeeps
<1>6. CASE failed' = failed \cup {"member"} /\ ~MustBeAvailable /\ pc' = "persisted"
           /\ answer' = answer
  <2>1. request.id = None /\ request.kind \in {"snapshot", "stream"} /\ "member" \in failed'
    BY <1>2, <1>6 DEF MustBeAvailable
  <2>2. ReadsTypes' /\ StepOK'
    BY <1>1, <1>6, <2>1 DEF ReadsTypes, StepOK
  <2> QED
    BY <1>1, <1>6, <2>2, NothingPromised
<1> QED
  BY <1>3, <1>4, <1>5, <1>6 DEF Member, Reads, Raises

\* The sessions are listed: no promise is about that.
LEMMA ListKeepsInv ==
  ASSUME ReadsInv, ListImported \/ ListPersisted
  PROVE  ReadsInv'
<1> USE DEF ReadsInv
<1>1. /\ UNCHANGED <<file, status, table, rows, nextRow, request, public, had>>
      /\ ImportOK' /\ RowsOK'
  <2>1. UNCHANGED <<import, captured, request, public, had>>
    BY DEF ListImported, ListPersisted
  <2> QED
    BY <2>1, OthersKeep
<1>2. request \in Requests /\ request.kind = "sessions" /\ request.session = "unknown"
      /\ request.id = None
  BY RequestFields DEF ReadsTypes, StepOK, ListImported, ListPersisted
<1>3. CASE ListImported
  <2>1. /\ pc' = "list persisted" /\ UNCHANGED answer
        /\ failed' \subseteq failed \cup {"imported"} /\ listed' \in {<<"imported">>, <<>>}
    BY <1>3 DEF ListImported, Reads, Raises
  <2>2. listed' \in Seq(Sessions)
    <3>1. "imported" \in Sessions
      BY DEF Sessions
    <3>2. <<"imported">> \in Seq(Sessions) /\ <<>> \in Seq(Sessions)
      BY <3>1
    <3> QED
      BY <2>1, <3>2
  <2>3. ReadsTypes'
    BY <1>1, <2>1, <2>2 DEF ReadsTypes
  <2>4. StepOK'
    BY <1>1, <1>2, <2>1 DEF StepOK
  <2> QED
    BY <1>1, <2>1, <2>3, <2>4, NothingPromised
<1>4. CASE ListPersisted
  <2>1. /\ pc' = "answer" /\ answer' = [from |-> "sessions", frames |-> <<>>]
        /\ failed' \subseteq failed \cup {"persisted"}
        /\ \/ listed' = listed \o (IF rows # {} THEN <<"captured">> ELSE <<>>) \o <<"seed">>
           \/ listed' = Append(listed, "seed")
    BY <1>4 DEF ListPersisted, Reads, Raises
  <2>2. listed' \in Seq(Sessions)
    <3>1. listed \in Seq(Sessions) /\ {"captured", "seed"} \subseteq Sessions
      BY DEF ReadsTypes, Sessions
    <3>2. <<"captured">> \in Seq(Sessions) /\ <<"seed">> \in Seq(Sessions)
          /\ <<>> \in Seq(Sessions)
      BY <3>1
    <3> DEFINE withCaptured == IF rows # {} THEN <<"captured">> ELSE <<>>
    <3>3. withCaptured \in Seq(Sessions)
      BY <3>2
    <3> HIDE DEF withCaptured
    <3>4. listed \o withCaptured \in Seq(Sessions)
      BY <3>1, <3>3
    <3>5. listed \o withCaptured \o <<"seed">> \in Seq(Sessions)
          /\ Append(listed, "seed") \in Seq(Sessions)
      BY <3>1, <3>2, <3>4
    <3> QED
      BY <2>1, <3>5 DEF withCaptured
  <2>3. ReadsTypes'
    BY <1>1, <2>1, <2>2 DEF ReadsTypes
  <2>4. StepOK'
    BY <1>1, <1>2, <2>1 DEF StepOK
  <2>5. ExactWhenNamed'
    BY <1>1, <1>2 DEF ExactWhenNamed
  <2>6. NearestIsNearest' /\ CapturedShown' /\ AnsweredFromItsOwn'
    BY <1>1, <1>2, <2>1 DEF NearestIsNearest, CapturedShown, FromCaptured, AnsweredFromItsOwn
  <2> QED
    BY <1>1, <2>3, <2>4, <2>5, <2>6 DEF Promises
<1> QED
  BY <1>3, <1>4

\* A request ends.
LEMMA RespondKeeps ==
  ASSUME ReadsInv, Respond
  PROVE  ReadsInv'
<1> USE DEF ReadsInv
<1>1. /\ UNCHANGED <<file, status, table, rows, nextRow>>
      /\ pc' = "idle" /\ answer' = NoAnswer /\ request' = NoRequest
      /\ listed' = <<>> /\ failed' = {} /\ public' = FALSE /\ had' = {}
  BY DEF Respond, import, captured
<1>2. ReadsTypes'
  <2>1. NoRequest \in Requests /\ <<>> \in Seq(Sessions)
    BY DEF Requests
  <2> QED
    BY <1>1, <2>1 DEF ReadsTypes, NoAnswer
<1>3. ImportOK'
  BY <1>1 DEF ImportOK, TableOf
<1>4. RowsOK'
  BY <1>1 DEF RowsOK
<1>5. StepOK'
  BY <1>1 DEF StepOK
<1> QED
  BY <1>1, <1>2, <1>3, <1>4, <1>5, NothingPromised

\* The frames an import is answered with.
FramesRead ==
  CASE request.kind = "timestamps" -> InOrder(Places)
    [] request.kind = "stream" -> InOrder(Streamed(request.at, request.id))
    [] request.kind = "snapshot" ->
         SetToSeq(IF request.id # None THEN ById(request.id) ELSE NearestImported(request.at))

\* A snapshot of an import: the one that is named, or the nearest.
LEMMA SnapshotRead ==
  ASSUME Published, request \in Requests, request.kind = "snapshot"
  PROVE  \/ /\ FramesRead = <<>> /\ request.id # None
            /\ \A i \in DOMAIN file.snapshots : file.snapshots[i].id # request.id
         \/ \E i \in Places :
              /\ FramesRead = <<i>>
              /\ request.id # None => file.snapshots[i].id = request.id
              /\ request.id = None => \A j \in Places :
                   IF request.at = None THEN TimeOf(j) <= TimeOf(i)
                   ELSE \/ Distance(TimeOf(i), request.at) < Distance(TimeOf(j), request.at)
                        \/ Distance(TimeOf(i), request.at) = Distance(TimeOf(j), request.at)
                           /\ i <= j
<1>1. CASE request.id # None
  <2>1. FramesRead = SetToSeq(ById(request.id))
    BY <1>1 DEF FramesRead
  <2>2. CASE /\ ById(request.id) = {}
             /\ \A i \in DOMAIN file.snapshots : file.snapshots[i].id # request.id
    BY <1>1, <2>1, <2>2, SequenceOfNone
  <2>3. CASE \E i \in Places : ById(request.id) = {i} /\ file.snapshots[i].id = request.id
    <3>1. PICK i \in Places : ById(request.id) = {i} /\ file.snapshots[i].id = request.id
      BY <2>3
    <3>2. FramesRead = <<i>>
      BY <2>1, <3>1, SequenceOfOne
    <3> QED
      BY <1>1, <3>1, <3>2
  <2> QED
    BY <2>2, <2>3, NamedPlace
<1>2. CASE request.id = None
  <2>1. FramesRead = SetToSeq(NearestImported(request.at))
    BY <1>2 DEF FramesRead
  <2>2. PlacesOK /\ Places # {} /\ request.at \in At \cup {None}
    <3>1. 1 \in 1 .. Len(file.snapshots)
      BY TableIsFile
    <3> QED
      BY <3>1, TableIsFile, RequestFields
  <2>3. PICK i \in Places :
          /\ NearestImported(request.at) = {i}
          /\ \A j \in Places :
               IF request.at = None THEN TimeOf(j) <= TimeOf(i)
               ELSE \/ Distance(TimeOf(i), request.at) < Distance(TimeOf(j), request.at)
                    \/ Distance(TimeOf(i), request.at) = Distance(TimeOf(j), request.at) /\ i <= j
    BY <2>2, NearestOfImport
  <2>4. FramesRead = <<i>>
    BY <2>1, <2>3, SequenceOfOne
  <2> QED
    BY <1>2, <2>3, <2>4
<1> QED
  BY <1>1, <1>2

\* The rows of a published import are read.
LEMMA ImportedKeeps ==
  ASSUME ReadsInv, Imported
  PROVE  ReadsInv'
<1> USE DEF ReadsInv
<1>1. /\ UNCHANGED <<file, status, table, rows, nextRow, request, listed, public, had>>
      /\ ImportOK' /\ RowsOK'
  BY OthersKeep DEF Imported, seen
<1>2. /\ pc = "imported" /\ request \in Requests /\ request.session = "imported"
      /\ request.kind \in {"timestamps", "snapshot", "stream"} /\ status = "completed"
  BY DEF Imported, StepOK, ReadsTypes
<1>3. Published
  BY <1>2 DEF Published, ImportOK, ReadsTypes
<1>4. CASE Raises("imported") /\ Refuses
  <2>1. /\ failed' = failed \cup {"imported"} /\ failed' # {}
        /\ answer' = Unavailable /\ pc' = "answer" /\ answer'.from = "unavailable"
    BY <1>4 DEF Raises, Refuses, Unavailable
  <2>2. ReadsTypes' /\ StepOK'
    BY <1>1, <2>1 DEF ReadsTypes, StepOK
  <2> QED
    BY <1>1, <2>1, <2>2, RefusalKeeps
<1>5. CASE Reads("imported") /\ Answers("imported", FramesRead)
  <2>1. /\ failed' = failed /\ pc' = "answer"
        /\ FramesRead = <<>> => answer' = Empty
        /\ FramesRead # <<>> => answer' = [from |-> "imported", frames |-> FramesRead]
    BY <1>5 DEF Reads, Answers
  <2>2. /\ FramesRead = <<>> => answer'.from = "empty"
        /\ FramesRead # <<>> => /\ answer'.from = "imported" /\ answer'.frames = FramesRead
                                /\ answer' # Empty
    BY <2>1 DEF Empty
  <2>3. ReadsTypes' /\ StepOK'
    BY <1>1, <1>2, <2>1, <2>2 DEF ReadsTypes, StepOK
  <2>4. ExactWhenNamed'
    <3>1. SUFFICES
            ASSUME request.id # None
            PROVE  LET named == {i \in DOMAIN file.snapshots : file.snapshots[i].id = request.id}
                       frames == [k \in DOMAIN answer'.frames |-> table[answer'.frames[k]]]
                   IN \/ answer' = Empty /\ named = {}
                      \/ /\ answer'.from = "imported"
                         /\ \E i \in named :
                              frames = SubSeq(FramesOfFile, i,
                                        IF request.kind = "snapshot" THEN i
                                        ELSE Len(file.snapshots))
      BY <1>1 DEF ExactWhenNamed, FramesOfFile
    <3>2. request.kind # "timestamps"
      BY <1>2, <3>1, RequestFields
    <3>3. CASE request.kind = "snapshot"
      <4>1. CASE FramesRead = <<>>
        BY <1>2, <1>3, <2>1, <3>1, <3>3, <4>1, SnapshotRead
      <4>2. CASE FramesRead # <<>>
        <5>1. PICK i \in Places : FramesRead = <<i>> /\ file.snapshots[i].id = request.id
          BY <1>2, <1>3, <3>1, <3>3, <4>2, SnapshotRead
        <5>2. i \in DOMAIN file.snapshots
          BY <1>3, TableIsFile
        <5>3. [k \in DOMAIN <<i>> |-> table[<<i>>[k]]] = SubSeq(FramesOfFile, i, i)
          BY <1>3, NamedFrame
        <5>4. answer'.frames = <<i>>
          BY <2>2, <4>2, <5>1
        <5> QED
          BY <2>2, <3>3, <4>2, <5>1, <5>2, <5>3, <5>4
      <4> QED
        BY <4>1, <4>2
    <3>4. CASE request.kind = "stream"
      <4>1. FramesRead = InOrder(Streamed(request.at, request.id))
        BY <3>4 DEF FramesRead
      <4>2. CASE \E i \in Places : ById(request.id) = {i} /\ file.snapshots[i].id = request.id
        <5>1. PICK i \in Places : ById(request.id) = {i} /\ file.snapshots[i].id = request.id
          BY <4>2
        <5>2. i \in DOMAIN file.snapshots
          BY <1>3, TableIsFile
        <5>3. /\ FramesRead # <<>>
              /\ [k \in DOMAIN FramesRead |-> table[FramesRead[k]]]
                   = SubSeq(FramesOfFile, i, Len(file.snapshots))
          BY <1>3, <3>1, <4>1, <5>1, StreamedFrom
        <5> QED
          BY <2>2, <3>4, <5>1, <5>2, <5>3
      <4>3. CASE /\ ById(request.id) = {}
                 /\ \A i \in DOMAIN file.snapshots : file.snapshots[i].id # request.id
        <5>1. Streamed(request.at, request.id) = {}
          BY <3>1, <4>3 DEF Streamed
        <5>2. FramesRead = <<>>
          BY <4>1, <5>1, InOrderOfEmpty
        <5> QED
          BY <2>1, <4>3, <5>2
      <4> QED
        BY <1>3, <4>2, <4>3, NamedPlace
    <3> QED
      BY <1>2, <3>2, <3>3, <3>4
  <2>5. NearestIsNearest'
    <3>1. SUFFICES
            ASSUME request.kind = "snapshot", request.id = None, FramesRead # <<>>
            PROVE  \A i \in Given', j \in Places :
                     IF request.at = None THEN TimeOf(j) <= TimeOf(i)
                     ELSE \/ Distance(TimeOf(i), request.at) < Distance(TimeOf(j), request.at)
                          \/ Distance(TimeOf(i), request.at) = Distance(TimeOf(j), request.at)
                             /\ i <= j
      BY <1>1, <2>2 DEF NearestIsNearest, Asked, Places, TimeOf
    <3>2. PICK i \in Places :
            /\ FramesRead = <<i>>
            /\ \A j \in Places :
                 IF request.at = None THEN TimeOf(j) <= TimeOf(i)
                 ELSE \/ Distance(TimeOf(i), request.at) < Distance(TimeOf(j), request.at)
                      \/ Distance(TimeOf(i), request.at) = Distance(TimeOf(j), request.at) /\ i <= j
      BY <1>2, <1>3, <3>1, SnapshotRead
    <3>3. Given' = {i}
      BY <2>2, <3>1, <3>2, SequenceOfOne DEF Given
    <3> QED
      BY <3>2, <3>3
  <2>6. CapturedShown'
    BY <1>1, <1>2 DEF CapturedShown, FromCaptured
  <2>7. AnsweredFromItsOwn'
    <3>1. SUFFICES ASSUME request.kind \in {"snapshot", "stream"}, FramesRead = <<>>
                   PROVE  \/ request.id \notin Ids(file.snapshots) \cup {None}
                          \/ \A i \in Places : request.at # None /\ TimeOf(i) < request.at
      BY <1>1, <1>2, <2>2 DEF AnsweredFromItsOwn, Places, TimeOf
    <3>2. CASE request.kind = "snapshot"
      BY <1>2, <1>3, <3>1, <3>2, SnapshotRead DEF Ids, Rows
    <3>3. CASE request.kind = "stream"
      <4>1. FramesRead = InOrder(Streamed(request.at, request.id))
        BY <3>3 DEF FramesRead
      <4>2. request.at \in At \cup {None}
        BY <1>2, RequestFields
      <4> QED
        BY <1>3, <3>1, <4>1, <4>2, StreamedNone
    <3> QED
      BY <3>1, <3>2, <3>3
  <2> QED
    BY <1>1, <2>3, <2>4, <2>5, <2>6, <2>7 DEF Promises
<1>6. \/ Raises("imported") /\ Refuses
      \/ Reads("imported") /\ Answers("imported", FramesRead)
  <2>1. CASE request.kind = "timestamps"
    BY <2>1 DEF Imported, FramesRead
  <2>2. CASE request.kind = "stream"
    BY <2>2 DEF Imported, FramesRead
  <2>3. CASE request.kind = "snapshot"
    BY <2>3 DEF Imported, FramesRead
  <2> QED
    BY <1>2, <2>1, <2>2, <2>3
<1> QED
  BY <1>4, <1>5, <1>6

\* What is found of the captured rows.
Found == IF request.session # "captured" THEN <<>>
         ELSE IF request.kind = "stream" THEN RowsFrom(request.at)
         ELSE SetToSeq(NearestRow(request.at))

\* No rows have no nearest.
LEMMA NoRowNearest ==
  ASSUME rows = {}, NEW at
  PROVE  NearestRow(at) = {}
  BY DEF NearestRow, FirstBy

\* What is found is all that is owed, and if nothing is, nothing is owed.
LEMMA FoundIsOwed ==
  ASSUME RowsKnown, request \in Requests, request.session = "captured",
         request.kind \in {"snapshot", "stream"}, NEW frames, frames = Found
  PROVE  /\ request.kind = "snapshot" =>
              \A r \in rows : \E g \in Rows(frames) : Far(request.at, g) <= Far(request.at, r)
         /\ request.kind = "stream" =>
              /\ \A r \in rows : request.at = None \/ r.time >= request.at => r \in Rows(frames)
              /\ \A i \in 1 .. Len(frames) - 1 : frames[i].time <= frames[i + 1].time
         /\ frames = <<>> =>
              \A r \in rows :
                request.kind = "stream" /\ ~(request.at = None \/ r.time >= request.at)
<1>1. request.at \in At \cup {None}
  BY RequestFields
<1>2. CASE request.kind = "snapshot"
  <2>1. frames = SetToSeq(NearestRow(request.at))
    BY <1>2 DEF Found
  <2>2. CASE rows = {}
    BY <1>2, <2>2
  <2>3. CASE rows # {}
    <3>1. PICK x \in rows : /\ NearestRow(request.at) = {x}
                            /\ \A o \in rows : Far(request.at, x) <= Far(request.at, o)
      BY <1>1, <2>3, NearestRowIsThere
    <3>2. frames = <<x>> /\ Rows(frames) = {x} /\ frames # <<>>
      BY <2>1, <3>1, SequenceOfOne
    <3> QED
      BY <1>2, <3>1, <3>2
  <2> QED
    BY <2>2, <2>3
<1>3. CASE request.kind = "stream"
  <2> DEFINE S == {r \in rows : request.at = None \/ r.time >= request.at}
  <2>1. frames = RowsFrom(request.at)
    BY <1>3 DEF Found
  <2>2. /\ S \subseteq Rows(frames) /\ (frames = <<>> => S = {})
        /\ \A i \in 1 .. Len(frames) - 1 : frames[i].time <= frames[i + 1].time
    BY <1>1, <2>1, RowsInOrder
  <2> QED
    BY <1>3, <2>2
<1> QED
  BY <1>2, <1>3

\* The captured rows are read, or what there is instead.
LEMMA PersistedKeeps ==
  ASSUME ReadsInv, Persisted
  PROVE  ReadsInv'
<1> USE DEF ReadsInv
<1>1. /\ UNCHANGED <<file, status, table, rows, nextRow, request, listed, public, had>>
      /\ ImportOK' /\ RowsOK'
  BY OthersKeep DEF Persisted, seen
<1>2. /\ pc = "persisted" /\ request \in Requests /\ request.kind \in {"snapshot", "stream"}
      /\ request.at \in At \cup {None}
      /\ public /\ request.session = "imported" => request.id = None /\ "member" \in failed
  BY RequestFields DEF Persisted, StepOK, ReadsTypes
<1>3. RowsKnown
  <2>1. ASSUME NEW r \in Row
        PROVE  r.id \in Nat /\ r.time \in Nat
    <3>1. r.id \in 1 .. MaxCaptures /\ r.time \in Time
      BY DEF Row
    <3>2. r.id \in Nat
      BY <3>1, CaptureAssumption
    <3>3. r.time \in Nat
      BY <3>1, TimeAssumption
    <3> QED
      BY <3>2, <3>3
  <2> QED
    BY <2>1 DEF RowsKnown, RowsOK, ReadsTypes
<1>4. /\ pc' = "answer" /\ failed' \in {failed, failed \cup {"persisted"}}
      /\ \/ /\ failed' = failed /\ Found # <<>>
            /\ answer' = [from |-> "captured", frames |-> Found]
         \/ failed' = failed /\ Found = <<>> /\ Fallback
         \/ failed' # failed /\ request.session = "seed" /\ OfSeed
         \/ failed' # {} /\ request.session # "seed" /\ Refuses
         \/ failed' = failed /\ request.session = "seed" /\ OfSeed
  BY DEF Persisted, Found, Reads, Raises, Answers, Refuses, Fallback, OfSeed
<1>5. "member" \in failed => "member" \in failed'
  BY <1>4
<1>6. CASE Found # <<>> /\ answer' = [from |-> "captured", frames |-> Found]
  <2>1. request.session = "captured" /\ answer'.from = "captured" /\ answer'.frames = Found
        /\ answer' # Empty
    BY <1>6 DEF Found, Empty
  <2>2. ReadsTypes' /\ StepOK'
    BY <1>1, <1>4, <2>1 DEF ReadsTypes, StepOK
  <2>3. ExactWhenNamed' /\ NearestIsNearest'
    BY <1>1, <2>1 DEF ExactWhenNamed, NearestIsNearest, Asked
  <2>4. AnsweredFromItsOwn'
    BY <1>1, <2>1 DEF AnsweredFromItsOwn
  <2>5. CapturedShown'
    <3>1. request.kind = "snapshot" => NoneNearer'
      BY <1>1, <1>2, <1>3, <2>1, FoundIsOwed DEF NoneNearer, OldRows, Given, Far
    <3>2. request.kind = "stream" => AllInOrder'
      BY <1>1, <1>2, <1>3, <2>1, FoundIsOwed DEF AllInOrder, OldRows, Given
    <3> QED
      BY <1>1, <1>2, <3>1, <3>2 DEF CapturedShown
  <2> QED
    BY <1>1, <2>2, <2>3, <2>4, <2>5 DEF Promises
<1>7. CASE request.session # "seed" /\ Found = <<>> /\ Fallback
  <2>1. answer' = Empty /\ answer'.from = "empty" /\ answer'.frames = <<>>
    BY <1>7 DEF Fallback, Answers, Empty
  <2>2. ReadsTypes' /\ StepOK'
    BY <1>1, <1>4, <2>1 DEF ReadsTypes, StepOK
  <2>3. ExactWhenNamed' /\ NearestIsNearest'
    BY <1>1, <1>2, <2>1 DEF ExactWhenNamed, NearestIsNearest, Asked
  <2>4. AnsweredFromItsOwn'
    BY <1>1, <1>2, <1>5, <1>7, <2>1 DEF AnsweredFromItsOwn
  <2>5. CapturedShown'
    <3>1. SUFFICES ASSUME request.session = "captured"
                   PROVE  /\ request.kind = "snapshot" => NoneNearer'
                          /\ request.kind = "stream" => AllInOrder'
      BY <1>1, <1>2 DEF CapturedShown, FromCaptured
    <3>2. \A r \in rows : request.kind = "stream" /\ ~(request.at = None \/ r.time >= request.at)
      BY <1>2, <1>3, <1>7, <3>1, FoundIsOwed
    <3>3. Len(answer'.frames) - 1 = -1
      BY <2>1
    <3> QED
      BY <1>1, <2>1, <3>2, <3>3 DEF NoneNearer, AllInOrder, OldRows
  <2> QED
    BY <1>1, <2>2, <2>3, <2>4, <2>5 DEF Promises
<1>8. CASE request.session = "seed" /\ OfSeed
  <2>1. CASE answer'.from = "seed" /\ answer' # Empty
    <3>1. ReadsTypes' /\ StepOK'
      BY <1>1, <1>4, <2>1 DEF ReadsTypes, StepOK
    <3>2. ExactWhenNamed' /\ NearestIsNearest' /\ CapturedShown' /\ AnsweredFromItsOwn'
      BY <1>1, <1>8, <2>1 DEF ExactWhenNamed, NearestIsNearest, Asked, CapturedShown,
                              FromCaptured, AnsweredFromItsOwn
    <3> QED
      BY <1>1, <3>1, <3>2 DEF Promises
  <2>2. CASE answer' = Empty /\ request.kind = "stream" /\ SeedFrom(request.at) = <<>>
    <3>1. answer'.from = "empty"
      BY <2>2 DEF Empty
    <3>2. ReadsTypes' /\ StepOK'
      BY <1>1, <1>4, <1>8, <3>1 DEF ReadsTypes, StepOK
    <3>3. \A i \in SeedPlaces : SeedTimes[i] < request.at
      BY <1>2, <2>2, SeedStream
    <3>4. ExactWhenNamed' /\ NearestIsNearest' /\ CapturedShown'
      BY <1>1, <1>8, <3>1 DEF ExactWhenNamed, NearestIsNearest, Asked, CapturedShown, FromCaptured
    <3>5. AnsweredFromItsOwn'
      BY <1>1, <1>8, <2>2, <3>1, <3>3 DEF AnsweredFromItsOwn
    <3> QED
      BY <1>1, <3>2, <3>4, <3>5 DEF Promises
  <2>3. \/ answer'.from = "seed" /\ answer' # Empty
        \/ answer' = Empty /\ request.kind = "stream" /\ SeedFrom(request.at) = <<>>
    <3>1. request.kind # "stream" => SetToSeq(NearestSeed(request.at)) # <<>>
      <4>1. PICK x \in SeedPlaces : NearestSeed(request.at) = {x}
        BY <1>2, SeedAnswers
      <4> QED
        BY <4>1, SequenceOfOne
    <3> QED
      BY <1>8, <3>1 DEF OfSeed, Answers, Empty
  <2> QED
    BY <2>1, <2>2, <2>3
<1>9. CASE failed' # {} /\ Refuses
  <2>1. answer' = Unavailable /\ answer'.from = "unavailable"
    BY <1>9 DEF Refuses, Unavailable
  <2>2. ReadsTypes' /\ StepOK'
    BY <1>1, <1>4, <2>1 DEF ReadsTypes, StepOK
  <2> QED
    BY <1>1, <1>9, <2>1, <2>2, RefusalKeeps
<1>10. Fallback => request.session # "seed" \/ OfSeed
  BY DEF Fallback
<1> QED
  BY <1>4, <1>6, <1>7, <1>8, <1>9, <1>10

\* Every step keeps the invariant.
LEMMA NextReads == ReadsInv /\ [Next]_vars => ReadsInv'
<1> SUFFICES ASSUME ReadsInv, [Next]_vars
             PROVE  ReadsInv'
  OBVIOUS
<1>1. CASE Validate \/ Publish
  BY <1>1, ImportKeeps
<1>2. ASSUME NEW t \in Time, Capture(t) \/ Cleanup(t)
      PROVE  ReadsInv'
  BY <1>2, RowsKeep
<1>3. ASSUME NEW q \in Requests, Ask(q)
      PROVE  ReadsInv'
  BY <1>3, AskKeeps
<1>4. CASE Member
  BY <1>4, MemberKeeps
<1>5. CASE Imported
  BY <1>5, ImportedKeeps
<1>6. CASE Persisted
  BY <1>6, PersistedKeeps
<1>7. CASE ListImported \/ ListPersisted
  BY <1>7, ListKeepsInv
<1>8. CASE Respond
  BY <1>8, RespondKeeps
<1>9. CASE UNCHANGED vars
  <2>1. UNCHANGED <<import, captured, request, public, had, file, status, table, rows, nextRow,
                    pc, answer, listed, failed>>
    BY <1>9 DEF vars, import, captured
  <2>2. ImportOK' /\ RowsOK'
    BY <2>1, OthersKeep
  <2>3. ReadsTypes' /\ StepOK'
    <3>1. ReadsTypes'
      BY <2>1 DEF ReadsInv, ReadsTypes
    <3>2. StepOK'
      BY <2>1 DEF ReadsInv, StepOK
    <3> QED
      BY <3>1, <3>2
  <2>4. ExactWhenNamed' /\ NearestIsNearest' /\ AnsweredFromItsOwn'
    BY <2>1, PromisesStand DEF ReadsInv, Promises
  <2>5. CapturedShown'
    BY <2>1, FewerRowsOwed DEF ReadsInv, Promises, OldRows, reader
  <2> QED
    BY <2>2, <2>3, <2>4, <2>5 DEF ReadsInv, Promises
<1> QED
  BY <1>1, <1>2, <1>3, <1>4, <1>5, <1>6, <1>7, <1>8, <1>9 DEF Next

\* The invariant of the reads holds throughout.
LEMMA ReadsInvariance == Spec => []ReadsInv
  BY InitReads, NextReads, PTL DEF Spec

\* The state of the reads is well formed, and the table has a row for every
\* snapshot of a completed import and none before.
THEOREM ReadsTypeCorrect == Spec => []TypeOK
<1>1. ReadsInv => TypeOK
  <2> SUFFICES ASSUME ReadsInv
               PROVE  TypeOK
    OBVIOUS
  <2>1. Len(table) = (IF status = "completed" THEN Len(file.snapshots) ELSE 0)
    <3>1. CASE status = "completed"
      <4>1. DOMAIN table = 1 .. Len(file.snapshots) /\ Len(file.snapshots) \in Nat
        BY <3>1, TableIsFile DEF ReadsInv, ImportOK, ReadsTypes, Published, Places
      <4>2. table = [i \in 1 .. Len(file.snapshots) |-> table[i]]
        BY <3>1, <4>1 DEF ReadsInv, ImportOK, TableOf, Snapshots
      <4> QED
        BY <3>1, <4>1, <4>2
    <3>2. CASE status # "completed"
      BY <3>2 DEF ReadsInv, ImportOK
    <3> QED
      BY <3>1, <3>2
  <2>2. Rows(listed) \subseteq Sessions
    <3>1. listed \in Seq(Sessions)
      BY DEF ReadsInv, ReadsTypes
    <3>2. \A i \in DOMAIN listed : listed[i] \in Sessions
      BY <3>1
    <3> QED
      BY <3>2 DEF Rows
  <2> QED
    BY <2>1, <2>2 DEF ReadsInv, ReadsTypes, TypeOK
<1> QED
  BY <1>1, ReadsInvariance, PTL

\* The validation of read_replay_parquet_pair lets a pair of files through only
\* if each quote has one snapshot, of its own expiry: what the join by the source
\* snapshot id in the readers takes for granted.
THEOREM QuotesHavePlaces == Spec => []EveryQuoteHasItsPlace
<1>1. ReadsInv => EveryQuoteHasItsPlace
  BY AcceptedQuotes DEF ReadsInv, ReadsTypes, ImportOK, EveryQuoteHasItsPlace
<1> QED
  BY <1>1, ReadsInvariance, PTL

\* A request by source snapshot id of an import that was public when it came is
\* answered with that snapshot as the files have it, or with all from it on in
\* their order, or refused: whatever fails between the transactions of the request
\* and whatever is captured, cleaned up or published meanwhile.
THEOREM NamedIsExact == Spec => []ExactWhenNamed
<1>1. ReadsInv => ExactWhenNamed
  BY DEF ReadsInv, Promises
<1> QED
  BY <1>1, ReadsInvariance, PTL

\* The two candidates of nearest_snapshot, one on each side of the time, suffice:
\* the nearer of the two is the nearest of all places of the import, the first of
\* those as near.
THEOREM NearestShown == Spec => []NearestIsNearest
<1>1. ReadsInv => NearestIsNearest
  BY DEF ReadsInv, Promises
<1> QED
  BY <1>1, ReadsInvariance, PTL

\* A row captured before the request that the retention leaves alone is in the
\* stream from its time on, which is in the order of time, and no such row is
\* nearer than the snapshot shown, although rows come and go between the steps.
THEOREM CapturedNotMissed == Spec => []NothingCapturedIsMissed
<1>1. ReadsInv => NothingCapturedIsMissed
  <2>1. SUFFICES ASSUME CapturedShown
                 PROVE  NothingCapturedIsMissed
    BY DEF ReadsInv, Promises
  <2>2. CASE ~FromCaptured
    BY <2>2 DEF FromCaptured, NothingCapturedIsMissed
  <2>3. CASE FromCaptured /\ request.kind = "snapshot"
    BY <2>1, <2>3 DEF CapturedShown, FromCaptured, NothingCapturedIsMissed, NoneNearer, OldRows, Far
  <2>4. CASE FromCaptured /\ request.kind = "stream"
    BY <2>1, <2>4 DEF CapturedShown, FromCaptured, NothingCapturedIsMissed, AllInOrder, OldRows
  <2> QED
    BY <2>1, <2>2, <2>3, <2>4 DEF CapturedShown
<1> QED
  BY <1>1, ReadsInvariance, PTL

\* No request is answered from another session: neither the captured rows nor the
\* seed stand in for an import whose rows cannot be read, and an empty answer says
\* that nothing matches or that the import could not be looked up.
THEOREM OwnAnswers == Spec => []AnsweredFromItsOwn
<1>1. ReadsInv => AnsweredFromItsOwn
  BY DEF ReadsInv, Promises
<1> QED
  BY <1>1, ReadsInvariance, PTL

-----------------------------------------------------------------------------
(* Saved views: SavedViews.                                                *)

Told == [ViewId -> SUBSET Each]
ViewsTypes ==
  /\ stored \in [ViewId -> Each] /\ memory \in [ViewId -> Each]
  /\ kept \in Told /\ held \in Told
  /\ degraded \in BOOLEAN /\ restarts \in 0 .. MaxRestarts
  /\ retention \in [on : BOOLEAN, cutoff : Nat]
  /\ call \in [Thread -> Calls]
  /\ place \in [Thread -> {"idle", "schema", "work", "answer"}]
  /\ repository \in [Thread -> {"none", "postgres", "memory"}]
  /\ shown \in [Thread -> [ViewId -> Each]]
  /\ owed \in [Thread -> [fallen : BOOLEAN, kept : Told, held : Told]]

\* The memory is in use in a degraded process only, and has what it took.
MemoryOK ==
  /\ \A i \in ViewId : memory[i] \in held[i]
  /\ (\E i \in ViewId : held[i] # {NoView}) => degraded
  /\ \A t \in Thread : repository[t] = "memory" => degraded

\* What a list is owed has what there is now; one that was given Postgres
\* began before anything was acknowledged from memory.
OwedOK ==
  \A t \in Thread :
    /\ Listing(t) =>
         \A i \in ViewId : kept[i] \subseteq owed[t].kept[i] /\ held[i] \subseteq owed[t].held[i]
    /\ owed[t].fallen => repository[t] = "memory"

ViewsInv == ViewsTypes /\ MemoryOK /\ AcknowledgedStays /\ OwedOK /\ ListsWhatWasSaved

\* Nothing has happened yet.
LEMMA InitViews == ViewsInit => ViewsInv
<1> SUFFICES ASSUME ViewsInit
             PROVE  ViewsInv
  OBVIOUS
<1> USE DEF ViewsInit, Of, Fill
<1>1. ViewsTypes
  <2>1. NoCall \in Calls
    BY DEF Calls
  <2>2. Nothing \in [fallen : BOOLEAN, kept : Told, held : Told]
    BY DEF Nothing, Told
  <2>3. NoCleanup \in [on : BOOLEAN, cutoff : Nat] /\ restarts \in 0 .. MaxRestarts
    BY ModeAssumption DEF NoCleanup
  <2> QED
    BY <2>1, <2>2, <2>3 DEF ViewsTypes, Told, Each
<1>2. MemoryOK /\ AcknowledgedStays
  BY DEF MemoryOK, AcknowledgedStays
<1>3. OwedOK
  BY DEF OwedOK, Listing, Nothing
<1>4. ListsWhatWasSaved
  BY DEF ListsWhatWasSaved
<1> QED
  BY <1>1, <1>2, <1>3, <1>4 DEF ViewsInv

\* A request starts: what a list is owed is what there is.
LEMMA BeginKeeps ==
  ASSUME ViewsInv, NEW t \in Thread, NEW q \in Calls, Begin(t, q)
  PROVE  ViewsInv'
<1> USE DEF ViewsInv
<1>1. /\ UNCHANGED <<stored, memory, degraded, shown, retention, restarts, kept, held>>
      /\ call' = [call EXCEPT ![t] = q] /\ place' = [place EXCEPT ![t] = "schema"]
      /\ repository' = [repository EXCEPT ![t] = GivenRepository]
  BY DEF Begin
<1> DEFINE due == IF q.op = "list"
                  THEN [fallen |-> \E i \in ViewId : held[i] # {NoView},
                        kept |-> kept, held |-> held]
                  ELSE Nothing
<1>2. owed' = [owed EXCEPT ![t] = due]
  BY DEF Begin
<1>3. /\ due \in [fallen : BOOLEAN, kept : Told, held : Told]
      /\ q.op = "list" => due.kept = kept /\ due.held = held
      /\ due.fallen => degraded
  BY DEF ViewsTypes, MemoryOK, Nothing, Told, Fill
<1> HIDE DEF due
<1>4. ViewsTypes'
  BY <1>1, <1>2, <1>3 DEF ViewsTypes, GivenRepository
<1>5. MemoryOK'
  BY <1>1 DEF ViewsTypes, MemoryOK, GivenRepository
<1>6. AcknowledgedStays'
  BY <1>1 DEF AcknowledgedStays
<1>7. OwedOK'
  <2> SUFFICES ASSUME NEW u \in Thread
               PROVE  /\ Listing(u)' => \A i \in ViewId : /\ kept[i] \subseteq owed'[u].kept[i]
                                                          /\ held[i] \subseteq owed'[u].held[i]
                      /\ owed'[u].fallen => repository'[u] = "memory"
    BY <1>1 DEF OwedOK
  <2>1. CASE u = t
    BY <1>1, <1>2, <1>3, <2>1 DEF ViewsTypes, Listing, GivenRepository
  <2>2. CASE u # t
    BY <1>1, <1>2, <2>2 DEF ViewsTypes, OwedOK, Listing
  <2> QED
    BY <2>1, <2>2
<1>8. ListsWhatWasSaved'
  <2> SUFFICES ASSUME NEW u \in Thread, place'[u] = "answer", call'[u].op = "list"
               PROVE  Honest(u)'
    BY DEF ListsWhatWasSaved
  <2>1. u # t /\ UNCHANGED <<place[u], call[u], repository[u], owed[u], shown[u]>>
    BY <1>1, <1>2 DEF ViewsTypes
  <2> QED
    BY <2>1 DEF ListsWhatWasSaved, Honest, Seen
<1> QED
  BY <1>4, <1>5, <1>6, <1>7, <1>8

\* What is told changes what the lists under way are owed, and no other.
LEMMA TellKeeps ==
  ASSUME ViewsInv, NEW postgres \in Told, NEW inMemory \in Told, Tell(postgres, inMemory),
         UNCHANGED <<call, shown>>,
         \A u \in Thread : call[u].op = "list" =>
           place'[u] = place[u] /\ repository'[u] = repository[u],
         \A u \in Thread : repository[u] = "memory" => repository'[u] = "memory"
  PROVE  /\ kept' = postgres /\ held' = inMemory
         /\ owed' \in [Thread -> [fallen : BOOLEAN, kept : Told, held : Told]]
         /\ OwedOK' /\ ListsWhatWasSaved'
<1> USE DEF ViewsInv
<1> DEFINE more(u) ==
      [fallen |-> owed[u].fallen, kept |-> Both(owed[u].kept, postgres),
       held |-> Both(owed[u].held, inMemory)]
<1>1. /\ kept' = postgres /\ held' = inMemory
      /\ owed' = [u \in Thread |-> IF Listing(u) THEN more(u) ELSE owed[u]]
  BY DEF Tell
<1>2. ASSUME NEW u \in Thread
      PROVE  /\ more(u) \in [fallen : BOOLEAN, kept : Told, held : Told]
             /\ more(u).fallen = owed[u].fallen
             /\ \A i \in ViewId : /\ more(u).kept[i] = owed[u].kept[i] \cup postgres[i]
                                  /\ more(u).held[i] = owed[u].held[i] \cup inMemory[i]
  <2>1. owed[u] \in [fallen : BOOLEAN, kept : Told, held : Told]
    BY DEF ViewsTypes
  <2>2. /\ Both(owed[u].kept, postgres) \in Told /\ Both(owed[u].held, inMemory) \in Told
        /\ owed[u].fallen \in BOOLEAN
    BY <2>1 DEF Both, Told
  <2> QED
    BY <2>2 DEF Both
<1> HIDE DEF more
<1>3. owed' \in [Thread -> [fallen : BOOLEAN, kept : Told, held : Told]]
  BY <1>1, <1>2 DEF ViewsTypes
<1>4. OwedOK'
  <2> SUFFICES ASSUME NEW u \in Thread
               PROVE  /\ Listing(u)' => \A i \in ViewId : /\ kept'[i] \subseteq owed'[u].kept[i]
                                                          /\ held'[i] \subseteq owed'[u].held[i]
                      /\ owed'[u].fallen => repository'[u] = "memory"
    BY DEF OwedOK
  <2>1. Listing(u)' => Listing(u)
    BY DEF Listing
  <2>2. owed'[u].fallen = owed[u].fallen
    BY <1>1, <1>2
  <2> QED
    BY <1>1, <1>2, <2>1, <2>2 DEF OwedOK
<1>5. ListsWhatWasSaved'
  <2> SUFFICES ASSUME NEW u \in Thread, place'[u] = "answer", call'[u].op = "list"
               PROVE  Honest(u)'
    BY DEF ListsWhatWasSaved
  <2>1. UNCHANGED <<place[u], call[u], repository[u], shown[u]>> /\ ~Listing(u)
    BY DEF Listing
  <2>2. owed'[u] = owed[u]
    BY <1>1, <2>1
  <2> QED
    BY <2>1, <2>2 DEF ListsWhatWasSaved, Honest, Seen
<1> QED
  BY <1>1, <1>3, <1>4, <1>5

\* The schema is there, or the process degrades.
LEMMA SchemaKeeps ==
  ASSUME ViewsInv, NEW t \in Thread, Schema(t)
  PROVE  ViewsInv'
<1> USE DEF ViewsInv, Goes, Degrades, Quiet
<1>1. ViewsTypes'
  BY DEF ViewsTypes, Schema
<1>2. MemoryOK'
  BY DEF ViewsTypes, MemoryOK, Schema
<1>3. AcknowledgedStays'
  BY DEF AcknowledgedStays, Schema
<1>4. OwedOK'
  BY DEF ViewsTypes, OwedOK, Listing, Schema
<1>5. ListsWhatWasSaved'
  <2> SUFFICES ASSUME NEW u \in Thread, place'[u] = "answer", call'[u].op = "list"
               PROVE  Honest(u)'
    BY DEF ListsWhatWasSaved
  <2>1. UNCHANGED <<place[u], call[u], repository[u], owed[u], shown[u]>>
    BY DEF ViewsTypes, Schema
  <2> QED
    BY <2>1 DEF ListsWhatWasSaved, Honest, Seen
<1> QED
  BY <1>1, <1>2, <1>3, <1>4, <1>5

\* A save puts a view under its id, and says so.
LEMMA Saves ==
  ASSUME ViewsTypes, NEW t \in Thread, call[t].op = "save", NEW told \in Told,
         NEW store \in [ViewId -> Each], \A i \in ViewId : store[i] \in told[i]
  PROVE  LET v == call[t].view IN
         /\ v \in View /\ v.id \in ViewId
         /\ Put(store, v) \in [ViewId -> Each]
         /\ Acknowledged(told, v) \in Told /\ Uncertain(told, v) \in Told
         /\ \A i \in ViewId : /\ Put(store, v)[i] \in Acknowledged(told, v)[i]
                              /\ Put(store, v)[i] \in Uncertain(told, v)[i]
                              /\ store[i] \in Uncertain(told, v)[i]
<1>1. call[t].view \in View /\ call[t].view.id \in ViewId
  BY ViewAssumption DEF ViewsTypes, Calls, NoCall
<1> QED
  BY <1>1 DEF Put, Acknowledged, Uncertain, Told, Each

\* Postgres saves, and answers or fails.
LEMMA SaveKeeps ==
  ASSUME ViewsInv, NEW t \in Thread, SaveToPostgres(t)
  PROVE  ViewsInv'
<1> USE DEF ViewsInv
<1> DEFINE v == call[t].view
<1>1. /\ place[t] = "work" /\ call[t].op = "save" /\ repository[t] = "postgres"
      /\ UNCHANGED <<memory, call, shown, retention, restarts>>
  BY DEF SaveToPostgres
<1>2. /\ Put(stored, v) \in [ViewId -> Each]
      /\ Acknowledged(kept, v) \in Told /\ Uncertain(kept, v) \in Told
      /\ \A i \in ViewId : /\ Put(stored, v)[i] \in Acknowledged(kept, v)[i]
                           /\ Put(stored, v)[i] \in Uncertain(kept, v)[i]
                           /\ stored[i] \in Uncertain(kept, v)[i]
  BY <1>1, Saves DEF ViewsTypes, AcknowledgedStays
<1>3. PICK told \in {Acknowledged(kept, v), Uncertain(kept, v)} :
        /\ Tell(told, held) /\ stored' \in {stored, Put(stored, v)}
        /\ \A i \in ViewId : stored'[i] \in told[i]
  <2>1. CASE stored' = Put(stored, v) /\ Tell(Acknowledged(kept, v), held)
    BY <1>2, <2>1
  <2>2. CASE stored' \in {stored, Put(stored, v)} /\ Tell(Uncertain(kept, v), held)
    BY <1>2, <2>2
  <2> QED
    BY <2>1, <2>2 DEF SaveToPostgres
<1> HIDE DEF v
<1>4. \/ Goes(t, "answer") /\ UNCHANGED <<degraded, repository>>
      \/ Degrades(t) /\ UNCHANGED place
  BY DEF SaveToPostgres
<1>5. /\ \A u \in Thread : call[u].op = "list" =>
           place'[u] = place[u] /\ repository'[u] = repository[u]
      /\ \A u \in Thread : repository[u] = "memory" => repository'[u] = "memory"
  BY <1>1, <1>4 DEF ViewsTypes, Goes, Degrades
<1>6. told \in Told /\ held \in Told
  BY <1>2 DEF ViewsTypes
<1>7. /\ kept' = told /\ held' = held
      /\ owed' \in [Thread -> [fallen : BOOLEAN, kept : Told, held : Told]]
      /\ OwedOK' /\ ListsWhatWasSaved'
  BY <1>1, <1>3, <1>5, <1>6, TellKeeps
<1>8. ViewsTypes'
  <2>1. stored' \in [ViewId -> Each]
    BY <1>2, <1>3 DEF ViewsTypes
  <2>2. /\ place' \in [Thread -> {"idle", "schema", "work", "answer"}]
        /\ repository' \in [Thread -> {"none", "postgres", "memory"}] /\ degraded' \in BOOLEAN
    BY <1>4 DEF ViewsTypes, Goes, Degrades
  <2> QED
    BY <1>1, <1>6, <1>7, <2>1, <2>2 DEF ViewsTypes
<1>9. MemoryOK'
  BY <1>1, <1>4, <1>7 DEF ViewsTypes, MemoryOK, Goes, Degrades
<1>10. AcknowledgedStays'
  BY <1>3, <1>7 DEF AcknowledgedStays
<1> QED
  BY <1>7, <1>8, <1>9, <1>10

\* A list shows, of a store, what its reader may see.
LEMMA Shows ==
  ASSUME NEW t \in Thread, NEW store \in [ViewId -> Each]
  PROVE  /\ Visible(t, store) \in [ViewId -> Each]
         /\ \A i \in ViewId : Visible(t, store)[i] = Seen(t, store[i])
  BY DEF Visible, Seen, Each

\* A list is answered from the repository it has.
LEMMA AnswerIsOwed ==
  ASSUME ViewsInv, NEW t \in Thread, place[t] = "work", call[t].op = "list",
         NEW store \in [ViewId -> Each], NEW told \in Told, \A i \in ViewId : store[i] \in told[i],
         \/ repository[t] = "memory" /\ told = held
         \/ repository[t] # "memory" /\ told = kept,
         shown' = [shown EXCEPT ![t] = Visible(t, store)], Goes(t, "answer"),
         UNCHANGED <<call, repository, owed>>
  PROVE  ListsWhatWasSaved'
<1> USE DEF ViewsInv
<1> SUFFICES ASSUME NEW u \in Thread, place'[u] = "answer", call'[u].op = "list"
             PROVE  Honest(u)'
  BY DEF ListsWhatWasSaved
<1>1. CASE u = t
  <2>1. Listing(t)
    BY DEF Listing
  <2>2. owed[t].fallen => repository[t] = "memory"
    BY DEF OwedOK
  <2>3. ASSUME NEW i \in ViewId
        PROVE  \E v \in (IF repository[t] = "memory" THEN owed[t].held ELSE owed[t].kept)[i] :
                 shown'[t][i] = Seen(t, v)
    <3>1. shown'[t][i] = Seen(t, store[i])
      BY Shows DEF ViewsTypes
    <3>2. store[i] \in (IF repository[t] = "memory" THEN owed[t].held ELSE owed[t].kept)[i]
      BY <2>1 DEF OwedOK
    <3> QED
      BY <3>1, <3>2
  <2> QED
    BY <1>1, <2>2, <2>3 DEF Honest, Seen
<1>2. CASE u # t
  <2>1. UNCHANGED <<place[u], call[u], repository[u], owed[u], shown[u]>>
    BY <1>2 DEF ViewsTypes, Goes
  <2> QED
    BY <2>1 DEF ListsWhatWasSaved, Honest, Seen
<1> QED
  BY <1>1, <1>2

\* Postgres lists, or fails.
LEMMA ListKeeps ==
  ASSUME ViewsInv, NEW t \in Thread, ListFromPostgres(t)
  PROVE  ViewsInv'
<1> USE DEF ViewsInv, Quiet
<1>1. /\ place[t] = "work" /\ call[t].op = "list" /\ repository[t] = "postgres"
      /\ UNCHANGED <<stored, memory, call, retention, restarts, kept, held, owed>>
  BY DEF ListFromPostgres
<1>2. CASE /\ shown' = [shown EXCEPT ![t] = Visible(t, stored)]
           /\ Goes(t, "answer") /\ UNCHANGED <<degraded, repository>>
  <2>1. Visible(t, stored) \in [ViewId -> Each]
    BY Shows DEF ViewsTypes
  <2>2. ViewsTypes'
    BY <1>1, <1>2, <2>1 DEF ViewsTypes, Goes
  <2>3. MemoryOK' /\ AcknowledgedStays'
    BY <1>1, <1>2 DEF MemoryOK, AcknowledgedStays
  <2>4. OwedOK'
    BY <1>1, <1>2 DEF ViewsTypes, OwedOK, Listing, Goes
  <2>5. ListsWhatWasSaved'
    BY <1>1, <1>2, AnswerIsOwed DEF ViewsTypes, AcknowledgedStays
  <2> QED
    BY <2>2, <2>3, <2>4, <2>5
<1>3. CASE Degrades(t) /\ UNCHANGED <<place, shown>>
  <2>1. ViewsTypes' /\ MemoryOK' /\ AcknowledgedStays'
    BY <1>1, <1>3 DEF ViewsTypes, MemoryOK, AcknowledgedStays, Degrades
  <2>2. OwedOK'
    BY <1>1, <1>3 DEF ViewsTypes, OwedOK, Listing, Degrades
  <2>3. ListsWhatWasSaved'
    <3> SUFFICES ASSUME NEW u \in Thread, place'[u] = "answer", call'[u].op = "list"
                 PROVE  Honest(u)'
      BY DEF ListsWhatWasSaved
    <3>1. UNCHANGED <<place[u], call[u], repository[u], owed[u], shown[u]>>
      BY <1>1, <1>3 DEF ViewsTypes, Degrades
    <3> QED
      BY <3>1 DEF ListsWhatWasSaved, Honest, Seen
  <2> QED
    BY <2>1, <2>2, <2>3
<1> QED
  BY <1>2, <1>3 DEF ListFromPostgres

\* The fallback repository saves or lists.
LEMMA MemoryKeeps ==
  ASSUME ViewsInv, NEW t \in Thread, UseMemory(t)
  PROVE  ViewsInv'
<1> USE DEF ViewsInv
<1>1. /\ place[t] = "work" /\ repository[t] = "memory" /\ Goes(t, "answer") /\ degraded
      /\ UNCHANGED <<stored, degraded, call, repository, retention, restarts>>
  BY DEF UseMemory, MemoryOK
<1>2. place' \in [Thread -> {"idle", "schema", "work", "answer"}]
  BY <1>1 DEF ViewsTypes, Goes
<1>3. CASE /\ call[t].op = "save" /\ memory' = Put(memory, call[t].view)
           /\ Tell(kept, Acknowledged(held, call[t].view)) /\ UNCHANGED shown
  <2> DEFINE v == call[t].view
  <2>1. /\ memory' \in [ViewId -> Each] /\ kept \in Told /\ Acknowledged(held, v) \in Told
        /\ \A i \in ViewId : memory'[i] \in Acknowledged(held, v)[i]
    BY <1>3, Saves DEF ViewsTypes, MemoryOK
  <2>2. \A u \in Thread : call[u].op = "list" => place'[u] = place[u]
    BY <1>1, <1>3 DEF ViewsTypes, Goes
  <2>3. /\ kept' = kept /\ held' = Acknowledged(held, v)
        /\ owed' \in [Thread -> [fallen : BOOLEAN, kept : Told, held : Told]]
        /\ OwedOK' /\ ListsWhatWasSaved'
    BY <1>1, <1>3, <2>1, <2>2, TellKeeps
  <2> HIDE DEF v
  <2>4. ViewsTypes'
    BY <1>1, <1>2, <1>3, <2>1, <2>3 DEF ViewsTypes
  <2>5. MemoryOK' /\ AcknowledgedStays'
    BY <1>1, <2>1, <2>3 DEF MemoryOK, AcknowledgedStays
  <2> QED
    BY <2>3, <2>4, <2>5
<1>4. CASE /\ call[t].op = "list" /\ shown' = [shown EXCEPT ![t] = Visible(t, memory)]
           /\ Quiet /\ UNCHANGED memory
  <2>1. Visible(t, memory) \in [ViewId -> Each]
    BY Shows DEF ViewsTypes
  <2>2. ViewsTypes'
    BY <1>1, <1>2, <1>4, <2>1 DEF ViewsTypes, Quiet
  <2>3. MemoryOK' /\ AcknowledgedStays'
    BY <1>1, <1>4 DEF MemoryOK, AcknowledgedStays, Quiet
  <2>4. OwedOK'
    BY <1>1, <1>4 DEF ViewsTypes, OwedOK, Listing, Goes, Quiet
  <2>5. ListsWhatWasSaved'
    BY <1>1, <1>4, AnswerIsOwed DEF ViewsTypes, MemoryOK, Quiet
  <2> QED
    BY <2>2, <2>3, <2>4, <2>5
<1> QED
  BY <1>3, <1>4 DEF UseMemory

\* A request ends.
LEMMA AnswerKeeps ==
  ASSUME ViewsInv, NEW t \in Thread, Answer(t)
  PROVE  ViewsInv'
<1> USE DEF ViewsInv, Goes
<1>1. /\ UNCHANGED <<stored, memory, degraded, retention, restarts, kept, held>>
      /\ place' = [place EXCEPT ![t] = "idle"] /\ call' = [call EXCEPT ![t] = NoCall]
      /\ repository' = [repository EXCEPT ![t] = "none"] /\ owed' = [owed EXCEPT ![t] = Nothing]
      /\ shown' = [shown EXCEPT ![t] = Fill(NoView)]
  BY DEF Answer
<1>2. /\ NoCall \in Calls /\ Nothing \in [fallen : BOOLEAN, kept : Told, held : Told]
      /\ Fill(NoView) \in [ViewId -> Each] /\ ~Nothing.fallen
  BY DEF Calls, Nothing, Told, Fill, Each
<1>3. ViewsTypes'
  BY <1>1, <1>2 DEF ViewsTypes
<1>4. MemoryOK' /\ AcknowledgedStays'
  BY <1>1 DEF ViewsTypes, MemoryOK, AcknowledgedStays
<1>5. OwedOK'
  BY <1>1, <1>2 DEF ViewsTypes, OwedOK, Listing
<1>6. ListsWhatWasSaved'
  <2> SUFFICES ASSUME NEW u \in Thread, place'[u] = "answer", call'[u].op = "list"
               PROVE  Honest(u)'
    BY DEF ListsWhatWasSaved
  <2>1. u # t /\ UNCHANGED <<place[u], call[u], repository[u], owed[u], shown[u]>>
    BY <1>1 DEF ViewsTypes
  <2> QED
    BY <2>1 DEF ListsWhatWasSaved, Honest, Seen
<1> QED
  BY <1>3, <1>4, <1>5, <1>6

\* A cleanup counts: its cutoff is kept for the deletion.
LEMMA CountKeeps ==
  ASSUME ViewsInv, NEW cutoff \in Cutoffs, Count(cutoff)
  PROVE  ViewsInv'
<1> USE DEF ViewsInv, Count, Quiet
<1>1. ViewsTypes'
  BY ViewAssumption DEF ViewsTypes
<1>2. MemoryOK' /\ AcknowledgedStays'
  BY DEF MemoryOK, AcknowledgedStays
<1>3. OwedOK'
  BY DEF OwedOK, Listing
<1>4. ListsWhatWasSaved'
  BY DEF ListsWhatWasSaved, Honest, Seen
<1> QED
  BY <1>1, <1>2, <1>3, <1>4

\* The deletion takes the expired views only, and says so.
LEMMA DeleteKeeps ==
  ASSUME ViewsInv, Delete
  PROVE  ViewsInv'
<1> USE DEF ViewsInv
<1>1. /\ retention' = NoCleanup
      /\ UNCHANGED <<memory, degraded, call, place, repository, shown, restarts>>
  BY DEF Delete
<1>2. /\ Cut \in [ViewId -> Each] /\ Remaining(kept) \in Told /\ MayRemain(kept) \in Told
      /\ \A i \in ViewId : /\ Cut[i] \in Remaining(kept)[i] /\ Cut[i] \in MayRemain(kept)[i]
                           /\ stored[i] \in MayRemain(kept)[i]
  <2>1. Cut \in [ViewId -> Each] /\ Remaining(kept) \in Told
    BY DEF ViewsTypes, Cut, Remaining, Told, Each
  <2>2. MayRemain(kept) \in Told
    BY <2>1 DEF ViewsTypes, MayRemain, Both, Told
  <2>3. ASSUME NEW i \in ViewId
        PROVE  Cut[i] \in Remaining(kept)[i]
    <3>1. stored[i] \in kept[i]
      BY DEF AcknowledgedStays
    <3>2. CASE Expired(stored[i])
      BY <3>1, <3>2 DEF Cut, Remaining
    <3>3. CASE ~Expired(stored[i])
      BY <3>1, <3>3 DEF Cut, Remaining
    <3> QED
      BY <3>2, <3>3
  <2> QED
    BY <2>1, <2>2, <2>3 DEF MayRemain, Both, AcknowledgedStays
<1>3. PICK told \in {Remaining(kept), MayRemain(kept)} :
        /\ Tell(told, held) /\ stored' \in {stored, Cut}
        /\ \A i \in ViewId : stored'[i] \in told[i]
  BY <1>2 DEF Delete
<1>4. told \in Told /\ held \in Told
  BY <1>2 DEF ViewsTypes
<1>5. /\ kept' = told /\ held' = held
      /\ owed' \in [Thread -> [fallen : BOOLEAN, kept : Told, held : Told]]
      /\ OwedOK' /\ ListsWhatWasSaved'
  BY <1>1, <1>3, <1>4, TellKeeps
<1>6. ViewsTypes'
  <2>1. stored' \in [ViewId -> Each] /\ NoCleanup \in [on : BOOLEAN, cutoff : Nat]
    BY <1>2, <1>3 DEF ViewsTypes, NoCleanup
  <2> QED
    BY <1>1, <1>4, <1>5, <2>1 DEF ViewsTypes
<1>7. MemoryOK' /\ AcknowledgedStays'
  BY <1>1, <1>3, <1>5 DEF MemoryOK, AcknowledgedStays
<1> QED
  BY <1>5, <1>6, <1>7

\* A process that starts has nothing in hand.
LEMMA RestartKeeps ==
  ASSUME ViewsInv, Restart
  PROVE  ViewsInv'
<1> USE DEF ViewsInv
<1>1. ViewsTypes'
  <2>1. /\ NoCall \in Calls /\ Nothing \in [fallen : BOOLEAN, kept : Told, held : Told]
        /\ NoCleanup \in [on : BOOLEAN, cutoff : Nat]
    BY DEF Calls, Nothing, NoCleanup, Told, Fill
  <2>2. Fill(NoView) \in [ViewId -> Each] /\ Fill({NoView}) \in Told
    BY DEF Fill, Told, Each
  <2>3. restarts' \in 0 .. MaxRestarts
    BY ModeAssumption DEF ViewsTypes, Restart
  <2> QED
    BY <2>1, <2>2, <2>3 DEF ViewsTypes, Restart, Of
<1>2. MemoryOK' /\ AcknowledgedStays'
  BY DEF MemoryOK, AcknowledgedStays, Restart, Of, Fill
<1>3. OwedOK'
  BY DEF OwedOK, Listing, Restart, Of, Nothing
<1>4. ListsWhatWasSaved'
  BY DEF ListsWhatWasSaved, Restart, Of
<1> QED
  BY <1>1, <1>2, <1>3, <1>4

\* Every step keeps the invariant.
LEMMA NextViews == ViewsInv /\ [ViewsNext]_viewsVars => ViewsInv'
<1> SUFFICES ASSUME ViewsInv, [ViewsNext]_viewsVars
             PROVE  ViewsInv'
  OBVIOUS
<1>1. ASSUME NEW t \in Thread, NEW q \in Calls, Begin(t, q)
      PROVE  ViewsInv'
  BY <1>1, BeginKeeps
<1>2. ASSUME NEW t \in Thread, Schema(t)
      PROVE  ViewsInv'
  BY <1>2, SchemaKeeps
<1>3. ASSUME NEW t \in Thread, SaveToPostgres(t)
      PROVE  ViewsInv'
  BY <1>3, SaveKeeps
<1>4. ASSUME NEW t \in Thread, ListFromPostgres(t)
      PROVE  ViewsInv'
  BY <1>4, ListKeeps
<1>5. ASSUME NEW t \in Thread, UseMemory(t)
      PROVE  ViewsInv'
  BY <1>5, MemoryKeeps
<1>6. ASSUME NEW t \in Thread, Answer(t)
      PROVE  ViewsInv'
  BY <1>6, AnswerKeeps
<1>7. ASSUME NEW cutoff \in Cutoffs, Count(cutoff)
      PROVE  ViewsInv'
  BY <1>7, CountKeeps
<1>8. CASE Delete
  BY <1>8, DeleteKeeps
<1>9. CASE Restart
  BY <1>9, RestartKeeps
<1>10. CASE UNCHANGED viewsVars
  BY <1>10 DEF viewsVars, ViewsInv, ViewsTypes, MemoryOK, AcknowledgedStays, OwedOK, Listing,
               ListsWhatWasSaved, Honest, Seen
<1> QED
  BY <1>1, <1>2, <1>3, <1>4, <1>5, <1>6, <1>7, <1>8, <1>9, <1>10 DEF ViewsNext

LEMMA ViewsInvariance == ViewsSpec => []ViewsInv
  BY InitViews, NextViews, PTL DEF ViewsSpec

\* A list shows under every id what was acknowledged last before it was asked
\* for, or something saved since or uncertain, in the repository that answers
\* it, which is the memory as soon as that has acknowledged anything: although
\* the process may degrade between any two steps of _available_repository, the
\* save or the list of any of its requests, and saves replace what is there.
THEOREM ListsAreComplete == ViewsSpec => []ListsWhatWasSaved
<1>1. ViewsInv => ListsWhatWasSaved
  BY DEF ViewsInv
<1> QED
  BY <1>1, ViewsInvariance, PTL

\* No failure, fallback or restart takes from Postgres the view it acknowledged
\* last under an id, nor brings back one that it replaced.
THEOREM SavedStays == ViewsSpec => []AcknowledgedStays
<1>1. ViewsInv => AcknowledgedStays
  BY DEF ViewsInv
<1> QED
  BY <1>1, ViewsInvariance, PTL

\* The token is asked for when a save begins, and not again.
MayBeSaved ==
  \A t \in Thread : call[t].op = "save" /\ Private /\ call[t].view.admin => call[t].token

LEMMA PermissionStays ==
  ASSUME ViewsTypes, MayBeSaved, [ViewsNext]_viewsVars
  PROVE  MayBeSaved'
<1>1. ASSUME NEW t \in Thread, NEW q \in Calls, Begin(t, q)
      PROVE  MayBeSaved'
  BY <1>1 DEF ViewsTypes, MayBeSaved, Begin
<1>2. ASSUME NEW t \in Thread, Answer(t)
      PROVE  MayBeSaved'
  BY <1>2 DEF ViewsTypes, MayBeSaved, Answer, NoCall
<1>3. CASE Restart
  BY <1>3 DEF MayBeSaved, Restart, Of, NoCall
<1>4. CASE UNCHANGED call
  BY <1>4 DEF MayBeSaved
<1>5. ASSUME NEW t \in Thread, Schema(t) \/ SaveToPostgres(t) \/ ListFromPostgres(t) \/ UseMemory(t)
      PROVE  UNCHANGED call
  BY <1>5 DEF Schema, SaveToPostgres, ListFromPostgres, UseMemory
<1>6. ASSUME (\E cutoff \in Cutoffs : Count(cutoff)) \/ Delete \/ UNCHANGED viewsVars
      PROVE  UNCHANGED call
  BY <1>6 DEF Count, Delete, viewsVars
<1> QED
  BY <1>1, <1>2, <1>3, <1>4, <1>5, <1>6 DEF ViewsNext

\* What a step does to what is stored.
LEMMA StoredStep ==
  ASSUME ViewsTypes, MayBeSaved, [ViewsNext]_viewsVars
  PROVE  GoesRightly
<1>1. ASSUME NEW t \in Thread, SaveToPostgres(t)
      PROVE  GoesRightly
  <2> DEFINE v == call[t].view
  <2>1. call[t].op = "save" /\ stored' \in {stored, Put(stored, v)}
    BY <1>1 DEF SaveToPostgres
  <2>2. v.id \in ViewId
    BY <2>1, ViewAssumption DEF ViewsTypes, Calls, NoCall
  <2>3. ASSUME NEW i \in ViewId, stored'[i] # stored[i]
        PROVE  call[t].view = stored'[i] /\ call[t].view.id = i
    BY <2>1, <2>2, <2>3 DEF ViewsTypes, Put
  <2>4. Private /\ call[t].view.admin => call[t].token
    BY <2>1 DEF MayBeSaved
  <2> QED
    BY <2>1, <2>3, <2>4 DEF GoesRightly
<1>2. CASE Delete
  BY <1>2 DEF Delete, Cut, Expired, GoesRightly
<1>3. CASE UNCHANGED stored
  BY <1>3 DEF GoesRightly
<1>4. ASSUME NEW t \in Thread,
             \/ \E q \in Calls : Begin(t, q)
             \/ Schema(t) \/ ListFromPostgres(t) \/ UseMemory(t) \/ Answer(t)
      PROVE  UNCHANGED stored
  BY <1>4 DEF Begin, Schema, ListFromPostgres, UseMemory, Answer
<1>5. ASSUME (\E cutoff \in Cutoffs : Count(cutoff)) \/ Restart \/ UNCHANGED viewsVars
      PROVE  UNCHANGED stored
  BY <1>5 DEF Count, Restart, viewsVars
<1> QED
  BY <1>1, <1>2, <1>3, <1>4, <1>5 DEF ViewsNext

\* What is stored goes by a save under its id that was permitted, or by a
\* cleanup with a later cutoff, and in no other way.
THEOREM SavesReplace == ViewsSpec => ReplacedOrExpired
<1>1. ViewsInit => MayBeSaved
  BY DEF ViewsInit, MayBeSaved, Of, NoCall
<1>2. ViewsInv => ViewsTypes
  BY DEF ViewsInv
<1>3. ViewsTypes /\ MayBeSaved /\ [ViewsNext]_viewsVars => MayBeSaved' /\ [GoesRightly]_viewsVars
  BY PermissionStays, StoredStep
<1> QED
  BY <1>1, <1>2, <1>3, ViewsInvariance, PTL DEF ViewsSpec, ReplacedOrExpired
=============================================================================
