---------------------------- MODULE ParquetReader ----------------------------
(***************************************************************************)
(* replay/parquet_reader.py: the verdict on a pair of files, and the       *)
(* tables a pair that passes is turned into.                               *)
(*                                                                         *)
(* A pair is a sequence of snapshot rows and one of quote rows.  An id, a  *)
(* time, an expiry or a flag that is missing or cannot be parsed is Bad.   *)
(* The numbers of a row that must be there are one cell, those that need   *)
(* not be another; of a quote's, the latter are its prices bid, ask, mid.  *)
(***************************************************************************)
EXTENDS Naturals, Sequences, FiniteSets, SequencesExt

CONSTANTS Id, Expiry, Contract, Time, Bad

ASSUME BadAssumption == Bad \notin Id \cup Expiry \cup Time
ASSUME TimeAssumption == Time \subseteq Nat

Cell == {"number", "missing", "garbage"}
SnapshotRow ==
  [id : Id \cup {Bad}, time : Time \cup {Bad}, expiry : Expiry \cup {Bad},
   required : Cell, optional : Cell]
QuoteRow ==
  [id : Id \cup {Bad}, time : Time \cup {Bad}, expiry : Expiry \cup {Bad},
   required : Cell, optional : Cell, contract : Contract, flag : BOOLEAN \cup {Bad}]

Rows(seq) == {seq[i] : i \in DOMAIN seq}
Expiries(seq) == {r.expiry : r \in Rows(seq)} \ {Bad}
Ids(seq) == {r.id : r \in Rows(seq)} \ {Bad}

\* What _validate_snapshot_row, _validate_quote_row and the parsing of the
\* expiry complain of.
IdIsBad(r) == r.id = Bad
TimeIsBad(r) == r.time = Bad
ExpiryIsBad(r) == r.expiry = Bad
NumberIsBad(r) == r.required # "number" \/ r.optional = "garbage"
FlagIsBad(q) == q.flag = Bad
SnapshotIsBad(r) == IdIsBad(r) \/ TimeIsBad(r) \/ ExpiryIsBad(r) \/ NumberIsBad(r)
QuoteIsBad(q) == SnapshotIsBad(q) \/ FlagIsBad(q)

\* _duplicates, of a column of the rows.
NoDuplicates(seq) == {}
Duplicates(seq) ==
  {seq[i] : i \in {j \in DOMAIN seq : seq[j] # Bad /\ \E k \in 1 .. j - 1 : seq[k] = seq[j]}}
Column(seq, field) == [i \in DOMAIN seq |-> seq[i][field]]

\* _is_valid_quote, and the rows _scan_quotes counts: those with a snapshot id.
IsValid(q) == q.flag = TRUE /\ q.optional # "missing"
Counted(file) == {i \in DOMAIN file.quotes : file.quotes[i].id # Bad}

\* read_replay_parquet_pair.  Files that cannot be read or lack a column, and
\* snapshots without a row, end it at once; all other errors add up.
Errors(file) ==
  IF ~file.readable THEN {"unreadable"}
  ELSE IF file.snapshots = <<>> THEN {"no snapshots"}
  ELSE LET S == file.snapshots  Q == file.quotes IN
       {e \in {"bad row", "expiries", "duplicate ids", "quote expiries", "mismatch",
               "no snapshot", "no valid quote"} :
          CASE e = "bad row" -> \/ \E r \in Rows(S) : SnapshotIsBad(r)
                              \/ \E q \in Rows(Q) : QuoteIsBad(q)
            [] e = "expiries" -> Cardinality(Expiries(S)) # 1
            [] e = "duplicate ids" -> Duplicates(Column(S, "id")) # {}
            [] e = "quote expiries" -> Cardinality(Expiries(Q)) # 1
            [] e = "mismatch" -> /\ Expiries(S) # {} /\ Expiries(Q) # {}
                                 /\ Expiries(S) # Expiries(Q)
            [] e = "no snapshot" -> ~(Ids(Q) \subseteq Ids(S))
            [] e = "no valid quote" -> ~\E i \in Counted(file) : IsValid(Q[i])}

Accepted(file) == Errors(file) = {}

\* _normalize_snapshot: the row in its place, source_order being one less.
SnapshotsOnce(file) ==
  [i \in 1 .. Cardinality({s.time : s \in Rows(file.snapshots)}) |->
     [id |-> file.snapshots[i].id, time |-> file.snapshots[i].time]]
Snapshots(file) ==
  [i \in DOMAIN file.snapshots |-> [id |-> file.snapshots[i].id, time |-> file.snapshots[i].time]]

\* iter_replay_quote_records and _normalize_quote: the order of a quote is
\* that of its snapshot.
OrderOf(file, id) == CHOOSE i \in DOMAIN file.snapshots : file.snapshots[i].id = id
Quotes(file) ==
  {[id |-> file.quotes[i].id, order |-> OrderOf(file, file.quotes[i].id),
    contract |-> file.quotes[i].contract, valid |-> IsValid(file.quotes[i])] :
     i \in Counted(file)}

\* The primary keys the rows are inserted under: the contracts of a snapshot
\* are not compared before.
Storable(file) ==
  /\ \A i, j \in DOMAIN file.snapshots :
       file.snapshots[i].id = file.snapshots[j].id => i = j
  /\ \A i, j \in Counted(file) :
       file.quotes[i].id = file.quotes[j].id /\ file.quotes[i].contract = file.quotes[j].contract
         => i = j
=============================================================================
