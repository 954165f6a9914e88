---------------------------- MODULE MCReplayReads ----------------------------
(* A small instance of ReplayReads: every order of up to three snapshots at *)
(* two times, and files with one thing wrong each.                          *)
EXTENDS ReplayReads

CONSTANTS a, b, c, e1, e2, c1, c2

MCTime == {1, 3}
MCSeedTimes == <<1, 3>>
Ids3 == <<a, b, c>>

S(i, t) == [id |-> Ids3[i], time |-> t, expiry |-> e1, required |-> "number",
            optional |-> "number"]
Q(i, k) == [id |-> Ids3[i], time |-> 1, expiry |-> e1, required |-> "number",
            optional |-> "number", contract |-> k, flag |-> TRUE]
Good(times) ==
  [readable |-> TRUE, snapshots |-> [i \in DOMAIN times |-> S(i, times[i])],
   quotes |-> [i \in DOMAIN times |-> Q(i, c1)] \o <<[Q(1, c2) EXCEPT !.optional = "missing"]>>]

Plain == Good(<<1, 3>>)
Wrong ==
  {[Plain EXCEPT !.readable = FALSE], [Plain EXCEPT !.snapshots = <<>>],
   [Plain EXCEPT !.snapshots[2].id = a, !.quotes[2].id = a],
   [Plain EXCEPT !.snapshots[1].time = Bad], [Plain EXCEPT !.snapshots[2].expiry = e2],
   [Plain EXCEPT !.snapshots[2].required = "missing"],
   [Plain EXCEPT !.snapshots[1].optional = "garbage"], [Plain EXCEPT !.quotes[1].flag = Bad],
   [Plain EXCEPT !.quotes[1].id = c], [Plain EXCEPT !.quotes[1].id = Bad],
   [Plain EXCEPT !.quotes[2].contract = c2, !.quotes[2].id = a],
   [Plain EXCEPT !.quotes[1].expiry = e2],
   [Plain EXCEPT !.quotes[1].flag = FALSE, !.quotes[2].optional = "missing"],
   [Plain EXCEPT !.quotes = <<>>]}
MCFiles == {Good(t) : t \in {<<1>>} \cup [1 .. 2 -> MCTime] \cup [1 .. 3 -> MCTime]} \cup Wrong
=============================================================================
