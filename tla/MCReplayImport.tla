--------------------------- MODULE MCReplayImport ---------------------------
(* Small instances of ReplayImport for TLC.                                *)
EXTENDS ReplayImport, TLC

CONSTANTS MCImport, MCRequest, good, twin, bad, s1, s2

MCContent == {good, twin, bad}
MCValid == {good, twin}
MCSession == {s1, s2}

(* `good' and `twin' are different valid files that collide on a session   *)
(* id; `bad' does not validate.                                            *)
MCSessionOf == good :> s1 @@ twin :> s1 @@ bad :> s2

OneContent == {good}
OneSessionOf == good :> s1

Symmetric == Permutations(MCImport) \cup Permutations(MCRequest)
=============================================================================
