--------------------------- MODULE ImportLifecycle ---------------------------
(***************************************************************************)
(* What the replay import service promises, with no request, no worker and *)
(* no database transaction in sight: an import is submitted with one pair  *)
(* of files, is decided once, and a replay session becomes public in the   *)
(* same step as the import that it shows.  A public session never changes  *)
(* and never disappears, and a completed import is linked to a session     *)
(* that shows its own files.                                               *)
(*                                                                         *)
(* The module is the specification that ReplayImport is shown to implement.*)
(***************************************************************************)
CONSTANTS Import, Content, Session, None

VARIABLES
  phase,   \* phase[i]: where import i stands
  files,   \* files[i]: the checksum pair submitted with import i
  link,    \* link[i]: the session a completed import i points to
  shown    \* shown[s]: the files session s shows to the public

vars == <<phase, files, link, shown>>

Init ==
  /\ phase = [i \in Import |-> "absent"]
  /\ files = [i \in Import |-> None]
  /\ link  = [i \in Import |-> None]
  /\ shown = [s \in Session |-> None]

Submit(i, c) ==
  /\ phase[i] = "absent"
  /\ phase' = [phase EXCEPT ![i] = "pending"]
  /\ files' = [files EXCEPT ![i] = c]
  /\ UNCHANGED <<link, shown>>

Accept(i) ==
  /\ phase[i] = "pending"
  /\ phase' = [phase EXCEPT ![i] = "publishing"]
  /\ UNCHANGED <<files, link, shown>>

(* The session is either new or already shows the very same files.        *)
Complete(i, s) ==
  /\ phase[i] = "publishing"
  /\ shown[s] \in {None, files[i]}
  /\ phase' = [phase EXCEPT ![i] = "completed"]
  /\ link'  = [link EXCEPT ![i] = s]
  /\ shown' = [shown EXCEPT ![s] = files[i]]
  /\ UNCHANGED files

Reject(i) ==
  /\ phase[i] \in {"pending", "publishing"}
  /\ phase' = [phase EXCEPT ![i] = "failed"]
  /\ UNCHANGED <<files, link, shown>>

Withdraw(i) ==
  /\ phase[i] = "pending"
  /\ phase' = [phase EXCEPT ![i] = "cancelled"]
  /\ UNCHANGED <<files, link, shown>>

Next ==
  \E i \in Import :
    \/ \E c \in Content : Submit(i, c)
    \/ Accept(i)
    \/ \E s \in Session : Complete(i, s)
    \/ Reject(i)
    \/ Withdraw(i)

Spec == Init /\ [][Next]_vars
=============================================================================
