-------------------------- MODULE SessionLifecycle --------------------------
(***************************************************************************)
(* What a reader of GET /v1/sessions may rely on: the abstract life of a   *)
(* session row (docs/architecture/03 section 6).  A stream owns its row    *)
(* from the INSERT on; its transcript gets at most one verdict, the row is *)
(* settled once, with the verdict if there is one and as failed if not,    *)
(* and only while its owner is at work.  A sweep aborts whatever runs.     *)
(* Streams die with the daemon, which sweeps before it serves again, so    *)
(* that a row is never seen running without a stream that may settle it,   *)
(* but for one that its owner has given up and no sweep has found yet.     *)
(***************************************************************************)
CONSTANTS Sessions

VARIABLES
  status,    \* of the row: "none", "running" or a terminal status
  verdict,   \* of the transcript: "none", or the status of session_ended
  owner,     \* "none", "working", "leaving" (done with its row), "gone"
  up         \* a daemon serves

vars == <<status, verdict, owner, up>>

Terminal == {"completed", "failed", "aborted", "timeout", "cancelled"}

SweepAll == status' = [s \in Sessions |-> IF status[s] = "running" THEN "aborted" ELSE status[s]]

Init ==
  /\ status = [s \in Sessions |-> "none"] /\ verdict = [s \in Sessions |-> "none"]
  /\ owner = [s \in Sessions |-> "none"] /\ up = TRUE

Start(s) ==
  /\ up /\ owner[s] = "none"
  /\ \/ status' = [status EXCEPT ![s] = "running"] /\ owner' = [owner EXCEPT ![s] = "working"]
     \/ owner' = [owner EXCEPT ![s] = "gone"] /\ UNCHANGED status
  /\ UNCHANGED <<verdict, up>>

Conclude(s) ==
  /\ up /\ owner[s] = "working" /\ verdict[s] = "none"
  /\ \E st \in Terminal : verdict' = [verdict EXCEPT ![s] = st]
  /\ UNCHANGED <<status, owner, up>>

\* A row that a sweep has aborted in the meantime is settled all the same.
Settle(s) ==
  /\ up /\ owner[s] = "working" /\ status[s] \in {"running", "aborted"}
  /\ status' = [status EXCEPT ![s] = IF verdict[s] = "none" THEN "failed" ELSE verdict[s]]
  /\ owner' = [owner EXCEPT ![s] = "leaving"]
  /\ UNCHANGED <<verdict, up>>

\* A statement has failed, or there was nobody to stream to.
GiveUp(s) ==
  /\ up /\ owner[s] = "working"
  /\ owner' = [owner EXCEPT ![s] = "leaving"]
  /\ UNCHANGED <<status, verdict, up>>

Leave(s) ==
  /\ up /\ owner[s] = "leaving"
  /\ owner' = [owner EXCEPT ![s] = "gone"]
  /\ UNCHANGED <<status, verdict, up>>

Sweep == up /\ SweepAll /\ UNCHANGED <<verdict, owner, up>>

Die ==
  /\ up /\ up' = FALSE
  /\ owner' = [s \in Sessions |-> IF owner[s] = "none" THEN "none" ELSE "gone"]
  /\ UNCHANGED <<status, verdict>>

Restart == ~up /\ up' = TRUE /\ SweepAll /\ UNCHANGED <<verdict, owner>>

Next ==
  \/ \E s \in Sessions : Start(s) \/ Conclude(s) \/ Settle(s) \/ GiveUp(s) \/ Leave(s)
  \/ Sweep \/ Die \/ Restart

Spec == Init /\ [][Next]_vars
=============================================================================
