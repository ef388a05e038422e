--------------------------- MODULE FirstRunProps ---------------------------
(***************************************************************************)
(* What the first-run door promises, over the behaviour in FirstRun.       *)
(***************************************************************************)
EXTENDS FirstRun

RowType    == [via : {"init", "first_run_mint", "dashboard", "cli"},
               by : Inits \cup Clis \cup Daemons \cup Requests, revoked : BOOLEAN]
WindowType == [digest : Inits \cup {NoOne}, failures : 0 .. MaxFailures, closed : BOOLEAN]
ReqType    == [at : Critical \cup {"idle", "format", "verify", "respond"},
               d : Daemons \cup {NoOne}, code : Codes]

TypeOK ==
  /\ home \subseteq {"dirs", "config", "db"}
  /\ nonce \in Inits \cup {"absent", "invalid"}
  /\ tokens \in Seq(RowType)
  /\ told \subseteq DOMAIN tokens
  /\ init \in [Inits -> {"idle", "checked", "ensured", "configured", "opened", "inserted",
                         "writing", "written", "done", "shown", "failed"}]
  /\ cli \in [Clis -> {"idle", "opened", "inserted"}]
  /\ phase \in [Daemons -> {"down", "opened", "bound", "probing", "serving", "draining"}]
  /\ window \in [Daemons -> WindowType]
  /\ lock \in [Daemons -> Requests \cup {NoOne}]
  /\ req \in [Requests -> ReqType]

\* The first-run mint makes the first row ever and never a second one,
\* whatever bootstrap-token, a second request or a second daemon with the
\* same nonce does between its re-check and its commit, and although every
\* token may be revoked later (handlers/mint.go Commit, CountTokensTx).
MintIsFirst == \A k \in DOMAIN tokens : tokens[k].via = "first_run_mint" => k = 1

\* A window has closed because its last strike fell or because the table
\* has a row; until then it has strikes left (window.go Consume).
WindowTellsWhy ==
  \A d \in Daemons : window[d].digest # NoOne =>
    IF window[d].closed THEN window[d].failures = MaxFailures \/ tokens # <<>>
    ELSE window[d].failures < MaxFailures

\* Mu is held by the one request that is past the comparison, so a mint is
\* committed under a window that is open for this very code; and no
\* finished, refused or killed request keeps it (window.go Consume).
CommitUnderLock ==
  /\ \A r \in Requests : Locked(r) =>
       /\ Handling(req[r].d) /\ lock[req[r].d] = r
       /\ ~window[req[r].d].closed /\ req[r].code = window[req[r].d].digest
  /\ \A d \in Daemons : lock[d] # NoOne => Locked(lock[d]) /\ req[lock[d]].d = d

\* The setup code is given up for one of three things only, whoever crashes
\* and at whatever step: a mint whose own row is the table's first and whose
\* 201, the one answer that shows its secret, is still to be sent; a start
\* that finds a row; a lockout, with the last strike it takes.  That the 201
\* then arrives, or that anybody holds the secret of that row, is not
\* promised (window.go Consume, lockoutLocked; probe.go stale cleanup).
NonceOutlivesMint ==
  [][nonce # "absent" /\ nonce' = "absent" =>
       \/ \E r \in Requests : /\ req[r].at = "remove" /\ req'[r].at = "respond"
                              /\ tokens # <<>> /\ tokens[1].by = r
                              /\ tokens[1].via = "first_run_mint"
       \/ tokens # <<>> /\ \E d \in Daemons : phase[d] = "bound"
       \/ \E d \in Daemons : /\ ~window[d].closed
                             /\ window'[d].closed /\ window'[d].failures = MaxFailures]_vars

\* Behind a lockout or a consumed window nothing is minted and no strike is
\* counted any more, however many requests were already past IsClosed when
\* it closed; only the end of the process reopens it (window.go Consume).
ClosedWindowStaysShut ==
  [][\A d \in Daemons : window[d].closed /\ window[d].digest # NoOne =>
       /\ window'[d] \in {window[d], NoWindow}
       /\ \A r \in Requests : req[r].d = d => req'[r].at # "remove"]_vars
=============================================================================
