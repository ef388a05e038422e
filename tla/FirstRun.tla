------------------------------ MODULE FirstRun ------------------------------
(***************************************************************************)
(* How a home gets its first bearer token.  `meowthd init` inserts it      *)
(* (path A) or leaves a setup nonce behind (path B); `meowthd serve` opens *)
(* a mint window over that nonce; POST /bootstrap/mint turns the setup     *)
(* code into the first row of the tokens table, once; `meowthd             *)
(* bootstrap-token` inserts a row at any time.  All of them are processes  *)
(* that may die at any step and that share the home and the database; a    *)
(* daemon that drains its last requests may overlap with its successor.    *)
(*                                                                         *)
(* One file-system call, one SQL statement and one critical section of     *)
(* MintWindow.Mu is one step.  Requests that are refused before they touch *)
(* anything (a foreign peer or origin, an unmounted route, an unauthorized *)
(* /v1 call) leave no trace and are no steps.                              *)
(***************************************************************************)
EXTENDS Naturals, Sequences, FiniteSets

CONSTANTS
  Daemons,      \* meowthd serve processes
  Inits,        \* meowthd init processes; also the setup code each generates
  Clis,         \* meowthd bootstrap-token processes
  Requests,     \* POST /bootstrap/mint requests in flight
  NoOne,        \* no setup code, no request
  MaxFailures,  \* mint.MaxFailures
  MaxRows       \* bound: rows of the tokens table

ASSUME FirstRunAssumption ==
  /\ NoOne \notin Requests
  /\ NoOne \notin Inits
  /\ {"absent", "invalid", "wrong", "junk"} \cap Inits = {}
  /\ MaxFailures \in Nat \ {0}
  /\ MaxRows \in Nat

VARIABLES
  home,     \* what exists under the home root, the nonce aside
  nonce,    \* runtime/setup_nonce.hash
  tokens,   \* the tokens table in insertion order
  told,     \* the rows whose secret somebody was shown
  init,     \* where each init is
  cli,      \* where each bootstrap-token is
  phase,    \* where each serve is
  window,   \* the MintWindow of each daemon
  lock,     \* the holder of its Mu
  req       \* the mint requests

diskVars == <<home, nonce, tokens, told>>
mintVars == <<window, lock, req>>
vars == <<diskVars, init, cli, phase, mintVars>>

-----------------------------------------------------------------------------
\* by: the process or request that holds the secret of the row.
Row(via, p) == [via |-> via, by |-> p, revoked |-> FALSE]
Newest(p)   == {k \in DOMAIN tokens :
                 tokens[k].by = p /\ \A j \in DOMAIN tokens : j > k => tokens[j].by # p}
CountTokens == Len(tokens)
Room        == Len(tokens) < MaxRows
Codes       == Inits \cup {"wrong", "junk"}
NoWindow    == [digest |-> NoOne, failures |-> 0, closed |-> TRUE]
Idle        == [at |-> "idle", d |-> NoOne, code |-> "junk"]

\* The steps of Consume below its argon2 comparison hold Mu.
Critical    == {"recheck", "stat", "tx", "insert", "remove"}
Locked(r)   == req[r].at \in Critical

\* The listener belongs to one process; a draining one has closed it.
Listening(d) == phase[d] \in {"bound", "probing", "serving"}
Handling(d)  == phase[d] \in {"serving", "draining"}
\* Somebody can authenticate.
Keyed        == \E k \in told : ~tokens[k].revoked

Init ==
  /\ home = {} /\ nonce = "absent" /\ tokens = <<>> /\ told = {}
  /\ init = [i \in Inits |-> "idle"]
  /\ cli = [c \in Clis |-> "idle"]
  /\ phase = [d \in Daemons |-> "down"]
  /\ window = [d \in Daemons |-> NoWindow]
  /\ lock = [d \in Daemons |-> NoOne]
  /\ req = [r \in Requests |-> Idle]

-----------------------------------------------------------------------------
(* meowthd init.  A crash or an error at any step ends it: "failed".       *)

InitGoes(i, from, to) == init[i] = from /\ init' = [init EXCEPT ![i] = to]
InitOnly              == UNCHANGED <<cli, phase, mintVars>>

InitCheck(i) ==
  /\ home = {} /\ nonce = "absent"
  /\ InitGoes(i, "idle", "checked")
  /\ UNCHANGED diskVars /\ InitOnly

InitProvision(i) ==
  /\ \/ InitGoes(i, "checked", "ensured") /\ home' = home \cup {"dirs"}
     \/ InitGoes(i, "ensured", "configured") /\ home' = home \cup {"config"}
     \/ InitGoes(i, "configured", "opened") /\ home' = home \cup {"db"}
  /\ UNCHANGED <<nonce, tokens, told>> /\ InitOnly

\* Path A.
InitInsert(i) ==
  /\ Room
  /\ InitGoes(i, "opened", "inserted")
  /\ tokens' = Append(tokens, Row("init", i))
  /\ UNCHANGED <<home, nonce, told>> /\ InitOnly

\* Path B: os.WriteFile truncates or creates the file, then writes it.
InitCreateNonce(i) ==
  /\ InitGoes(i, "opened", "writing")
  /\ nonce' = "invalid"
  /\ UNCHANGED <<home, tokens, told>> /\ InitOnly

InitWriteNonce(i) ==
  /\ InitGoes(i, "writing", "written")
  /\ nonce' = i
  /\ UNCHANGED <<home, tokens, told>> /\ InitOnly

\* The banner shows the token, or the setup code.
InitBanner(i) ==
  /\ \/ /\ InitGoes(i, "inserted", "done")
        /\ told' = told \cup Newest(i)
     \/ /\ InitGoes(i, "written", "shown")
        /\ UNCHANGED told
  /\ UNCHANGED <<home, nonce, tokens>> /\ InitOnly

InitFails(i) ==
  /\ init[i] \notin {"idle", "done", "shown", "failed"}
  /\ init' = [init EXCEPT ![i] = "failed"]
  /\ UNCHANGED diskVars /\ InitOnly

-----------------------------------------------------------------------------
(* meowthd bootstrap-token.                                                *)

CliStart(c) ==
  /\ cli[c] = "idle" /\ {"dirs", "db"} \subseteq home
  /\ cli' = [cli EXCEPT ![c] = "opened"]
  /\ UNCHANGED <<diskVars, init, phase, mintVars>>

CliInsert(c) ==
  /\ cli[c] = "opened" /\ Room
  /\ tokens' = Append(tokens, Row("cli", c))
  /\ cli' = [cli EXCEPT ![c] = "inserted"]
  /\ UNCHANGED <<home, nonce, told, init, phase, mintVars>>

CliBanner(c) ==
  /\ cli[c] = "inserted"
  /\ told' = told \cup Newest(c)
  /\ cli' = [cli EXCEPT ![c] = "idle"]
  /\ UNCHANGED <<home, nonce, tokens, init, phase, mintVars>>

CliFails(c) ==
  /\ cli[c] # "idle"
  /\ cli' = [cli EXCEPT ![c] = "idle"]
  /\ UNCHANGED <<diskVars, init, phase, mintVars>>

-----------------------------------------------------------------------------
(* meowthd serve.                                                          *)

PhaseGoes(d, from, to) == phase[d] = from /\ phase' = [phase EXCEPT ![d] = to]

\* home.Ensure and store.Open need no init before them.
Serve(d) ==
  /\ PhaseGoes(d, "down", "opened")
  /\ home' = home \cup {"dirs", "db"}
  /\ UNCHANGED <<nonce, tokens, told, init, cli, mintVars>>

Listen(d) ==
  /\ PhaseGoes(d, "opened", IF \E e \in Daemons : Listening(e) THEN "down" ELSE "bound")
  /\ UNCHANGED <<diskVars, init, cli, mintVars>>

\* Probe up to CountTokens.  A remote access mode mounts no window; with
\* a row in the table a stale nonce is removed, if the file system lets it.
ProbeTokens(d) ==
  /\ \/ PhaseGoes(d, "bound", "serving") /\ UNCHANGED nonce
     \/ /\ CountTokens > 0
        /\ PhaseGoes(d, "bound", "serving")
        /\ nonce' = "absent"
     \/ /\ CountTokens = 0
        /\ PhaseGoes(d, "bound", "probing")
        /\ UNCHANGED nonce
  /\ UNCHANGED <<home, tokens, told, init, cli, mintVars>>

\* Probe from the Stat of the nonce to Open.
ProbeNonce(d) ==
  /\ PhaseGoes(d, "probing", "serving")
  /\ window' = IF nonce \in Inits
               THEN [window EXCEPT ![d] = [digest |-> nonce, failures |-> 0, closed |-> FALSE]]
               ELSE window
  /\ UNCHANGED <<diskVars, init, cli, lock, req>>

\* SIGTERM: the listener closes, requests in flight go on.
Shutdown(d) ==
  /\ PhaseGoes(d, "serving", "draining")
  /\ UNCHANGED <<diskVars, init, cli, mintVars>>

\* The process ends: drained, out of its ten seconds, or killed.
Stop(d) ==
  /\ phase[d] # "down"
  /\ phase' = [phase EXCEPT ![d] = "down"]
  /\ window' = [window EXCEPT ![d] = NoWindow]
  /\ lock' = [lock EXCEPT ![d] = NoOne]
  /\ req' = [r \in Requests |-> IF req[r].d = d THEN Idle ELSE req[r]]
  /\ UNCHANGED <<diskVars, init, cli>>

-----------------------------------------------------------------------------
(* POST /bootstrap/mint.                                                   *)

ReqGoes(r, to) == req' = [req EXCEPT ![r].at = to]
MintOnly       == UNCHANGED <<init, cli, phase>>
Release(r)     == lock' = [lock EXCEPT ![req[r].d] = NoOne]

\* A request that passes the gates and IsClosed; one that was accepted just
\* before the signal may get there while the daemon drains.
Arrive(r, d, code) ==
  /\ req[r].at = "idle" /\ Handling(d)
  /\ lock[d] = NoOne /\ ~window[d].closed
  /\ req' = [req EXCEPT ![r] =
               [at |-> IF code = "junk" THEN "format" ELSE "verify", d |-> d, code |-> code]]
  /\ UNCHANGED <<diskVars, window, lock>> /\ MintOnly

\* Fault: the lockout comes one strike late.
StrikeLate(d) ==
  LET n == window[d].failures + 1
  IN /\ window' = [window EXCEPT ![d].failures = n, ![d].closed = n > MaxFailures]
     /\ nonce' \in IF n > MaxFailures THEN {nonce, "absent"} ELSE {nonce}

\* A counted failure, and the lockout the last of them triggers.
Strike(d) ==
  LET n == window[d].failures + 1
  IN /\ window' = [window EXCEPT ![d].failures = n, ![d].closed = n >= MaxFailures]
     /\ nonce' \in IF n >= MaxFailures THEN {nonce, "absent"} ELSE {nonce}

\* recordCountedFailure, for a malformed body and for a misshapen code.
CountFormat(r) ==
  LET d == req[r].d
  IN /\ req[r].at = "format" /\ lock[d] = NoOne
     /\ IF window[d].closed THEN UNCHANGED <<window, nonce>> ELSE Strike(d)
     /\ req' = [req EXCEPT ![r] = Idle]
     /\ UNCHANGED <<home, tokens, told, lock>> /\ MintOnly

\* Fault: IsClosed is not asked again under Mu.
VerifyStale(r) ==
  LET d == req[r].d
  IN /\ req[r].at = "verify" /\ lock[d] = NoOne
     /\ req[r].code = window[d].digest
     /\ lock' = [lock EXCEPT ![d] = r]
     /\ ReqGoes(r, "recheck")
     /\ UNCHANGED <<diskVars, window>> /\ MintOnly

\* The comparison reads nothing that changes; its outcome is used under Mu.
Verify(r) ==
  LET d == req[r].d
  IN /\ req[r].at = "verify" /\ lock[d] = NoOne
     /\ \/ /\ window[d].closed
           /\ req' = [req EXCEPT ![r] = Idle]
           /\ UNCHANGED <<window, nonce, lock>>
        \/ /\ ~window[d].closed /\ req[r].code # window[d].digest
           /\ Strike(d)
           /\ req' = [req EXCEPT ![r] = Idle]
           /\ UNCHANGED lock
        \/ /\ ~window[d].closed /\ req[r].code = window[d].digest
           /\ lock' = [lock EXCEPT ![d] = r]
           /\ ReqGoes(r, "recheck")
           /\ UNCHANGED <<window, nonce>>
     /\ UNCHANGED <<home, tokens, told>> /\ MintOnly

\* Fault: an early return forgets the unlock.
RefuseHoldingMu(r) ==
  /\ req' = [req EXCEPT ![r] = Idle]
  /\ UNCHANGED lock

\* Consume returns with the window open: the answer is a 404.
Refuse(r) ==
  /\ Release(r)
  /\ req' = [req EXCEPT ![r] = Idle]

Recheck(r) ==
  /\ req[r].at = "recheck"
  /\ IF CountTokens = 0 THEN ReqGoes(r, "stat") /\ UNCHANGED lock ELSE Refuse(r)
  /\ UNCHANGED <<diskVars, window>> /\ MintOnly

StatNonce(r) ==
  /\ req[r].at = "stat"
  /\ IF nonce # "absent" THEN ReqGoes(r, "tx") /\ UNCHANGED lock ELSE Refuse(r)
  /\ UNCHANGED <<diskVars, window>> /\ MintOnly

\* Fault: the nonce is removed before the row is there.
BeginTxAfterRemove(r) ==
  /\ req[r].at = "tx"
  /\ IF CountTokens = 0
     THEN ReqGoes(r, "insert") /\ nonce' = "absent" /\ UNCHANGED lock
     ELSE Refuse(r) /\ UNCHANGED nonce
  /\ UNCHANGED <<home, tokens, told, window>> /\ MintOnly

\* Commit up to CountTokensTx, which fixes the transaction's snapshot.
BeginTx(r) ==
  /\ req[r].at = "tx"
  /\ IF CountTokens = 0 THEN ReqGoes(r, "insert") /\ UNCHANGED lock ELSE Refuse(r)
  /\ UNCHANGED <<diskVars, window>> /\ MintOnly

\* Fault: the transaction counts nothing, so nothing ties it to an empty table.
InsertTokenBlind(r) ==
  /\ req[r].at = "insert"
  /\ tokens' = Append(tokens, Row("first_run_mint", r))
  /\ ReqGoes(r, "remove")
  /\ UNCHANGED <<home, nonce, told, window, lock>> /\ MintOnly

\* SQLite lets a transaction write only on top of the snapshot it read.
InsertToken(r) ==
  /\ req[r].at = "insert"
  /\ IF tokens = <<>>
     THEN /\ tokens' = Append(tokens, Row("first_run_mint", r))
          /\ ReqGoes(r, "remove")
          /\ UNCHANGED lock
     ELSE Refuse(r) /\ UNCHANGED tokens
  /\ UNCHANGED <<home, nonce, told, window>> /\ MintOnly

\* A statement fails, or the request context ends under it.
SqlFails(r) ==
  /\ req[r].at \in {"recheck", "tx", "insert"}
  /\ Refuse(r)
  /\ UNCHANGED <<diskVars, window>> /\ MintOnly

RemoveNonce(r) ==
  LET d == req[r].d
  IN /\ req[r].at = "remove"
     /\ nonce' \in {nonce, "absent"}
     /\ window' = [window EXCEPT ![d].closed = TRUE]
     /\ Release(r)
     /\ ReqGoes(r, "respond")
     /\ UNCHANGED <<home, tokens, told>> /\ MintOnly

\* The 201 reaches the client or is lost with its connection.
Respond(r) ==
  /\ req[r].at = "respond"
  /\ told' \in {told, told \cup Newest(r)}
  /\ req' = [req EXCEPT ![r] = Idle]
  /\ UNCHANGED <<home, nonce, tokens, window, lock>> /\ MintOnly

-----------------------------------------------------------------------------
(* POST and DELETE /v1/tokens by somebody who holds a live token.          *)

CreateToken(d) ==
  /\ Handling(d) /\ Keyed /\ Room
  /\ tokens' = Append(tokens, Row("dashboard", d))
  /\ told' \in {told, told \cup {Len(tokens) + 1}}
  /\ UNCHANGED <<home, nonce, init, cli, phase, mintVars>>

RevokeToken(d) ==
  /\ Handling(d) /\ Keyed
  /\ \E k \in DOMAIN tokens : /\ ~tokens[k].revoked
                              /\ tokens' = [tokens EXCEPT ![k].revoked = TRUE]
  /\ UNCHANGED <<home, nonce, told, init, cli, phase, mintVars>>

-----------------------------------------------------------------------------
InitStep(i) == InitCheck(i) \/ InitProvision(i) \/ InitInsert(i) \/ InitCreateNonce(i)
                 \/ InitWriteNonce(i) \/ InitBanner(i) \/ InitFails(i)
CliStep(c)  == CliStart(c) \/ CliInsert(c) \/ CliBanner(c) \/ CliFails(c)
ServeStep(d) == Serve(d) \/ Listen(d) \/ ProbeTokens(d) \/ ProbeNonce(d)
                  \/ Shutdown(d) \/ Stop(d) \/ CreateToken(d) \/ RevokeToken(d)
MintStep(r) == CountFormat(r) \/ Verify(r) \/ Recheck(r) \/ StatNonce(r) \/ BeginTx(r)
                 \/ InsertToken(r) \/ SqlFails(r) \/ RemoveNonce(r) \/ Respond(r)

Next ==
  \/ \E i \in Inits : InitStep(i)
  \/ \E c \in Clis : CliStep(c)
  \/ \E d \in Daemons : ServeStep(d)
  \/ \E r \in Requests, d \in Daemons, code \in Codes : Arrive(r, d, code)
  \/ \E r \in Requests : MintStep(r)

Spec == Init /\ [][Next]_vars
=============================================================================
