-------------------------- MODULE FirstRun_proofs --------------------------
(***************************************************************************)
(* The first-run door for every number of daemons, inits, bootstrap-token  *)
(* processes and mint requests, and every number of strikes.               *)
(*                                                                         *)
(* The steps fall in two classes.  A quiet step leaves the windows, their  *)
(* locks and the requests alone, keeps every handling daemon handling and  *)
(* never empties the table (QuietSteps); what it does to the invariant is  *)
(* proved once.  The steps of Consume, Probe's last one and the end of a   *)
(* process are the others, and each has a step of its own.                 *)
(***************************************************************************)
EXTENDS FirstRunProps, TLAPS

\* A request in flight belongs to a daemon that is still there.
InFlight == \A r \in Requests : req[r].at # "idle" => req[r].d \in Daemons /\ Handling(req[r].d)

\* A daemon that serves nothing has no window, and no window is open by default.
NoWindowYet ==
  \A d \in Daemons : /\ ~Handling(d) => window[d] = NoWindow
                     /\ window[d].digest = NoOne => window[d].closed

\* The nonce is removed after the row is there.
RowBeforeRemove == \A r \in Requests : req[r].at = "remove" => tokens # <<>>

Inv  == InFlight /\ NoWindowYet /\ RowBeforeRemove /\ WindowTellsWhy /\ CommitUnderLock
IInv == TypeOK /\ MintIsFirst /\ Inv

-----------------------------------------------------------------------------
(* Types                                                                   *)

DiskType ==
  /\ home \subseteq {"dirs", "config", "db"}
  /\ nonce \in Inits \cup {"absent", "invalid"}
  /\ tokens \in Seq(RowType)
  /\ told \subseteq DOMAIN tokens

ProcessType ==
  /\ init \in [Inits -> {"idle", "checked", "ensured", "configured", "opened", "inserted",
                         "writing", "written", "done", "shown", "failed"}]
  /\ cli \in [Clis -> {"idle", "opened", "inserted"}]
  /\ phase \in [Daemons -> {"down", "opened", "bound", "probing", "serving", "draining"}]

MintType ==
  /\ window \in [Daemons -> WindowType]
  /\ lock \in [Daemons -> Requests \cup {NoOne}]
  /\ req \in [Requests -> ReqType]

\* A row appended is a row, and no secret shown is lost by it.
LEMMA Appended ==
  ASSUME TypeOK, NEW e \in RowType
  PROVE  /\ Append(tokens, e) \in Seq(RowType)
         /\ DOMAIN Append(tokens, e) = DOMAIN tokens \cup {Len(tokens) + 1}
         /\ Append(tokens, e) # <<>>
         /\ Append(tokens, e)[Len(tokens) + 1] = e
         /\ \A k \in DOMAIN tokens : Append(tokens, e)[k] = tokens[k]
<1>1. tokens \in Seq(RowType)
  BY DEF TypeOK
<1> QED
  BY <1>1

\* Revoking writes no other column.
LEMMA Revoked ==
  ASSUME TypeOK, NEW k \in DOMAIN tokens
  PROVE  LET t == [tokens EXCEPT ![k].revoked = TRUE]
         IN /\ t \in Seq(RowType)
            /\ DOMAIN t = DOMAIN tokens
            /\ t # <<>>
            /\ \A j \in DOMAIN tokens : t[j].via = tokens[j].via
<1>1. tokens \in Seq(RowType) /\ tokens \in [1 .. Len(tokens) -> RowType] /\ Len(tokens) \in Nat
  BY DEF TypeOK
<1> DEFINE t == [tokens EXCEPT ![k].revoked = TRUE]
<1>2. t \in [1 .. Len(tokens) -> RowType]
  BY <1>1 DEF RowType
<1>3. t \in Seq(RowType)
  BY <1>1, <1>2
<1>4. DOMAIN t = DOMAIN tokens /\ t # <<>>
  BY <1>1, <1>3
<1>5. \A j \in DOMAIN tokens : t[j].via = tokens[j].via
  BY <1>1 DEF RowType
<1> QED
  BY <1>3, <1>4, <1>5

\* A new token is a row.
LEMMA RowTyped ==
  ASSUME NEW via \in {"init", "first_run_mint", "dashboard", "cli"},
         NEW p \in Inits \cup Clis \cup Daemons \cup Requests
  PROVE  Row(via, p) \in RowType /\ Row(via, p).via = via
  BY DEF Row, RowType

\* The disk keeps its type.
LEMMA DiskHolds == TypeOK /\ [Next]_vars => DiskType'
<1> SUFFICES ASSUME TypeOK, [Next]_vars PROVE DiskType'
  OBVIOUS
<1>1. \A p : Newest(p) \subseteq DOMAIN tokens
  BY DEF Newest
<1>2. ASSUME NEW i \in Inits, InitInsert(i) PROVE DiskType'
  BY <1>2, Appended, RowTyped DEF InitInsert, DiskType, TypeOK
<1>3. ASSUME NEW i \in Inits,
             InitCheck(i) \/ InitProvision(i) \/ InitCreateNonce(i) \/ InitWriteNonce(i)
               \/ InitBanner(i) \/ InitFails(i)
      PROVE DiskType'
  BY <1>1, <1>3 DEF InitCheck, InitProvision, InitCreateNonce, InitWriteNonce, InitBanner,
                    InitFails, diskVars, DiskType, TypeOK
<1>4. ASSUME NEW c \in Clis, CliInsert(c) PROVE DiskType'
  BY <1>4, Appended, RowTyped DEF CliInsert, DiskType, TypeOK
<1>5. ASSUME NEW c \in Clis, CliStart(c) \/ CliBanner(c) \/ CliFails(c) PROVE DiskType'
  BY <1>1, <1>5 DEF CliStart, CliBanner, CliFails, diskVars, DiskType, TypeOK
<1>6. ASSUME NEW d \in Daemons, CreateToken(d) PROVE DiskType'
  <2>1. Row("dashboard", d) \in RowType
    BY RowTyped
  <2> QED
    BY <1>6, <2>1, Appended DEF CreateToken, DiskType, TypeOK
<1>7. ASSUME NEW d \in Daemons, RevokeToken(d) PROVE DiskType'
  BY <1>7, Revoked DEF RevokeToken, DiskType, TypeOK
<1>8. ASSUME NEW d \in Daemons,
             Serve(d) \/ Listen(d) \/ ProbeTokens(d) \/ ProbeNonce(d) \/ Shutdown(d) \/ Stop(d)
      PROVE DiskType'
  BY <1>8 DEF Serve, Listen, ProbeTokens, ProbeNonce, Shutdown, Stop, diskVars, DiskType, TypeOK
<1>9. ASSUME NEW r \in Requests, InsertToken(r) PROVE DiskType'
  BY <1>9, Appended, RowTyped DEF InsertToken, DiskType, TypeOK
<1>10. ASSUME NEW r \in Requests,
             CountFormat(r) \/ Verify(r) \/ Recheck(r) \/ StatNonce(r) \/ BeginTx(r)
               \/ SqlFails(r) \/ RemoveNonce(r) \/ Respond(r)
      PROVE DiskType'
  BY <1>1, <1>10 DEF CountFormat, Verify, Recheck, StatNonce, BeginTx, SqlFails, RemoveNonce,
                    Respond, Strike, diskVars, DiskType, TypeOK
<1>11. ASSUME UNCHANGED diskVars PROVE DiskType'
  BY <1>11 DEF diskVars, DiskType, TypeOK
<1> QED
  BY <1>2, <1>3, <1>4, <1>5, <1>6, <1>7, <1>8, <1>9, <1>10, <1>11
     DEF Next, InitStep, CliStep, ServeStep, MintStep, Arrive, vars

\* So do the commands and the daemons.
LEMMA ProcessHolds == TypeOK /\ [Next]_vars => ProcessType'
<1> SUFFICES ASSUME TypeOK, [Next]_vars PROVE ProcessType'
  OBVIOUS
<1>1. ASSUME NEW i \in Inits, InitStep(i) PROVE ProcessType'
  BY <1>1 DEF TypeOK, ProcessType, InitStep, InitCheck, InitProvision, InitInsert,
              InitCreateNonce, InitWriteNonce, InitBanner, InitFails, InitGoes, InitOnly
<1>2. ASSUME NEW c \in Clis, CliStep(c) PROVE ProcessType'
  BY <1>2 DEF TypeOK, ProcessType, CliStep, CliStart, CliInsert, CliBanner, CliFails
<1>3. ASSUME NEW d \in Daemons, ServeStep(d) PROVE ProcessType'
  BY <1>3 DEF TypeOK, ProcessType, ServeStep, PhaseGoes, Serve, Listen, ProbeTokens,
              ProbeNonce, Shutdown, Stop, CreateToken, RevokeToken
<1>4. ASSUME UNCHANGED <<init, cli, phase>> PROVE ProcessType'
  BY <1>4 DEF TypeOK, ProcessType
<1> QED
  BY <1>1, <1>2, <1>3, <1>4
     DEF Next, vars, MintStep, MintOnly, Arrive, CountFormat, Verify, Recheck, StatNonce,
         BeginTx, InsertToken, SqlFails, RemoveNonce, Respond

\* What a strike does to a window that is still open.
LEMMA StrikeTyped ==
  ASSUME TypeOK, Inv, NEW d \in Daemons, ~window[d].closed, Strike(d)
  PROVE  /\ window' \in [Daemons -> WindowType]
         /\ window'[d].digest = window[d].digest /\ window[d].digest # NoOne
         /\ \A e \in Daemons \ {d} : window'[e] = window[e]
         /\ IF window'[d].closed THEN window'[d].failures = MaxFailures
            ELSE window'[d].failures < MaxFailures
         /\ nonce' \in {nonce, "absent"}
         /\ nonce' # nonce => window'[d].closed
<1>1. window[d].digest # NoOne /\ window[d].failures < MaxFailures
  BY DEF Inv, NoWindowYet, WindowTellsWhy
<1>2. window \in [Daemons -> WindowType] /\ window[d].failures \in Nat /\ MaxFailures \in Nat
  BY FirstRunAssumption DEF TypeOK, WindowType
<1> DEFINE n == window[d].failures + 1
<1>3. /\ window' = [window EXCEPT ![d].failures = n, ![d].closed = n >= MaxFailures]
      /\ nonce' \in IF n >= MaxFailures THEN {nonce, "absent"} ELSE {nonce}
  BY DEF Strike
<1>4. n \in 0 .. MaxFailures /\ (n >= MaxFailures <=> n = MaxFailures)
  BY <1>1, <1>2
<1> DEFINE b == n >= MaxFailures
<1>4a. b \in BOOLEAN /\ (b <=> n = MaxFailures)
  BY <1>4
<1>4b. window' = [window EXCEPT ![d].failures = n, ![d].closed = b]
  BY <1>3
<1> HIDE DEF n, b
<1> DEFINE w == [window[d] EXCEPT !.failures = n, !.closed = b]
<1>5. w \in WindowType /\ w.digest = window[d].digest /\ w.failures = n /\ w.closed = b
  BY <1>2, <1>4, <1>4a DEF WindowType
<1>6. window' = [window EXCEPT ![d] = w]
  BY <1>2, <1>4b DEF WindowType
<1> HIDE DEF w
<1>7. window' \in [Daemons -> WindowType] /\ window'[d] = w
        /\ \A e \in Daemons \ {d} : window'[e] = window[e]
  BY <1>2, <1>5, <1>6
<1>8. nonce' \in {nonce, "absent"} /\ (nonce' # nonce => b)
  BY <1>3 DEF b
<1>9. IF b THEN n = MaxFailures ELSE n < MaxFailures
  BY <1>4, <1>4a, <1>2
<1> QED
  BY <1>1, <1>5, <1>7, <1>8, <1>9

\* A request in a step of Consume belongs to a daemon.
LEMMA OwnDaemon ==
  ASSUME TypeOK, Inv, NEW r \in Requests, req[r].at # "idle"
  PROVE  req[r].d \in Daemons /\ Handling(req[r].d)
BY DEF Inv, InFlight

\* A free request and the window of a daemon that has none.
LEMMA IdleTyped == Idle \in ReqType /\ NoWindow \in WindowType
  BY FirstRunAssumption DEF Idle, NoWindow, ReqType, WindowType, Codes

\* Requests, windows and locks keep their types.
LEMMA MintHolds == TypeOK /\ Inv /\ [Next]_vars => MintType'
<1> SUFFICES ASSUME TypeOK, Inv, [Next]_vars PROVE MintType'
  OBVIOUS
<1>1. /\ window \in [Daemons -> WindowType]
      /\ lock \in [Daemons -> Requests \cup {NoOne}]
      /\ req \in [Requests -> ReqType]
  BY DEF TypeOK
<1>2. ASSUME UNCHANGED mintVars PROVE MintType'
  BY <1>1, <1>2 DEF mintVars, MintType
<1>3. ASSUME NEW d \in Daemons, ProbeNonce(d) PROVE MintType'
  <2>1. CASE nonce \in Inits
    <3>1. [digest |-> nonce, failures |-> 0, closed |-> FALSE] \in WindowType
      BY <2>1, FirstRunAssumption DEF WindowType
    <3> QED
      BY <1>1, <1>3, <2>1, <3>1 DEF ProbeNonce, MintType
  <2>2. CASE nonce \notin Inits
    BY <1>1, <1>3, <2>2 DEF ProbeNonce, MintType
  <2> QED
    BY <2>1, <2>2
<1>4. ASSUME NEW d \in Daemons, Stop(d) PROVE MintType'
  BY <1>1, <1>4, IdleTyped DEF Stop, MintType
<1>5. ASSUME NEW r \in Requests, NEW d \in Daemons, NEW code \in Codes, Arrive(r, d, code)
      PROVE MintType'
  <2>1. [at |-> IF code = "junk" THEN "format" ELSE "verify", d |-> d, code |-> code] \in ReqType
    BY DEF ReqType
  <2> QED
    BY <1>1, <1>5, <2>1 DEF Arrive, MintType
<1>6. ASSUME NEW r \in Requests, NEW to \in Critical \cup {"respond"}, ReqGoes(r, to)
      PROVE req' \in [Requests -> ReqType]
  <2>1. [req[r] EXCEPT !.at = to] \in ReqType
    BY <1>1 DEF ReqType
  <2>2. req' = [req EXCEPT ![r] = [req[r] EXCEPT !.at = to]]
    BY <1>1, <1>6 DEF ReqGoes, ReqType
  <2> QED
    BY <1>1, <2>1, <2>2
<1>7. ASSUME NEW r \in Requests, req' = [req EXCEPT ![r] = Idle]
      PROVE req' \in [Requests -> ReqType]
  BY <1>1, <1>7, IdleTyped
<1>8. ASSUME NEW r \in Requests, CountFormat(r) PROVE MintType'
  BY <1>1, <1>7, <1>8, OwnDaemon, StrikeTyped DEF CountFormat, MintType
<1>9. ASSUME NEW r \in Requests, Verify(r) PROVE MintType'
  <2>1. CASE window[req[r].d].closed
    BY <1>1, <1>7, <1>9, <2>1 DEF Verify, MintType
  <2>2. CASE ~window[req[r].d].closed /\ req[r].code # window[req[r].d].digest
    BY <1>1, <1>7, <1>9, <2>2, OwnDaemon, StrikeTyped DEF Verify, MintType
  <2>3. CASE ~window[req[r].d].closed /\ req[r].code = window[req[r].d].digest
    BY <1>1, <1>6, <1>9, <2>3 DEF Verify, MintType, Critical
  <2> QED
    BY <2>1, <2>2, <2>3
<1>10. ASSUME NEW r \in Requests,
             Recheck(r) \/ StatNonce(r) \/ BeginTx(r) \/ InsertToken(r) \/ SqlFails(r)
      PROVE MintType'
  BY <1>1, <1>6, <1>7, <1>10
     DEF Recheck, StatNonce, BeginTx, InsertToken, SqlFails, Refuse, Release, MintType, Critical
<1>11. ASSUME NEW r \in Requests, RemoveNonce(r) PROVE MintType'
  <2>1. window' \in [Daemons -> WindowType]
    BY <1>1, <1>11 DEF RemoveNonce, WindowType
  <2> QED
    BY <1>1, <1>6, <1>11, <2>1 DEF RemoveNonce, Release, MintType
<1>12. ASSUME NEW r \in Requests, Respond(r) PROVE MintType'
  BY <1>1, <1>7, <1>12 DEF Respond, MintType
<1> QED
  BY <1>2, <1>3, <1>4, <1>5, <1>8, <1>9, <1>10, <1>11, <1>12
     DEF Next, InitStep, CliStep, ServeStep, MintStep, vars, mintVars,
         InitCheck, InitProvision, InitInsert, InitCreateNonce, InitWriteNonce, InitBanner,
         InitFails, InitOnly, CliStart, CliInsert, CliBanner, CliFails,
         Serve, Listen, ProbeTokens, Shutdown, CreateToken, RevokeToken

\* The types are kept, given the rest of the invariant.
LEMMA TypeHolds == TypeOK /\ Inv /\ [Next]_vars => TypeOK'
  BY DiskHolds, ProcessHolds, MintHolds DEF TypeOK, DiskType, ProcessType, MintType

-----------------------------------------------------------------------------
(* The table                                                               *)

\* Once there is a row there is a row, and the first-run mint makes only the
\* first one: it writes nothing but an empty table's first row.
LEMMA RowsHold ==
  ASSUME TypeOK, MintIsFirst, [Next]_vars
  PROVE  MintIsFirst' /\ (tokens # <<>> => tokens' # <<>>)
<1> DEFINE Goal == MintIsFirst' /\ (tokens # <<>> => tokens' # <<>>)
<1>1. tokens \in Seq(RowType) /\ Len(tokens) \in Nat /\ DOMAIN tokens = 1 .. Len(tokens)
  BY DEF TypeOK
<1>2. ASSUME NEW via \in {"init", "dashboard", "cli"},
             NEW p \in Inits \cup Clis \cup Daemons \cup Requests,
             tokens' = Append(tokens, Row(via, p))
      PROVE Goal
  BY <1>2, RowTyped, Appended DEF MintIsFirst
<1>3. ASSUME NEW d \in Daemons, RevokeToken(d) PROVE Goal
  <2>1. PICK k \in DOMAIN tokens : tokens' = [tokens EXCEPT ![k].revoked = TRUE]
    BY <1>3 DEF RevokeToken
  <2> QED
    BY <2>1, Revoked DEF MintIsFirst
<1>4. ASSUME NEW r \in Requests, InsertToken(r) PROVE Goal
  <2>1. CASE tokens = <<>>
    <3>1. tokens' = Append(tokens, Row("first_run_mint", r)) /\ Len(tokens) = 0
      BY <1>4, <2>1 DEF InsertToken
    <3> QED
      BY <3>1, <1>1, RowTyped, Appended DEF MintIsFirst
  <2>2. CASE tokens # <<>>
    BY <1>4, <2>2 DEF InsertToken, MintIsFirst
  <2> QED
    BY <2>1, <2>2
<1>5. ASSUME UNCHANGED tokens PROVE Goal
  BY <1>5 DEF MintIsFirst
<1>6. ASSUME NEW i \in Inits, InitStep(i) PROVE Goal
  BY <1>2, <1>5, <1>6 DEF InitStep, InitCheck, InitProvision, InitInsert, InitCreateNonce,
                          InitWriteNonce, InitBanner, InitFails, diskVars
<1>7. ASSUME NEW c \in Clis, CliStep(c) PROVE Goal
  BY <1>2, <1>5, <1>7 DEF CliStep, CliStart, CliInsert, CliBanner, CliFails, diskVars
<1>8. ASSUME NEW d \in Daemons, ServeStep(d) PROVE Goal
  BY <1>2, <1>3, <1>5, <1>8 DEF ServeStep, Serve, Listen, ProbeTokens, ProbeNonce, Shutdown,
                                Stop, CreateToken, diskVars
<1>9. ASSUME NEW r \in Requests, MintStep(r) PROVE Goal
  BY <1>4, <1>5, <1>9 DEF MintStep, CountFormat, Verify, Recheck, StatNonce, BeginTx, SqlFails,
                          RemoveNonce, Respond, diskVars
<1> QED
  BY <1>5, <1>6, <1>7, <1>8, <1>9 DEF Next, Arrive, vars, diskVars

-----------------------------------------------------------------------------
(* Windows, locks and requests                                             *)

Quiet ==
  /\ UNCHANGED mintVars
  /\ \A d \in Daemons : Handling(d) => Handling(d)'

\* The steps, by what they do to the door: most do nothing.
LEMMA QuietSteps ==
  ASSUME TypeOK, [Next]_vars
  PROVE  \/ Quiet
         \/ \E d \in Daemons : ProbeNonce(d) \/ Stop(d)
         \/ \E r \in Requests, d \in Daemons, code \in Codes : Arrive(r, d, code)
         \/ \E r \in Requests : MintStep(r)
<1>1. ASSUME NEW i \in Inits, InitStep(i) PROVE Quiet
  BY <1>1 DEF Quiet, InitStep, InitCheck, InitProvision, InitInsert, InitCreateNonce,
              InitWriteNonce, InitBanner, InitFails, InitOnly, Handling
<1>2. ASSUME NEW c \in Clis, CliStep(c) PROVE Quiet
  BY <1>2 DEF Quiet, CliStep, CliStart, CliInsert, CliBanner, CliFails, Handling
<1>3. ASSUME NEW d \in Daemons, ServeStep(d), ~ProbeNonce(d), ~Stop(d) PROVE Quiet
  <2>1. phase \in [Daemons -> {"down", "opened", "bound", "probing", "serving", "draining"}]
    BY DEF TypeOK
  <2> QED
    BY <1>3, <2>1 DEF Quiet, ServeStep, Serve, Listen, ProbeTokens, Shutdown, CreateToken,
                      RevokeToken, PhaseGoes, Handling
<1>4. ASSUME UNCHANGED vars PROVE Quiet
  BY <1>4 DEF vars, Quiet, Handling
<1> QED
  BY <1>1, <1>2, <1>3, <1>4 DEF Next

\* A step that does nothing to the door keeps it shut.
LEMMA QuietHolds ==
  ASSUME TypeOK, Inv, Quiet, tokens # <<>> => tokens' # <<>>
  PROVE  Inv'
<1> USE DEF Inv, Quiet, mintVars
<1>1. InFlight' /\ RowBeforeRemove'
  BY DEF InFlight, RowBeforeRemove
<1>2. NoWindowYet'
  BY DEF NoWindowYet
<1>3. WindowTellsWhy'
  BY DEF WindowTellsWhy
<1>4. CommitUnderLock'
  <2>1. ASSUME NEW r \in Requests, Locked(r)' PROVE Handling(req[r].d)'
    BY <2>1 DEF InFlight, Locked, Critical
  <2> QED
    BY <2>1 DEF CommitUnderLock, Locked
<1> QED
  BY <1>1, <1>2, <1>3, <1>4

\* The probe opens a window on an empty table.
LEMMA ProbeHolds ==
  ASSUME TypeOK, Inv, NEW d \in Daemons, ProbeNonce(d)
  PROVE  Inv'
<1>1. /\ phase \in [Daemons -> {"down", "opened", "bound", "probing", "serving", "draining"}]
      /\ window \in [Daemons -> WindowType]
      /\ phase[d] = "probing" /\ ~Handling(d) /\ phase' = [phase EXCEPT ![d] = "serving"]
      /\ UNCHANGED <<lock, req, tokens>>
  BY DEF TypeOK, ProbeNonce, PhaseGoes, Handling, diskVars
<1>2. /\ \A e \in Daemons : Handling(e) => Handling(e)'
      /\ \A e \in Daemons \ {d} : window'[e] = window[e] /\ (Handling(e)' => Handling(e))
      /\ Handling(d)'
  BY <1>1 DEF Handling, ProbeNonce
<1>3. /\ window[d] = NoWindow
      /\ \/ window'[d] = NoWindow
         \/ window'[d].digest # NoOne /\ window'[d].failures = 0 /\ ~window'[d].closed
  BY <1>1, FirstRunAssumption DEF Inv, NoWindowYet, ProbeNonce
<1>4. \A r \in Requests : req[r].at # "idle" => req[r].d # d /\ req[r].d \in Daemons
  BY <1>1 DEF Inv, InFlight
<1>5. InFlight' /\ RowBeforeRemove'
  BY <1>1, <1>2 DEF Inv, InFlight, RowBeforeRemove
<1>6. NoWindowYet'
  BY <1>2, <1>3 DEF Inv, NoWindowYet, NoWindow
<1>7. WindowTellsWhy'
  BY <1>1, <1>2, <1>3, FirstRunAssumption DEF Inv, WindowTellsWhy, NoWindow
<1>8. CommitUnderLock'
  BY <1>1, <1>2, <1>4 DEF Inv, CommitUnderLock, Locked, Critical
<1> QED
  BY <1>5, <1>6, <1>7, <1>8 DEF Inv

\* A daemon that stops takes its requests with it.
LEMMA StopHolds ==
  ASSUME TypeOK, Inv, NEW d \in Daemons, Stop(d)
  PROVE  Inv'
<1>1. /\ window \in [Daemons -> WindowType] /\ lock \in [Daemons -> Requests \cup {NoOne}]
      /\ req \in [Requests -> ReqType] /\ phase \in [Daemons -> {"down", "opened", "bound", "probing", "serving", "draining"}]
  BY DEF TypeOK
<1>2. /\ window'[d] = NoWindow /\ lock'[d] = NoOne /\ UNCHANGED tokens
      /\ \A e \in Daemons \ {d} : /\ window'[e] = window[e] /\ lock'[e] = lock[e]
                                  /\ Handling(e)' <=> Handling(e)
      /\ \A r \in Requests : req'[r] = IF req[r].d = d THEN Idle ELSE req[r]
  BY <1>1 DEF Stop, Handling, diskVars
<1>3. InFlight' /\ RowBeforeRemove'
  BY <1>2 DEF Inv, InFlight, RowBeforeRemove, Idle
<1>4. NoWindowYet'
  <2>1. ASSUME NEW e \in Daemons
        PROVE (~Handling(e)' => window'[e] = NoWindow)
                /\ (window'[e].digest = NoOne => window'[e].closed)
    <3>1. CASE e = d
      BY <1>2, <3>1 DEF NoWindow
    <3>2. CASE e # d
      BY <1>2, <3>2 DEF Inv, NoWindowYet
    <3> QED
      BY <3>1, <3>2
  <2> QED
    BY <2>1 DEF NoWindowYet
<1>5. WindowTellsWhy'
  BY <1>2 DEF Inv, WindowTellsWhy, NoWindow
<1>6. CommitUnderLock'
  <2>1. ASSUME NEW r \in Requests, Locked(r)'
        PROVE req'[r] = req[r] /\ req[r].d \in Daemons \ {d}
    BY <1>2, <2>1 DEF Inv, InFlight, Locked, Critical, Idle
  <2>2. ASSUME NEW e \in Daemons, lock'[e] # NoOne
        PROVE e # d /\ lock[e] \in Requests /\ req'[lock[e]] = req[lock[e]]
    BY <1>1, <1>2, <2>2 DEF Inv, CommitUnderLock
  <2> QED
    BY <1>2, <2>1, <2>2 DEF Inv, CommitUnderLock, Locked
<1> QED
  BY <1>3, <1>4, <1>5, <1>6 DEF Inv

\* What every step of a request leaves alone: the other requests, and the
\* windows and locks of every daemon but d, where it runs.
Local(r, d) ==
  /\ UNCHANGED phase
  /\ req' \in [Requests -> ReqType]
  /\ \A q \in Requests \ {r} : req'[q] = req[q]
  /\ \A e \in Daemons \ {d} : window'[e] = window[e] /\ lock'[e] = lock[e]
  /\ tokens # <<>> => tokens' # <<>>

\* A step of r that ends it, or moves it on: what it has to establish.
LEMMA LocalHolds ==
  ASSUME TypeOK, Inv, NEW r \in Requests, NEW d \in Daemons, Local(r, d), Handling(d),
         Locked(r) => req[r].d = d,
         window'[d].digest = window[d].digest,
         window[d].digest = NoOne => window'[d].closed,
         window[d].digest # NoOne =>
           IF window'[d].closed THEN window'[d].failures = MaxFailures \/ tokens' # <<>>
           ELSE window'[d].failures < MaxFailures,
         req'[r].at # "idle" => req'[r].d = d,
         req'[r].at = "remove" => tokens' # <<>>,
         IF Locked(r)' THEN lock'[d] = r /\ ~window'[d].closed /\ req'[r].code = window'[d].digest
         ELSE lock'[d] = NoOne,
         lock[d] \in {r, NoOne}
  PROVE  Inv'
<1>1. \A e \in Daemons : Handling(e)' <=> Handling(e)
  BY DEF Local, Handling
<1>2. InFlight' /\ RowBeforeRemove'
  BY <1>1 DEF Local, Inv, InFlight, RowBeforeRemove
<1>3. NoWindowYet'
  BY <1>1 DEF Local, Inv, NoWindowYet
<1>4. WindowTellsWhy'
  BY DEF Local, Inv, WindowTellsWhy
<1>5. CommitUnderLock'
  <2>1. ASSUME NEW q \in Requests \ {r}, Locked(q)'
        PROVE Locked(q) /\ req'[q] = req[q] /\ req[q].d \in Daemons \ {d}
    <3>1. Locked(q) /\ req'[q] = req[q] /\ req[q].d \in Daemons
      BY <2>1 DEF Local, Locked, Inv, InFlight, Critical
    <3>2. lock[req[q].d] = q /\ q # NoOne
      BY <3>1, FirstRunAssumption DEF Inv, CommitUnderLock
    <3> QED
      BY <3>1, <3>2
  <2>2. ASSUME NEW e \in Daemons \ {d}, lock'[e] # NoOne
        PROVE lock[e] \in Requests \ {r} /\ req'[lock[e]] = req[lock[e]]
    <3>1. /\ lock[e] \in Requests /\ lock[e] # NoOne /\ req[lock[e]].d = e
          /\ Locked(lock[e])
      BY <2>2 DEF Local, Inv, CommitUnderLock, TypeOK
    <3> QED
      BY <3>1 DEF Local
  <2>3. Locked(r)' => req'[r].d = d /\ Handling(d)'
    BY <1>1 DEF Locked, Critical
  <2>4. \A q \in Requests : Locked(q)' =>
          /\ Handling(req[q].d)' /\ lock'[req'[q].d] = q
          /\ ~window'[req'[q].d].closed /\ req'[q].code = window'[req'[q].d].digest
    <3>1. ASSUME NEW q \in Requests \ {r}, Locked(q)'
          PROVE /\ Handling(req[q].d)' /\ lock'[req'[q].d] = q
                /\ ~window'[req'[q].d].closed /\ req'[q].code = window'[req'[q].d].digest
      BY <1>1, <2>1, <3>1 DEF Local, Inv, CommitUnderLock
    <3> QED
      BY <2>3, <3>1
  <2>5. \A e \in Daemons : lock'[e] # NoOne => Locked(lock[e])' /\ req'[lock'[e]].d = e
    BY <2>2, <2>3 DEF Local, Inv, CommitUnderLock, Locked
  <2> QED
    BY <2>4, <2>5 DEF CommitUnderLock
<1> QED
  BY <1>2, <1>3, <1>4, <1>5 DEF Inv

\* A request arrives with a code, right or wrong.
LEMMA ArriveHolds ==
  ASSUME TypeOK, Inv, MintType',
         NEW r \in Requests, NEW d \in Daemons, NEW code \in Codes, Arrive(r, d, code)
  PROVE  Inv'
<1>1. /\ req[r].at = "idle" /\ Handling(d) /\ lock[d] = NoOne /\ ~window[d].closed
      /\ UNCHANGED <<window, lock, phase, tokens>>
  BY DEF Arrive, MintOnly, diskVars, Handling
<1>2. /\ req' \in [Requests -> ReqType] /\ \A q \in Requests \ {r} : req'[q] = req[q]
      /\ req'[r].d = d /\ req'[r].at \in {"format", "verify"}
  BY DEF Arrive, MintType, TypeOK
<1>3. Local(r, d) /\ ~Locked(r) /\ ~Locked(r)'
  BY <1>1, <1>2 DEF Local, Locked, Critical
<1>4. window[d].digest # NoOne => window[d].failures < MaxFailures
  BY <1>1 DEF Inv, WindowTellsWhy
<1>5. window[d].digest # NoOne
  BY <1>1 DEF Inv, NoWindowYet
<1> QED
  BY <1>1, <1>2, <1>3, <1>4, <1>5, LocalHolds

\* What a step of a request starts from.
LEMMA Before ==
  ASSUME TypeOK, Inv, NEW r \in Requests, req[r].at # "idle"
  PROVE  /\ req[r].d \in Daemons /\ Handling(req[r].d)
         /\ Locked(r) => /\ lock[req[r].d] = r /\ ~window[req[r].d].closed
                         /\ req[r].code = window[req[r].d].digest
                         /\ window[req[r].d].digest # NoOne
                         /\ window[req[r].d].failures < MaxFailures
         /\ ~Locked(r) => lock[req[r].d] # r
<1>1. req[r].d \in Daemons /\ Handling(req[r].d)
  BY DEF Inv, InFlight
<1> QED
  BY <1>1, FirstRunAssumption DEF Inv, CommitUnderLock, NoWindowYet, WindowTellsWhy

\* A request that ends without touching its window, and releases Mu if it
\* held it.
LEMMA EndHolds ==
  ASSUME TypeOK, Inv, NEW r \in Requests, req[r].at # "idle", MintOnly,
         req' = [req EXCEPT ![r] = Idle], UNCHANGED <<window, tokens>>,
         \/ Locked(r) /\ Release(r)
         \/ lock[req[r].d] = NoOne /\ UNCHANGED lock
  PROVE  Inv'
<1> DEFINE d == req[r].d
<1>1. /\ req \in [Requests -> ReqType] /\ lock \in [Daemons -> Requests \cup {NoOne}]
      /\ d \in Daemons /\ Handling(d) /\ lock[d] \in Requests \cup {NoOne}
  BY Before DEF TypeOK
<1>2. /\ req' \in [Requests -> ReqType] /\ \A q \in Requests \ {r} : req'[q] = req[q]
      /\ req'[r] = Idle
  BY <1>1, IdleTyped
<1>3. /\ lock'[d] = NoOne /\ \A e \in Daemons \ {d} : lock'[e] = lock[e]
  BY <1>1 DEF Release
<1>4. lock[d] \in {r, NoOne}
  BY Before
<1>5. Local(r, d) /\ ~Locked(r)' /\ req'[r].at = "idle"
  BY <1>2, <1>3 DEF Local, MintOnly, Locked, Critical, Idle
<1>6. /\ window[d].digest = NoOne => window[d].closed
      /\ window[d].digest # NoOne =>
           IF window[d].closed THEN window[d].failures = MaxFailures \/ tokens # <<>>
           ELSE window[d].failures < MaxFailures
  BY <1>1 DEF Inv, NoWindowYet, WindowTellsWhy
<1> HIDE DEF d
<1> QED
  BY <1>1, <1>3, <1>4, <1>5, <1>6, LocalHolds DEF d

\* A request that keeps Mu and goes from one step of Consume to the next.
LEMMA GoesOnHolds ==
  ASSUME TypeOK, Inv, NEW r \in Requests, Locked(r), MintOnly,
         NEW to \in Critical, ReqGoes(r, to), UNCHANGED <<window, lock>>,
         tokens # <<>> => tokens' # <<>>, to = "remove" => tokens' # <<>>
  PROVE  Inv'
<1> DEFINE d == req[r].d
<1>1. /\ req \in [Requests -> ReqType] /\ d \in Daemons /\ Handling(d)
      /\ req[r].at # "idle" /\ lock[d] = r /\ ~window[d].closed
      /\ req[r].code = window[d].digest /\ window[d].digest # NoOne
      /\ window[d].failures < MaxFailures
  BY Before DEF TypeOK, Locked, Critical
<1>2. /\ req' \in [Requests -> ReqType] /\ \A q \in Requests \ {r} : req'[q] = req[q]
      /\ req'[r].at = to /\ req'[r].d = d /\ req'[r].code = req[r].code
  BY <1>1 DEF ReqGoes, ReqType
<1>3. Local(r, d) /\ Locked(r)'
  BY <1>2 DEF Local, MintOnly, Locked
<1> HIDE DEF d
<1> QED
  BY <1>1, <1>2, <1>3, LocalHolds DEF d

\* A strike counts, and closes the window at the limit.
LEMMA CountHolds ==
  ASSUME TypeOK, Inv, NEW r \in Requests, lock[req[r].d] = NoOne, req[r].at # "idle",
         MintOnly, ~window[req[r].d].closed, Strike(req[r].d),
         req' = [req EXCEPT ![r] = Idle], UNCHANGED <<tokens, lock>>
  PROVE  Inv'
<1> DEFINE d == req[r].d
<1>1. req \in [Requests -> ReqType] /\ d \in Daemons /\ Handling(d)
  BY Before DEF TypeOK
<1>2. /\ req' \in [Requests -> ReqType] /\ \A q \in Requests \ {r} : req'[q] = req[q]
      /\ req'[r] = Idle
  BY <1>1, IdleTyped
<1>3. /\ window'[d].digest = window[d].digest /\ window[d].digest # NoOne
      /\ \A e \in Daemons \ {d} : window'[e] = window[e]
      /\ IF window'[d].closed THEN window'[d].failures = MaxFailures
         ELSE window'[d].failures < MaxFailures
  BY <1>1, StrikeTyped
<1>4. Local(r, d) /\ ~Locked(r)' /\ req'[r].at = "idle"
  BY <1>2, <1>3 DEF Local, MintOnly, Locked, Critical, Idle
<1> HIDE DEF d
<1> QED
  BY <1>1, <1>3, <1>4, LocalHolds DEF d

\* A step of the handler, from the lock to the answer.
LEMMA MintStepHolds ==
  ASSUME TypeOK, Inv, MintIsFirst, [Next]_vars, NEW r \in Requests, MintStep(r)
  PROVE  Inv'
<1>1. tokens # <<>> => tokens' # <<>>
  BY RowsHold
<1>2. CASE CountFormat(r)
  <2>1. CASE window[req[r].d].closed
    BY <1>2, <2>1, EndHolds DEF CountFormat
  <2>2. CASE ~window[req[r].d].closed
    BY <1>2, <2>2, CountHolds DEF CountFormat
  <2> QED
    BY <2>1, <2>2
<1>3. CASE Verify(r)
  <2>1. CASE window[req[r].d].closed
    BY <1>3, <2>1, EndHolds DEF Verify
  <2>2. CASE ~window[req[r].d].closed /\ req[r].code # window[req[r].d].digest
    BY <1>3, <2>2, CountHolds DEF Verify
  <2>3. CASE ~window[req[r].d].closed /\ req[r].code = window[req[r].d].digest
    <3> DEFINE d == req[r].d
    <3>1. /\ req \in [Requests -> ReqType] /\ d \in Daemons /\ Handling(d)
          /\ lock \in [Daemons -> Requests \cup {NoOne}]
          /\ lock[d] = NoOne /\ req[r].at = "verify"
      BY <1>3, Before DEF TypeOK, Verify
    <3>2. /\ lock' = [lock EXCEPT ![d] = r] /\ req' = [req EXCEPT ![r].at = "recheck"]
          /\ UNCHANGED <<window, tokens>> /\ MintOnly
      BY <1>3, <2>3 DEF Verify, ReqGoes
    <3>3. /\ req' \in [Requests -> ReqType] /\ \A q \in Requests \ {r} : req'[q] = req[q]
          /\ req'[r].at = "recheck" /\ req'[r].d = d /\ req'[r].code = req[r].code
      BY <3>1, <3>2 DEF ReqType, Critical
    <3>4. lock'[d] = r /\ \A e \in Daemons \ {d} : lock'[e] = lock[e]
      BY <3>1, <3>2
    <3>5. Local(r, d) /\ Locked(r)' /\ ~Locked(r)
      BY <3>1, <3>2, <3>3, <3>4 DEF Local, MintOnly, Locked, Critical
    <3>6. window[d].digest # NoOne /\ window[d].failures < MaxFailures
      BY <2>3, <3>1 DEF Inv, NoWindowYet, WindowTellsWhy
    <3> HIDE DEF d
    <3> QED
      BY <2>3, <3>1, <3>2, <3>3, <3>4, <3>5, <3>6, LocalHolds DEF d
  <2> QED
    BY <2>1, <2>2, <2>3
<1>4. CASE Recheck(r) \/ StatNonce(r) \/ BeginTx(r) \/ SqlFails(r)
  <2>1. Locked(r) /\ req[r].at # "idle" /\ MintOnly /\ UNCHANGED <<window, tokens>>
    BY <1>4 DEF Recheck, StatNonce, BeginTx, SqlFails, Locked, Critical, diskVars
  <2>2. \/ Refuse(r)
        \/ \E to \in {"stat", "tx", "insert"} : ReqGoes(r, to) /\ UNCHANGED lock
    BY <1>4 DEF Recheck, StatNonce, BeginTx, SqlFails
  <2>3. CASE Refuse(r)
    BY <2>1, <2>3, EndHolds DEF Refuse
  <2>4. CASE \E to \in {"stat", "tx", "insert"} : ReqGoes(r, to) /\ UNCHANGED lock
    BY <2>1, <2>4, GoesOnHolds DEF Critical
  <2> QED
    BY <2>2, <2>3, <2>4
<1>5. CASE InsertToken(r)
  <2>1. Locked(r) /\ req[r].at # "idle" /\ MintOnly /\ UNCHANGED window
    BY <1>5 DEF InsertToken, Locked, Critical
  <2>2. CASE tokens = <<>>
    <3>1. tokens' # <<>>
      BY <1>5, <2>2, Appended, RowTyped DEF InsertToken
    <3> QED
      BY <1>5, <2>1, <2>2, <3>1, GoesOnHolds DEF InsertToken, Critical
  <2>3. CASE tokens # <<>>
    BY <1>5, <2>1, <2>3, EndHolds DEF InsertToken, Refuse
  <2> QED
    BY <2>2, <2>3
<1>6. CASE RemoveNonce(r)
  <2> DEFINE d == req[r].d
  <2>1. /\ req \in [Requests -> ReqType] /\ d \in Daemons /\ Handling(d)
        /\ lock \in [Daemons -> Requests \cup {NoOne}] /\ window \in [Daemons -> WindowType]
        /\ lock[d] = r /\ tokens # <<>>
    BY <1>6, Before DEF TypeOK, RemoveNonce, Inv, RowBeforeRemove, Locked, Critical
  <2>2. /\ window' = [window EXCEPT ![d].closed = TRUE] /\ lock' = [lock EXCEPT ![d] = NoOne]
        /\ req' = [req EXCEPT ![r].at = "respond"] /\ UNCHANGED tokens /\ MintOnly
    BY <1>6 DEF RemoveNonce, Release, ReqGoes
  <2>3. /\ req' \in [Requests -> ReqType] /\ \A q \in Requests \ {r} : req'[q] = req[q]
        /\ req'[r].at = "respond" /\ req'[r].d = d
    BY <2>1, <2>2 DEF ReqType
  <2>4. /\ lock'[d] = NoOne /\ window'[d].closed /\ window'[d].digest = window[d].digest
        /\ \A e \in Daemons \ {d} : lock'[e] = lock[e] /\ window'[e] = window[e]
    BY <2>1, <2>2 DEF WindowType
  <2>5. Local(r, d) /\ ~Locked(r)'
    BY <2>2, <2>3, <2>4 DEF Local, MintOnly, Locked, Critical
  <2> HIDE DEF d
  <2> QED
    BY <2>1, <2>2, <2>3, <2>4, <2>5, LocalHolds DEF d
<1>7. CASE Respond(r)
  <2>1. /\ req[r].at = "respond" /\ ~Locked(r) /\ MintOnly /\ UNCHANGED <<window, tokens, lock>>
        /\ req' = [req EXCEPT ![r] = Idle]
    BY <1>7 DEF Respond, Locked, Critical
  <2> DEFINE d == req[r].d
  <2>2. /\ req \in [Requests -> ReqType] /\ d \in Daemons /\ Handling(d)
        /\ req' \in [Requests -> ReqType] /\ \A q \in Requests \ {r} : req'[q] = req[q]
        /\ req'[r] = Idle
    BY <2>1, Before, IdleTyped DEF TypeOK
  <2>3. InFlight' /\ RowBeforeRemove' /\ NoWindowYet' /\ WindowTellsWhy'
    BY <2>1, <2>2 DEF MintOnly, Inv, InFlight, RowBeforeRemove, NoWindowYet, WindowTellsWhy,
                      Handling, Idle
  <2>4. \A q \in Requests : (Locked(q)' <=> Locked(q)) /\ (Locked(q) => req'[q] = req[q])
    BY <2>1, <2>2 DEF Locked, Critical, Idle
  <2>5. CommitUnderLock'
    <3>1. \A q \in Requests : Locked(q)' =>
            /\ Handling(req[q].d)' /\ lock'[req'[q].d] = q
            /\ ~window'[req'[q].d].closed /\ req'[q].code = window'[req'[q].d].digest
      BY <2>1, <2>4 DEF MintOnly, Inv, CommitUnderLock, Handling
    <3>2. \A e \in Daemons : lock'[e] # NoOne =>
            /\ Locked(lock[e]) /\ lock'[e] = lock[e] /\ lock[e] \in Requests
            /\ req[lock[e]].d = e
      BY <2>1 DEF Inv, CommitUnderLock, TypeOK
    <3>3. \A e \in Daemons : lock'[e] # NoOne => Locked(lock[e])' /\ req'[lock'[e]].d = e
      BY <2>1, <2>4, <3>2 DEF Locked
    <3> QED
      BY <3>1, <3>3 DEF CommitUnderLock
  <2> QED
    BY <2>3, <2>5 DEF Inv
<1> QED
  BY <1>2, <1>3, <1>4, <1>5, <1>6, <1>7 DEF MintStep

-----------------------------------------------------------------------------
\* IInv holds in every reachable state: a window, its lock and the requests
\* at it tell the same story as the tokens table (window.go, probe.go,
\* handlers/mint.go, server.go).
THEOREM DoorInductive == Spec => []IInv
<1>1. Init => IInv
  BY FirstRunAssumption
     DEF Init, IInv, Inv, TypeOK, MintIsFirst, InFlight, NoWindowYet, RowBeforeRemove,
         WindowTellsWhy, CommitUnderLock, Locked, Critical, Idle, NoWindow, ReqType, WindowType,
         RowType, Codes, Handling
<1>2. IInv /\ [Next]_vars => IInv'
  <2> SUFFICES ASSUME IInv, [Next]_vars PROVE IInv'
    OBVIOUS
  <2>1. TypeOK' /\ MintType' /\ MintIsFirst' /\ (tokens # <<>> => tokens' # <<>>)
    BY TypeHolds, MintHolds, RowsHold DEF IInv
  <2>2. CASE Quiet
    BY <2>1, <2>2, QuietHolds DEF IInv
  <2>3. ASSUME NEW d \in Daemons, ProbeNonce(d) \/ Stop(d) PROVE Inv'
    BY <2>3, ProbeHolds, StopHolds DEF IInv
  <2>4. ASSUME NEW r \in Requests, NEW d \in Daemons, NEW code \in Codes, Arrive(r, d, code)
        PROVE Inv'
    BY <2>1, <2>4, ArriveHolds DEF IInv
  <2>5. ASSUME NEW r \in Requests, MintStep(r) PROVE Inv'
    BY <2>5, MintStepHolds DEF IInv
  <2>6. TypeOK
    BY DEF IInv
  <2> QED
    BY <2>1, <2>2, <2>3, <2>4, <2>5, <2>6, QuietSteps DEF IInv
<1> QED
  BY <1>1, <1>2, PTL DEF Spec

\* However many requests, daemons and bootstrap-token processes race, the
\* first-run mint makes the first row or none (handlers/mint.go Commit).
THEOREM MintOnlyFirst == Spec => []MintIsFirst
<1>1. IInv => MintIsFirst
  BY DEF IInv
<1> QED
  BY <1>1, DoorInductive, PTL

\* A mint is committed only by the holder of Mu, under a window that is open
\* for its code, and Mu never outlives its holder (window.go Consume).
THEOREM CommitsUnderLock == Spec => []CommitUnderLock
<1>1. IInv => CommitUnderLock
  BY DEF IInv, Inv
<1> QED
  BY <1>1, DoorInductive, PTL

\* A window never closes without its last strike or a row, and never stays
\* open after its last strike, for any MaxFailures (window.go Consume).
THEOREM WindowsTellWhy == Spec => []WindowTellsWhy
<1>1. IInv => WindowTellsWhy
  BY DEF IInv, Inv
<1> QED
  BY <1>1, DoorInductive, PTL

\* Behind a lockout or a consumed window nothing is minted and no strike is
\* counted, whatever was already past IsClosed (window.go Consume).
THEOREM ShutStaysShut == Spec => ClosedWindowStaysShut
<1> DEFINE A == \A d \in Daemons : window[d].closed /\ window[d].digest # NoOne =>
                  /\ window'[d] \in {window[d], NoWindow}
                  /\ \A r \in Requests : req[r].d = d => req'[r].at # "remove"
<1>1. IInv /\ [Next]_vars => [A]_vars
  <2> SUFFICES ASSUME IInv, [Next]_vars, NEW d \in Daemons,
                      window[d].closed, window[d].digest # NoOne
        PROVE /\ window'[d] \in {window[d], NoWindow}
              /\ \A r \in Requests : req[r].d = d => req'[r].at # "remove"
    OBVIOUS
  <2> DEFINE Goal == /\ window'[d] \in {window[d], NoWindow}
                     /\ \A r \in Requests : req[r].d = d => req'[r].at # "remove"
  <2>1. /\ \A r \in Requests : req[r].d = d => ~Locked(r)
        /\ req \in [Requests -> ReqType] /\ window \in [Daemons -> WindowType]
    BY DEF IInv, Inv, CommitUnderLock, TypeOK
  <2>2. CASE UNCHANGED mintVars
    BY <2>1, <2>2 DEF mintVars, Locked, Critical
  <2>3. ASSUME NEW e \in Daemons, ProbeNonce(e) PROVE Goal
    <3>1. e # d
      BY <2>3 DEF ProbeNonce, PhaseGoes, IInv, Inv, NoWindowYet, NoWindow, Handling
    <3> QED
      BY <2>1, <2>3, <3>1 DEF ProbeNonce, Locked, Critical
  <2>4. ASSUME NEW e \in Daemons, Stop(e) PROVE Goal
    BY <2>1, <2>4 DEF Stop, Locked, Critical, Idle
  <2>5. ASSUME NEW q \in Requests, NEW e \in Daemons, NEW code \in Codes, Arrive(q, e, code)
        PROVE Goal
    BY <2>1, <2>5 DEF Arrive, Locked, Critical
  <2>6. ASSUME NEW q \in Requests, MintStep(q) PROVE Goal
    <3>1. CASE req[q].d = d
      <4>1. ~Locked(q)
        BY <2>1, <3>1
      <4>2. CountFormat(q) \/ Verify(q) \/ Respond(q)
        BY <2>6, <4>1 DEF MintStep, Recheck, StatNonce, BeginTx, InsertToken, SqlFails,
                          RemoveNonce, Locked, Critical
      <4>3. UNCHANGED window /\ req' = [req EXCEPT ![q] = Idle]
        BY <3>1, <4>2 DEF CountFormat, Verify, Respond
      <4> QED
        BY <2>1, <4>3 DEF Idle, Locked, Critical
    <3>2. CASE req[q].d # d
      <4>1. req[q].at # "idle" /\ req[q].d \in Daemons
        BY <2>6 DEF IInv, Inv, InFlight, MintStep, CountFormat, Verify, Recheck, StatNonce,
                    BeginTx, InsertToken, SqlFails, RemoveNonce, Respond
      <4>2. window'[d] = window[d]
        BY <2>1, <2>6, <3>2, <4>1
           DEF MintStep, CountFormat, Verify, Recheck, StatNonce, BeginTx, InsertToken,
               SqlFails, RemoveNonce, Respond, Strike
      <4>3. \A r \in Requests \ {q} : req'[r] = req[r]
        BY <2>1, <2>6
           DEF MintStep, CountFormat, Verify, Recheck, StatNonce, BeginTx, InsertToken,
               SqlFails, RemoveNonce, Respond, Refuse, ReqGoes
      <4> QED
        BY <2>1, <3>2, <4>2, <4>3 DEF Locked, Critical
    <3> QED
      BY <3>1, <3>2
  <2>7. TypeOK
    BY DEF IInv
  <2>8. CASE Quiet
    BY <2>2, <2>8 DEF Quiet
  <2> QED
    BY <2>3, <2>4, <2>5, <2>6, <2>7, <2>8, QuietSteps
<1> QED
  BY <1>1, DoorInductive, PTL DEF Spec, ClosedWindowStaysShut

\* The row of a mint that is about to remove the nonce is its own and the first.
OwnRow ==
  \A r \in Requests : req[r].at = "remove" =>
    tokens # <<>> /\ tokens[1].via = "first_run_mint" /\ tokens[1].by = r

\* The first row stays what it is: rows are appended, and only revoked.
FirstStays == tokens # <<>> => /\ tokens' # <<>>
                               /\ tokens'[1].via = tokens[1].via /\ tokens'[1].by = tokens[1].by

\* Nothing rewrites who made the first row, or how.
LEMMA FirstRowStays == ASSUME TypeOK, [Next]_vars PROVE FirstStays
<1>1. tokens \in Seq(RowType) /\ Len(tokens) \in Nat /\ DOMAIN tokens = 1 .. Len(tokens)
  BY DEF TypeOK
<1>2. tokens # <<>> => 1 \in DOMAIN tokens
  BY <1>1
<1>3. ASSUME NEW via \in {"init", "first_run_mint", "dashboard", "cli"},
             NEW p \in Inits \cup Clis \cup Daemons \cup Requests,
             tokens' = Append(tokens, Row(via, p))
      PROVE FirstStays
  <2>1. Row(via, p) \in RowType
    BY RowTyped
  <2>2. tokens' # <<>> /\ \A k \in DOMAIN tokens : tokens'[k] = tokens[k]
    BY <1>3, <2>1, Appended
  <2> QED
    BY <1>2, <2>2 DEF FirstStays
<1>4. ASSUME UNCHANGED tokens PROVE FirstStays
  BY <1>4 DEF FirstStays
<1>5. ASSUME NEW d \in Daemons, RevokeToken(d) PROVE FirstStays
  <2>1. PICK k \in DOMAIN tokens : tokens' = [tokens EXCEPT ![k].revoked = TRUE]
    BY <1>5 DEF RevokeToken
  <2>2. tokens \in [1 .. Len(tokens) -> RowType] /\ tokens' \in Seq(RowType) /\ tokens' # <<>>
    BY <1>1, <2>1, Revoked
  <2>3. \A j \in DOMAIN tokens : tokens'[j].via = tokens[j].via /\ tokens'[j].by = tokens[j].by
    BY <1>1, <2>1, <2>2 DEF RowType
  <2> QED
    BY <1>2, <2>2, <2>3 DEF FirstStays
<1>6. ASSUME NEW i \in Inits, InitStep(i) PROVE FirstStays
  BY <1>3, <1>4, <1>6 DEF InitStep, InitCheck, InitProvision, InitInsert, InitCreateNonce,
                          InitWriteNonce, InitBanner, InitFails, diskVars
<1>7. ASSUME NEW c \in Clis, CliStep(c) PROVE FirstStays
  BY <1>3, <1>4, <1>7 DEF CliStep, CliStart, CliInsert, CliBanner, CliFails, diskVars
<1>8. ASSUME NEW d \in Daemons, ServeStep(d) PROVE FirstStays
  BY <1>3, <1>4, <1>5, <1>8
     DEF ServeStep, Serve, Listen, ProbeTokens, ProbeNonce, Shutdown, Stop, CreateToken, diskVars
<1>9. ASSUME NEW r \in Requests, MintStep(r) PROVE FirstStays
  <2>1. CASE InsertToken(r) /\ tokens = <<>>
    BY <2>1 DEF FirstStays
  <2>2. CASE InsertToken(r) /\ tokens # <<>>
    BY <1>4, <2>2 DEF InsertToken
  <2> QED
    BY <1>4, <1>9, <2>1, <2>2
       DEF MintStep, CountFormat, Verify, Recheck, StatNonce, BeginTx, SqlFails, RemoveNonce,
           Respond, diskVars
<1> QED
  BY <1>4, <1>6, <1>7, <1>8, <1>9 DEF Next, Arrive, vars, diskVars

\* A request comes to the removal from the INSERT of its own row.
LEMMA OwnRowHolds ==
  ASSUME TypeOK, TypeOK', OwnRow, [Next]_vars
  PROVE  OwnRow'
<1> SUFFICES ASSUME NEW r \in Requests, req'[r].at = "remove"
             PROVE tokens' # <<>> /\ tokens'[1].via = "first_run_mint" /\ tokens'[1].by = r
  BY DEF OwnRow
<1>1. CASE req[r].at = "remove"
  BY <1>1, FirstRowStays DEF OwnRow, FirstStays
<1>2. CASE req[r].at # "remove"
  <2>1. req \in [Requests -> ReqType] /\ tokens \in Seq(RowType)
    BY DEF TypeOK
  <2>2. InsertToken(r) /\ tokens = <<>>
    <3>1. CASE Quiet
      BY <1>2, <3>1 DEF Quiet, mintVars
    <3>2. ASSUME NEW d \in Daemons, ProbeNonce(d) \/ Stop(d) PROVE FALSE
      BY <1>2, <2>1, <3>2 DEF ProbeNonce, Stop, Idle
    <3>3. ASSUME NEW q \in Requests, NEW d \in Daemons, NEW code \in Codes, Arrive(q, d, code)
          PROVE FALSE
      BY <1>2, <2>1, <3>3 DEF Arrive
    <3>4. ASSUME NEW q \in Requests, NEW to, to # "remove",
                 ReqGoes(q, to) \/ req' = [req EXCEPT ![q] = Idle]
          PROVE FALSE
      <4>1. CASE q = r
        BY <2>1, <3>4, <4>1 DEF ReqGoes, ReqType, Idle
      <4>2. CASE q # r
        BY <1>2, <2>1, <3>4, <4>2 DEF ReqGoes
      <4> QED
        BY <4>1, <4>2
    <3>5. ASSUME NEW q \in Requests, MintStep(q), ~InsertToken(q) PROVE FALSE
      BY <3>4, <3>5 DEF MintStep, CountFormat, Verify, Respond, Recheck, StatNonce, BeginTx,
                        SqlFails, RemoveNonce, Refuse
    <3>6. ASSUME NEW q \in Requests, InsertToken(q) PROVE q = r /\ tokens = <<>>
      <4>1. tokens = <<>>
        BY <3>4, <3>6 DEF InsertToken, Refuse
      <4>2. ReqGoes(q, "remove")
        BY <3>6, <4>1 DEF InsertToken
      <4> QED
        BY <1>2, <2>1, <4>1, <4>2 DEF ReqGoes
    <3> QED
      BY <3>1, <3>2, <3>3, <3>5, <3>6, QuietSteps
  <2>3. tokens' = Append(tokens, Row("first_run_mint", r)) /\ Len(tokens) = 0
    BY <2>2 DEF InsertToken
  <2>4. Row("first_run_mint", r) \in RowType
    BY RowTyped
  <2>5. tokens' # <<>> /\ tokens'[1] = Row("first_run_mint", r)
    BY <2>3, <2>4, Appended
  <2> QED
    BY <2>5 DEF Row
<1> QED
  BY <1>1, <1>2

\* The nonce goes only over the mint's own first row, with its 201 still to
\* be sent, at a start over a row, or burnt by a lockout (window.go Consume,
\* lockoutLocked; probe.go).
THEOREM NonceGoesLast == Spec => NonceOutlivesMint
<1> DEFINE Mine == \E r \in Requests : /\ req[r].at = "remove" /\ req'[r].at = "respond"
                                       /\ tokens # <<>> /\ tokens[1].by = r
                                       /\ tokens[1].via = "first_run_mint"
           Stale == tokens # <<>> /\ \E d \in Daemons : phase[d] = "bound"
           Burnt == \E d \in Daemons : /\ ~window[d].closed
                                       /\ window'[d].closed /\ window'[d].failures = MaxFailures
           Why == Mine \/ Stale \/ Burnt
<1>1. IInv /\ OwnRow /\ [Next]_vars => [nonce # "absent" /\ nonce' = "absent" => Why]_vars
  <2> SUFFICES ASSUME IInv, OwnRow, [Next]_vars, nonce # "absent", nonce' = "absent" PROVE Why
    OBVIOUS
  <2>1. TypeOK /\ Inv /\ tokens \in Seq(RowType) /\ req \in [Requests -> ReqType]
    BY DEF IInv, TypeOK
  <2>2. ASSUME NEW i \in Inits, InitStep(i) PROVE Why
    BY <2>2, FirstRunAssumption
       DEF InitStep, InitCheck, InitProvision, InitInsert, InitCreateNonce, InitWriteNonce,
           InitBanner, InitFails, diskVars
  <2>3. ASSUME NEW c \in Clis, CliStep(c) PROVE Why
    BY <2>3 DEF CliStep, CliStart, CliInsert, CliBanner, CliFails, diskVars
  <2>4. ASSUME NEW d \in Daemons, ServeStep(d) PROVE Why
    <3>1. ProbeTokens(d) /\ CountTokens > 0 /\ phase[d] = "bound"
      BY <2>4 DEF ServeStep, Serve, Listen, ProbeTokens, ProbeNonce, Shutdown, Stop,
                  CreateToken, RevokeToken, PhaseGoes, diskVars
    <3> QED
      BY <2>1, <3>1 DEF CountTokens
  <2>5. ASSUME NEW r \in Requests, CountFormat(r) \/ Verify(r) PROVE Why
    <3>1. req[r].d \in Daemons /\ ~window[req[r].d].closed /\ Strike(req[r].d)
      BY <2>1, <2>5, Before DEF CountFormat, Verify
    <3> QED
      BY <2>1, <3>1, StrikeTyped
  <2>6. ASSUME NEW r \in Requests, RemoveNonce(r) PROVE Why
    <3>1. req[r].at = "remove" /\ req'[r].at = "respond"
      BY <2>1, <2>6 DEF RemoveNonce, ReqGoes, ReqType
    <3> QED
      BY <3>1 DEF OwnRow
  <2>7. ASSUME NEW r \in Requests,
               Recheck(r) \/ StatNonce(r) \/ BeginTx(r) \/ InsertToken(r) \/ SqlFails(r) \/ Respond(r)
        PROVE Why
    BY <2>7 DEF Recheck, StatNonce, BeginTx, InsertToken, SqlFails, Respond, diskVars
  <2> QED
    BY <2>2, <2>3, <2>4, <2>5, <2>6, <2>7 DEF Next, MintStep, Arrive, vars, diskVars
<1>2. Init => OwnRow
  BY DEF Init, OwnRow, Idle
<1>3. IInv /\ IInv' /\ OwnRow /\ [Next]_vars => OwnRow'
  BY OwnRowHolds DEF IInv
<1> QED
  BY <1>1, <1>2, <1>3, DoorInductive, PTL DEF Spec, NonceOutlivesMint
=============================================================================
