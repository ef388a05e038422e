----------------------------- MODULE ExecStream -----------------------------
(***************************************************************************)
(* The life of an exec stream: POST /v1/agents/{type}/exec inserts a       *)
(* `running` row, starts a backend, and pumps the backend's messages into  *)
(* the messages table and onto the NDJSON response until the backend's     *)
(* Result arrives, the request context is cancelled, or an INSERT fails.   *)
(* The cancel endpoint, the client going away, SIGTERM, a crash, a restart *)
(* and a second `meowthd serve` on the same home all run concurrently.     *)
(*                                                                         *)
(* One INSERT, one write to the response, one registry critical section    *)
(* and one receive from a channel is one step.  A receive is merged with   *)
(* the INSERT that follows it: the only thing that can happen between the  *)
(* two is that the context is cancelled, and the select may take the       *)
(* message branch after the cancel just as well.                           *)
(***************************************************************************)
EXTENDS Integers, Sequences, FiniteSets

CONSTANTS
  Sessions,        \* session ids handed out by exec
  Cancels,         \* requests POST /v1/sessions/{id}/cancel
  Kinds,           \* kinds of message a backend sends
  NaturalStatus,   \* Result.Status values a run that is not cancelled ends with
  CancelStatus,    \* Result.Status values a backend reports for a cancelled run
  ResultIds,       \* may a Result carry a backend session id, or lack one?
  Deadlines,       \* the timeouts that may expire before what they guard
  SilentBackend,   \* may a backend close Result without a value?
  MaxMsgs,         \* bound: messages a backend sends per session
  MaxSeq,          \* bound: heartbeats are injected below this seq only
  MaxFaults,       \* bound: SQLite statements that fail
  MaxLeaves,       \* bound: clients that leave their stream
  MaxStops,        \* bound: signals and crashes of the daemon
  MaxServes        \* bound: extra `meowthd serve` runs on the same home

Terminal     == {"completed", "failed", "aborted", "timeout", "cancelled"}
RowStatus    == {"none", "running"} \cup Terminal
\* "" stands for every Result.Status outside the documented five.
RawStatus    == Terminal \cup {""}
Idents       == {"none", "message", "result"}
MessageKinds == {"text", "big", "ident"}
DrainStates  == {"drainCtx", "drainRes"}
WaitStates   == {"awaitCtx", "awaitClosed"}

\* No production backend reports cancelled of its own accord; a fixture of
\* the test backend (cancelled.jsonl) does.
ASSUME ConstantsAssumption ==
  /\ Kinds \subseteq MessageKinds
  /\ NaturalStatus \subseteq RawStatus \ {"cancelled"}
  /\ CancelStatus \subseteq RawStatus
  /\ ResultIds \subseteq BOOLEAN
  /\ Deadlines \subseteq DrainStates \cup WaitStates \cup {"shutdown"}
  /\ SilentBackend \in BOOLEAN
  /\ MaxMsgs \in Nat /\ MaxSeq \in Nat /\ MaxFaults \in Nat
  /\ MaxLeaves \in Nat /\ MaxStops \in Nat /\ MaxServes \in Nat

VARIABLES
  \* SQLite
  row,         \* sessions.status
  ident,       \* sessions.backend_session_id: unset, or whose id it is
  log,         \* the messages rows of a session in seq order
  faults,      \* statements that have failed so far
  \* the exec handler and its pump
  pc,          \* control state
  loop,        \* the pump loop a write returns to
  nextSeq,     \* the envelope builder's cursor
  seen,        \* the pump's backendSessionID is set
  got,         \* the Result the pump finalizes with
  \* the connection of the exec request
  client,      \* the client is still connected
  ctxDone,     \* execCtx is cancelled
  wire,        \* envelopes the client was sent
  \* the backend's half of agent.Session
  sent,        \* every message the backend has sent
  chan,        \* messages sent and not yet received
  closed,      \* the producer side of Messages is closed
  res,         \* the Result channel
  \* the cancel registry
  reg, requested, shutdownIDs,
  \* cancel requests in flight, and the daemon process
  creq, daemon, stops, serves

dbVars      == <<row, ident, log, faults>>
pumpVars    == <<pc, loop, nextSeq, seen, got>>
connVars    == <<client, ctxDone, wire>>
backendVars == <<sent, chan, closed, res>>
regVars     == <<reg, requested, shutdownIDs>>
procVars    == <<daemon, stops, serves>>
vars == <<dbVars, pumpVars, connVars, backendVars, regVars, creq, procVars>>

-----------------------------------------------------------------------------
(* Control states, by what the handler still owes.                         *)

Unregistered == {"idle", "arrived", "inserted", "done", "lost"}
BeforePump   == {"registered", "opened", "started"}
FinalStates  == {"final", "pin", "emit", "writeEnd", "row"}
PumpStates   == {"select", "write", "writeBig", "trunc", "abort"}
                \cup FinalStates \cup DrainStates \cup WaitStates
PcStates     == Unregistered \cup BeforePump \cup PumpStates \cup {"exit"}
Live(s)      == pc[s] \notin {"idle", "arrived", "done", "lost"}
Opened(s)    == pc[s] \in {"opened", "started", "exit", "done"} \cup PumpStates

Envelope(n, e, d) == [seq |-> n, ev |-> e, d |-> d]
NoResult          == [status |-> "", id |-> FALSE]
DefaultResult(st) == [status |-> st, id |-> FALSE]
IdleRequest       == [s |-> "none", st |-> "idle"]
Answering(c)      == creq[c].st \in {"arrived", "running"}

StatusFromAgentResult(st) == IF st \in Terminal THEN st ELSE "failed"

\* A request on a connection that was accepted before the listener closed is
\* handled, even while http.Server.Shutdown waits.  A handler that has begun
\* runs until the process is gone, whatever the daemon is at.
Accepting == daemon \in {"serving", "closing", "draining"}
Up        == daemon # "dead"

\* The rows MarkRunningSessionsAborted leaves behind.
Swept == [s \in Sessions |-> IF row[s] = "running" THEN "aborted" ELSE row[s]]

\* One SQLite statement fails although its context is alive.
Fault == faults < MaxFaults /\ faults' = faults + 1

\* persistAndWrite up to the INSERT.  expired: the statement's context is
\* done, and the INSERT then always fails.  spent: the faults of the
\* statement that preceded it in the same step.
Persist(s, env, expired, spent, next, onFail) ==
  /\ \/ /\ ~expired
        /\ log' = [log EXCEPT ![s] = Append(@, env)]
        /\ pc' = [pc EXCEPT ![s] = next]
        /\ faults' = faults + spent
     \/ /\ pc' = [pc EXCEPT ![s] = onFail]
        /\ faults' = faults + spent + (IF expired THEN 0 ELSE 1)
        /\ UNCHANGED log
  /\ faults' <= MaxFaults

\* UpdateSessionBackendSessionID, when due: a failure is logged and not
\* retried.  The faults it may spend, and what it leaves in the row.
PinFaults(due, expired) == IF due /\ ~expired THEN {0, 1} ELSE {0}
PinIdent(s, id, due, expired, spent) ==
  ident' = [ident EXCEPT ![s] = IF due /\ ~expired /\ spent = 0 THEN id ELSE @]

\* persistAndWrite from the Write on.  A write to a connection the client
\* has left is lost; its error is not an error of the pump.
Deliver(s) ==
  wire' = IF client[s]
            THEN [wire EXCEPT ![s] = Append(@, log[s][Len(log[s])])]
            ELSE wire

\* store.UpdateSessionEnded has no guard on the row's present status.
SetRow(s, st) ==
  \/ /\ row' = [row EXCEPT ![s] = st]
     /\ UNCHANGED faults
  \/ /\ Fault
     /\ UNCHANGED row

Goto(s, next) == pc' = [pc EXCEPT ![s] = next]

-----------------------------------------------------------------------------
(* The exec handler before the pump.                                       *)

\* The request reaches the handler, which reads and checks its body.
Arrive(s) ==
  /\ Accepting /\ pc[s] = "idle"
  /\ Goto(s, "arrived")
  /\ UNCHANGED <<dbVars, loop, nextSeq, seen, got, connVars, backendVars,
                 regVars, creq, procVars>>

\* InsertSession, however long after the request came.  A request that is
\* refused, or whose INSERT fails, leaves nothing behind.
Begin(s) ==
  /\ Up /\ pc[s] = "arrived"
  /\ \/ /\ row' = [row EXCEPT ![s] = "running"]
        /\ Goto(s, "inserted")
     \/ /\ Goto(s, "done")
        /\ UNCHANGED row
  /\ UNCHANGED <<ident, log, faults, loop, nextSeq, seen, got, connVars,
                 backendVars, regVars, creq, procVars>>

Register(s) ==
  /\ Up /\ pc[s] = "inserted"
  /\ Goto(s, "registered")
  /\ reg' = reg \cup {s}
  /\ requested' = requested \ {s}
  /\ shutdownIDs' = shutdownIDs \ {s}
  /\ UNCHANGED <<dbVars, loop, nextSeq, seen, got, connVars, backendVars,
                 creq, procVars>>

\* Backend.Execute returns a Session or an error; on an error the row
\* becomes failed, as after a persist failure ("abort").
Execute(s) ==
  /\ Up /\ pc[s] = "registered"
  /\ \E next \in {"opened", "abort"} : Goto(s, next)
  /\ UNCHANGED <<dbVars, loop, nextSeq, seen, got, connVars, backendVars,
                 regVars, creq, procVars>>

PersistStarted(s) ==
  /\ Up /\ pc[s] = "opened"
  /\ Persist(s, Envelope(0, "session_started", ""), ctxDone[s], 0, "started", "abort")
  /\ UNCHANGED <<row, ident, loop, nextSeq, seen, got, connVars, backendVars,
                 regVars, creq, procVars>>

\* Faults: the builder is not primed past seq 0; a cancelled context counts
\* as a failed Write.
WriteStartedUnprimed(s) ==
  /\ Up /\ pc[s] = "started"
  /\ Deliver(s)
  /\ Goto(s, "select")
  /\ UNCHANGED <<dbVars, loop, nextSeq, seen, got, client, ctxDone, backendVars,
                 regVars, creq, procVars>>

WriteStartedUnderContext(s) ==
  /\ Up /\ pc[s] = "started"
  /\ Deliver(s)
  /\ Goto(s, IF ctxDone[s] THEN "exit" ELSE "select")
  /\ nextSeq' = [nextSeq EXCEPT ![s] = 1]
  /\ UNCHANGED <<dbVars, loop, seen, got, client, ctxDone, backendVars,
                 regVars, creq, procVars>>

\* If the Write fails the handler returns and leaves the row running.
WriteStarted(s) ==
  /\ Up /\ pc[s] = "started"
  /\ Deliver(s)
  /\ \/ Goto(s, "select")
     \/ ~client[s] /\ Goto(s, "exit")
  /\ nextSeq' = [nextSeq EXCEPT ![s] = 1]
  /\ UNCHANGED <<dbVars, loop, seen, got, client, ctxDone, backendVars,
                 regVars, creq, procVars>>

-----------------------------------------------------------------------------
(* The pump.                                                               *)

Heartbeat(s) ==
  /\ Up /\ pc[s] = "select" /\ nextSeq[s] < MaxSeq
  /\ Persist(s, Envelope(nextSeq[s], "heartbeat", ""), ctxDone[s], 0, "write",
             "abort")
  /\ loop' = [loop EXCEPT ![s] = "select"]
  /\ nextSeq' = [nextSeq EXCEPT ![s] = @ + 1]
  /\ UNCHANGED <<row, ident, seen, got, connVars, backendVars, regVars, creq,
                 procVars>>

\* Fault: an envelope that was not persisted is written all the same.
WriteUnpersisted(state) == "write"

\* What a failed INSERT of a message does: the drain that follows a
\* cancelled context ignores the error, the two other loops abort.
OnPersistFailure(state) == IF state = "drainCtx" THEN "awaitCtx" ELSE "abort"

\* The select runs its INSERTs under execCtx, a drain under its own timeout.
StatementExpired(s, state) ==
  IF state = "select" THEN {ctxDone[s]}
  ELSE IF state \in Deadlines THEN BOOLEAN ELSE {FALSE}

\* Receive one message in any of the three loops: pin the backend session
\* id the first time one is seen, mint the envelope, INSERT it.
TakeMessage(s) ==
  LET m     == Head(chan[s])
      pins  == m = "ident" /\ ~seen[s]
      next  == IF m = "big" THEN "writeBig" ELSE "write"
  IN /\ Up /\ pc[s] \in {"select"} \cup DrainStates /\ chan[s] # <<>>
     /\ chan' = [chan EXCEPT ![s] = Tail(@)]
     /\ loop' = [loop EXCEPT ![s] = pc[s]]
     /\ nextSeq' = [nextSeq EXCEPT ![s] = @ + 1]
     /\ seen' = [seen EXCEPT ![s] = @ \/ pins]
     /\ \E expired \in StatementExpired(s, pc[s]) :
          \E spent \in PinFaults(pins, expired) :
            /\ PinIdent(s, "message", pins, expired, spent)
            /\ Persist(s, Envelope(nextSeq[s], "message", m), expired, spent,
                       next, OnPersistFailure(pc[s]))
     /\ UNCHANGED <<row, got, connVars, sent, closed, res, regVars, creq,
                    procVars>>

\* The message_truncated error that follows an oversized message.
EmitTruncation(s) ==
  /\ Up /\ pc[s] = "trunc"
  /\ nextSeq' = [nextSeq EXCEPT ![s] = @ + 1]
  /\ \E expired \in StatementExpired(s, loop[s]) :
       Persist(s, Envelope(nextSeq[s], "error", "message_truncated"), expired,
               0, "write", OnPersistFailure(loop[s]))
  /\ UNCHANGED <<row, ident, loop, seen, got, connVars, backendVars, regVars,
                 creq, procVars>>

WriteEnvelope(s) ==
  /\ Up /\ pc[s] \in {"write", "writeBig"}
  /\ Deliver(s)
  /\ Goto(s, IF pc[s] = "writeBig" THEN "trunc" ELSE loop[s])
  /\ UNCHANGED <<dbVars, loop, nextSeq, seen, got, client, ctxDone,
                 backendVars, regVars, creq, procVars>>

\* The select's ctx.Done branch.
PumpCancelled(s) ==
  /\ Up /\ pc[s] = "select" /\ ctxDone[s]
  /\ Goto(s, "drainCtx")
  /\ UNCHANGED <<dbVars, loop, nextSeq, seen, got, connVars, backendVars,
                 regVars, creq, procVars>>

\* The select finds Messages closed.
PumpClosed(s) ==
  /\ Up /\ pc[s] = "select" /\ closed[s] /\ chan[s] = <<>>
  /\ Goto(s, "awaitClosed")
  /\ UNCHANGED <<dbVars, loop, nextSeq, seen, got, connVars, backendVars,
                 regVars, creq, procVars>>

\* The select receives from Result: drain, or fail at once if the channel
\* was closed without a value.
PumpResult(s) ==
  /\ Up /\ pc[s] = "select"
  /\ \/ /\ res[s].state = "ready"
        /\ got' = [got EXCEPT ![s] = [status |-> res[s].status, id |-> res[s].id]]
        /\ res' = [res EXCEPT ![s].state = "closed"]
        /\ Goto(s, "drainRes")
     \/ /\ res[s].state = "closed"
        /\ got' = [got EXCEPT ![s] = DefaultResult("failed")]
        /\ Goto(s, "final")
        /\ UNCHANGED res
  /\ UNCHANGED <<dbVars, loop, nextSeq, seen, connVars, sent, chan, closed,
                 regVars, creq, procVars>>

\* Fault: a drain has no deadline.
DrainEndOnClose(s) ==
  /\ Up /\ pc[s] \in DrainStates
  /\ closed[s] /\ chan[s] = <<>>
  /\ loop' = [loop EXCEPT ![s] = pc[s]]
  /\ Goto(s, IF pc[s] = "drainCtx" THEN "awaitCtx" ELSE "final")
  /\ UNCHANGED <<dbVars, nextSeq, seen, got, connVars, backendVars, regVars,
                 creq, procVars>>

\* A drain ends when Messages is closed and empty, or at its deadline.
DrainEnd(s) ==
  /\ Up /\ pc[s] \in DrainStates
  /\ \/ closed[s] /\ chan[s] = <<>>
     \/ pc[s] \in Deadlines
  /\ loop' = [loop EXCEPT ![s] = pc[s]]
  /\ Goto(s, IF pc[s] = "drainCtx" THEN "awaitCtx" ELSE "final")
  /\ UNCHANGED <<dbVars, nextSeq, seen, got, connVars, backendVars, regVars,
                 creq, procVars>>

\* Fault: the discarding goroutine is started before the drain.
DiscardEarly(s) ==
  /\ Up /\ chan[s] # <<>> /\ pc[s] \in {"drainCtx", "awaitCtx"}
  /\ chan' = [chan EXCEPT ![s] = Tail(@)]
  /\ UNCHANGED <<dbVars, pumpVars, connVars, sent, closed, res, regVars, creq,
                 procVars>>

\* After the drain of a cancelled stream a goroutine reads Messages to its
\* end, so that the relay never blocks.
Discard(s) ==
  /\ Up /\ loop[s] = "drainCtx" /\ chan[s] # <<>>
  /\ pc[s] \in {"awaitCtx", "abort", "exit", "done"} \cup FinalStates
  /\ chan' = [chan EXCEPT ![s] = Tail(@)]
  /\ UNCHANGED <<dbVars, pumpVars, connVars, sent, closed, res, regVars, creq,
                 procVars>>

\* waitForResultOrTimeout: the value, or the default for that path.
TakeResult(s) ==
  /\ Up /\ pc[s] \in WaitStates
  /\ \/ /\ res[s].state = "ready"
        /\ got' = [got EXCEPT ![s] = [status |-> res[s].status, id |-> res[s].id]]
        /\ res' = [res EXCEPT ![s].state = "closed"]
     \/ /\ res[s].state = "closed" \/ pc[s] \in Deadlines
        /\ got' = [got EXCEPT ![s] =
                     DefaultResult(IF pc[s] = "awaitCtx" THEN "cancelled" ELSE "failed")]
        /\ UNCHANGED res
  /\ Goto(s, "final")
  /\ UNCHANGED <<dbVars, loop, nextSeq, seen, connVars, sent, chan, closed,
                 regVars, creq, procVars>>

\* Fault: the shutdown override is forgotten.
FinalStatusUnmarked(s) == StatusFromAgentResult(got[s].status)

\* finalizeStream's override: a cancel-class status of a session CancelAll
\* has marked becomes aborted.
FinalStatus(s) ==
  LET st == StatusFromAgentResult(got[s].status)
  IN IF s \in shutdownIDs /\ (st = "cancelled" \/ got[s].status = "")
       THEN "aborted" ELSE st

\* Fault: a Result's id replaces the one the row has from a message.
DecideOverwriting(s) ==
  /\ Up /\ pc[s] = "final"
  /\ got' = [got EXCEPT ![s].status = FinalStatus(s)]
  /\ Goto(s, IF got[s].id THEN "pin" ELSE "emit")
  /\ UNCHANGED <<dbVars, loop, nextSeq, seen, connVars, backendVars, regVars,
                 creq, procVars>>

\* finalizeStream reads IsShutdown, once, and settles on the status.
Decide(s) ==
  /\ Up /\ pc[s] = "final"
  /\ got' = [got EXCEPT ![s].status = FinalStatus(s)]
  /\ Goto(s, IF got[s].id /\ ~seen[s] THEN "pin" ELSE "emit")
  /\ UNCHANGED <<dbVars, loop, nextSeq, seen, connVars, backendVars, regVars,
                 creq, procVars>>

\* The id of a Result is stored if no message carried one.
PinFinal(s) ==
  /\ Up /\ pc[s] = "pin"
  /\ \E spent \in PinFaults(TRUE, FALSE) :
       /\ PinIdent(s, "result", TRUE, FALSE, spent)
       /\ faults' = faults + spent /\ faults' <= MaxFaults
  /\ Goto(s, "emit")
  /\ UNCHANGED <<row, log, loop, nextSeq, seen, got, connVars, backendVars,
                 regVars, creq, procVars>>

\* The INSERT of session_ended, with the status settled on.
EmitEnded(s) ==
  /\ Up /\ pc[s] = "emit"
  /\ nextSeq' = [nextSeq EXCEPT ![s] = @ + 1]
  /\ Persist(s, Envelope(nextSeq[s], "session_ended", got[s].status), FALSE, 0,
             "writeEnd", "abort")
  /\ UNCHANGED <<row, ident, loop, seen, got, connVars, backendVars, regVars,
                 creq, procVars>>

WriteEnded(s) ==
  /\ Up /\ pc[s] = "writeEnd"
  /\ Deliver(s)
  /\ Goto(s, "row")
  /\ UNCHANGED <<dbVars, loop, nextSeq, seen, got, client, ctxDone,
                 backendVars, regVars, creq, procVars>>

\* The row is updated last; a failure is only logged.
UpdateRow(s) ==
  /\ Up /\ pc[s] = "row"
  /\ SetRow(s, log[s][Len(log[s])].d)
  /\ Goto(s, "exit")
  /\ UNCHANGED <<ident, log, loop, nextSeq, seen, got, connVars, backendVars,
                 regVars, creq, procVars>>

\* abortStream, and the handler's error path after Execute or the INSERT of
\* session_started failed.
AbortStream(s) ==
  /\ Up /\ pc[s] = "abort"
  /\ SetRow(s, "failed")
  /\ Goto(s, "exit")
  /\ UNCHANGED <<ident, log, loop, nextSeq, seen, got, connVars, backendVars,
                 regVars, creq, procVars>>

\* Fault: the registry forgets the cancel func and keeps the mark.
ExitKeepsMark(s) ==
  /\ Up /\ pc[s] = "exit"
  /\ Goto(s, "done")
  /\ reg' = reg \ {s}
  /\ ctxDone' = [ctxDone EXCEPT ![s] = TRUE]
  /\ UNCHANGED <<dbVars, loop, nextSeq, seen, got, client, wire, backendVars,
                 requested, shutdownIDs, creq, procVars>>

\* The handler's defers: unregister, then cancel execCtx.
Exit(s) ==
  /\ Up /\ pc[s] = "exit"
  /\ Goto(s, "done")
  /\ reg' = reg \ {s}
  /\ requested' = requested \ {s}
  /\ shutdownIDs' = shutdownIDs \ {s}
  /\ ctxDone' = [ctxDone EXCEPT ![s] = TRUE]
  /\ UNCHANGED <<dbVars, loop, nextSeq, seen, got, client, wire, backendVars,
                 creq, procVars>>

-----------------------------------------------------------------------------
(* The backend, as far as the Session contract of agent.go goes.           *)

Send(s) ==
  /\ Up /\ Opened(s) /\ ~closed[s] /\ res[s].state = "none"
  /\ Len(sent[s]) < MaxMsgs
  /\ \E m \in Kinds :
       /\ sent' = [sent EXCEPT ![s] = Append(@, m)]
       /\ chan' = [chan EXCEPT ![s] = Append(@, m)]
  /\ UNCHANGED <<dbVars, pumpVars, connVars, closed, res, regVars, creq,
                 procVars>>

\* The one Result: what the run came to, or the backend's word for a
\* cancelled context.
Finish(s) ==
  /\ Up /\ Opened(s) /\ res[s].state = "none"
  /\ \/ \E st \in NaturalStatus \cup (IF ctxDone[s] THEN CancelStatus ELSE {}),
           id \in ResultIds :
          res' = [res EXCEPT ![s] = [state |-> "ready", status |-> st, id |-> id]]
     \/ /\ SilentBackend
        /\ res' = [res EXCEPT ![s].state = "closed"]
  /\ UNCHANGED <<dbVars, pumpVars, connVars, sent, chan, closed, regVars, creq,
                 procVars>>

\* Messages may be closed before or after the Result is sent.
CloseMessages(s) ==
  /\ Up /\ Opened(s) /\ ~closed[s]
  /\ closed' = [closed EXCEPT ![s] = TRUE]
  /\ UNCHANGED <<dbVars, pumpVars, connVars, sent, chan, res, regVars, creq,
                 procVars>>

-----------------------------------------------------------------------------
(* The client of the exec request.                                         *)

ClientGone(s) ==
  /\ Live(s) /\ client[s]
  /\ Cardinality({q \in Sessions : ~client[q]}) < MaxLeaves
  /\ client' = [client EXCEPT ![s] = FALSE]
  /\ UNCHANGED <<dbVars, pumpVars, ctxDone, wire, backendVars, regVars, creq,
                 procVars>>

\* net/http cancels the request context of a client that has left.
NoticeGone(s) ==
  /\ Up /\ Live(s) /\ ~client[s] /\ ~ctxDone[s]
  /\ ctxDone' = [ctxDone EXCEPT ![s] = TRUE]
  /\ UNCHANGED <<dbVars, pumpVars, client, wire, backendVars, regVars, creq,
                 procVars>>

-----------------------------------------------------------------------------
(* POST /v1/sessions/{id}/cancel.                                          *)

\* A request names a session that is listed.
CancelArrive(c, s) ==
  /\ Accepting /\ creq[c].st = "idle" /\ row[s] # "none"
  /\ creq' = [creq EXCEPT ![c] = [s |-> s, st |-> "arrived"]]
  /\ UNCHANGED <<dbVars, pumpVars, connVars, backendVars, regVars, procVars>>

\* GetSession; a terminal row is answered at once.
CancelRead(c) ==
  /\ Up /\ creq[c].st = "arrived"
  /\ creq' = [creq EXCEPT ![c].st =
                IF row[creq[c].s] \in Terminal THEN "terminal" ELSE "running"]
  /\ UNCHANGED <<dbVars, pumpVars, connVars, backendVars, regVars, procVars>>

\* Faults: a second cancel is not told from the first; the cancel handler
\* settles the row itself.
CancelFireAgain(c) ==
  LET s == creq[c].s
  IN /\ Up /\ creq[c].st = "running"
     /\ creq' = [creq EXCEPT ![c].st = IF s \in reg THEN "fired" ELSE "unknown"]
     /\ requested' = requested \cup ({s} \cap reg)
     /\ ctxDone' = [ctxDone EXCEPT ![s] = @ \/ s \in reg]
     /\ UNCHANGED <<dbVars, pumpVars, client, wire, backendVars, reg,
                    shutdownIDs, procVars>>

CancelFireSettles(c) ==
  LET s == creq[c].s
  IN /\ Up /\ creq[c].st = "running" /\ s \in reg \ requested
     /\ creq' = [creq EXCEPT ![c].st = "fired"]
     /\ requested' = requested \cup {s}
     /\ ctxDone' = [ctxDone EXCEPT ![s] = TRUE]
     /\ row' = [row EXCEPT ![s] = "cancelled"]
     /\ UNCHANGED <<ident, log, faults, pumpVars, client, wire, backendVars,
                    reg, shutdownIDs, procVars>>

\* cancelRegistry.Cancel and the reply made from its outcome.
CancelFire(c) ==
  LET s == creq[c].s
  IN /\ Up /\ creq[c].st = "running"
     /\ \/ /\ s \notin reg
           /\ creq' = [creq EXCEPT ![c].st = "unknown"]
           /\ UNCHANGED <<requested, ctxDone>>
        \/ /\ s \in reg /\ s \in requested
           /\ creq' = [creq EXCEPT ![c].st = "already"]
           /\ UNCHANGED <<requested, ctxDone>>
        \/ /\ s \in reg /\ s \notin requested
           /\ creq' = [creq EXCEPT ![c].st = "fired"]
           /\ requested' = requested \cup {s}
           /\ ctxDone' = [ctxDone EXCEPT ![s] = TRUE]
     /\ UNCHANGED <<dbVars, pumpVars, client, wire, backendVars, reg,
                    shutdownIDs, procVars>>

-----------------------------------------------------------------------------
(* The daemon process.                                                     *)

\* SIGTERM or SIGINT: Serve closes the listener.
Signal ==
  /\ daemon = "serving" /\ stops < MaxStops
  /\ daemon' = "closing"
  /\ stops' = stops + 1
  /\ UNCHANGED <<dbVars, pumpVars, connVars, backendVars, regVars, creq, serves>>

CancelAll ==
  /\ daemon = "closing"
  /\ daemon' = "draining"
  /\ LET pending == reg \ requested
     IN /\ requested' = requested \cup pending
        /\ shutdownIDs' = shutdownIDs \cup pending
        /\ ctxDone' = [s \in Sessions |-> ctxDone[s] \/ s \in pending]
  /\ UNCHANGED <<dbVars, pumpVars, client, wire, backendVars, reg, creq, stops,
                 serves>>

\* No handler is running.
Quiescent ==
  /\ \A s \in Sessions : ~Live(s) /\ pc[s] # "arrived"
  /\ \A c \in Cancels : ~Answering(c)

\* Fault: Shutdown is given no timeout.
ServeReturnsWhenIdle ==
  /\ daemon = "draining"
  /\ Quiescent
  /\ daemon' = "served"
  /\ UNCHANGED <<dbVars, pumpVars, connVars, backendVars, regVars, creq, stops,
                 serves>>

\* http.Server.Shutdown returns: every handler is done, or ten seconds are up.
ServeReturns ==
  /\ daemon = "draining"
  /\ Quiescent \/ "shutdown" \in Deadlines
  /\ daemon' = "served"
  /\ UNCHANGED <<dbVars, pumpVars, connVars, backendVars, regVars, creq, stops,
                 serves>>

\* runServe's deferred MarkRunningSessionsAborted; a failure is only logged.
\* The handlers that Shutdown gave up on go on, and may still insert a row.
ExitSweep ==
  /\ daemon = "served"
  /\ daemon' = "swept"
  /\ \/ row' = Swept /\ UNCHANGED faults
     \/ Fault /\ UNCHANGED row
  /\ UNCHANGED <<ident, log, pumpVars, connVars, backendVars, regVars, creq,
                 stops, serves>>

\* Everything but SQLite and what the client has received dies with the
\* process, and a request that has inserted nothing without a trace.
ProcessGone ==
  /\ daemon' = "dead"
  /\ pc' = [s \in Sessions |-> IF Live(s) THEN "lost"
                               ELSE IF pc[s] = "arrived" THEN "idle" ELSE pc[s]]
  /\ chan' = [s \in Sessions |-> <<>>]
  /\ reg' = {} /\ requested' = {} /\ shutdownIDs' = {}
  /\ creq' = [c \in Cancels |-> IF Answering(c)
                                  THEN [creq[c] EXCEPT !.st = "lost"] ELSE creq[c]]
  /\ UNCHANGED <<dbVars, loop, nextSeq, seen, got, connVars, sent, closed, res,
                 serves>>

\* db.Close and the return of main come after the sweep.
Quit ==
  /\ daemon = "swept"
  /\ ProcessGone
  /\ UNCHANGED stops

\* SIGKILL, a panic, a power loss.
Crash ==
  /\ Up /\ stops < MaxStops
  /\ stops' = stops + 1
  /\ ProcessGone

\* Fault: the daemon starts without a sweep.
RestartUnswept ==
  /\ daemon = "dead"
  /\ daemon' = "serving"
  /\ UNCHANGED <<dbVars, pumpVars, connVars, backendVars, regVars, creq, stops,
                 serves>>

\* runServe: the startup sweep precedes the listener, and its failure is
\* fatal to the start, which then has changed nothing.
Restart ==
  /\ daemon = "dead"
  /\ row' = Swept
  /\ daemon' = "serving"
  /\ UNCHANGED <<ident, log, faults, pumpVars, connVars, backendVars, regVars,
                 creq, stops, serves>>

\* Another `meowthd serve` on this home sweeps before it finds the port
\* taken, or before it serves in place of a daemon that is still draining.
SecondServe ==
  /\ Up /\ serves < MaxServes
  /\ serves' = serves + 1
  /\ row' = Swept
  /\ UNCHANGED <<ident, log, faults, pumpVars, connVars, backendVars, regVars,
                 creq, daemon, stops>>

-----------------------------------------------------------------------------

Init ==
  /\ row = [s \in Sessions |-> "none"]
  /\ ident = [s \in Sessions |-> "none"]
  /\ log = [s \in Sessions |-> <<>>]
  /\ faults = 0
  /\ pc = [s \in Sessions |-> "idle"]
  /\ loop = [s \in Sessions |-> "select"]
  /\ nextSeq = [s \in Sessions |-> 0]
  /\ seen = [s \in Sessions |-> FALSE]
  /\ got = [s \in Sessions |-> NoResult]
  /\ client = [s \in Sessions |-> TRUE]
  /\ ctxDone = [s \in Sessions |-> FALSE]
  /\ wire = [s \in Sessions |-> <<>>]
  /\ sent = [s \in Sessions |-> <<>>]
  /\ chan = [s \in Sessions |-> <<>>]
  /\ closed = [s \in Sessions |-> FALSE]
  /\ res = [s \in Sessions |-> [state |-> "none", status |-> "", id |-> FALSE]]
  /\ reg = {} /\ requested = {} /\ shutdownIDs = {}
  /\ creq = [c \in Cancels |-> IdleRequest]
  /\ daemon = "serving" /\ stops = 0 /\ serves = 0

\* The steps of the handler's own goroutine.
HandlerStep(s) ==
  \/ Begin(s) \/ Register(s) \/ Execute(s) \/ PersistStarted(s) \/ WriteStarted(s)
  \/ Heartbeat(s) \/ TakeMessage(s) \/ EmitTruncation(s) \/ WriteEnvelope(s)
  \/ PumpCancelled(s) \/ PumpClosed(s) \/ PumpResult(s)
  \/ DrainEnd(s) \/ TakeResult(s)
  \/ Decide(s) \/ PinFinal(s) \/ EmitEnded(s) \/ WriteEnded(s) \/ UpdateRow(s)
  \/ AbortStream(s) \/ Exit(s)

BackendStep(s) == Send(s) \/ Finish(s) \/ CloseMessages(s)

SessionStep(s) ==
  \/ Arrive(s) \/ HandlerStep(s) \/ Discard(s) \/ BackendStep(s)
  \/ ClientGone(s) \/ NoticeGone(s)

DaemonStep ==
  \/ Signal \/ CancelAll \/ ServeReturns \/ ExitSweep \/ Quit
  \/ Crash \/ Restart \/ SecondServe

Next ==
  \/ \E s \in Sessions : SessionStep(s)
  \/ \E c \in Cancels :
       (\E s \in Sessions : CancelArrive(c, s)) \/ CancelRead(c) \/ CancelFire(c)
  \/ DaemonStep

Spec == Init /\ [][Next]_vars

\* The Go scheduler runs every goroutine that is ready: the handler, the
\* goroutine that discards, net/http's disconnect watcher, the cancel
\* handler, and Serve once it is signalled.  Nothing makes the client, the
\* user, the backend or the operator act.
Fairness ==
  /\ \A s \in Sessions : /\ WF_vars(HandlerStep(s))
                         /\ WF_vars(Discard(s))
                         /\ WF_vars(NoticeGone(s))
  /\ \A c \in Cancels : WF_vars(CancelRead(c) \/ CancelFire(c))
  /\ WF_vars(CancelAll \/ ServeReturns \/ ExitSweep \/ Quit)

FairSpec == Spec /\ Fairness
=============================================================================
