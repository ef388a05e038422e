------------------------- MODULE ExecStream_proofs -------------------------
(***************************************************************************)
(* Proofs about ExecStream for any set of sessions and cancel requests and *)
(* any bounds: every variable keeps its type, the NDJSON wire is a prefix  *)
(* of the messages table, and a connected client lags it by at most one    *)
(* envelope.  TypeOK is not inductive: UpdateRow copies the status out of  *)
(* the transcript's last row, so the type of `row` rests on what the       *)
(* transcript holds while the handler owes the client or the row something.*)
(*                                                                         *)
(* The queue that ExecStream takes for granted between a backend and the   *)
(* handler, `chan`, is the message pipe's; the last part proves that the   *)
(* pipe, whose names are apart from those of ExecStream, is such a queue.  *)
(***************************************************************************)
EXTENDS ExecStreamProps, MessagePipe, FiniteSetTheorems, TLAPS

\* The handler has inserted an envelope that it has not yet written.
Writing == {"started", "write", "writeBig", "writeEnd"}

\* What the handler still owes implies the shape of the transcript.
OwedInv(s) ==
  /\ pc[s] \in Writing \cup {"row"} => log[s] # <<>>
  /\ pc[s] \in {"writeEnd", "row"} => log[s][Len(log[s])].d \in Terminal

\* How far the wire of a connected client is behind the table.
LagInv(s) ==
  /\ IsPrefixOf(wire[s], log[s])
  /\ client[s] /\ pc[s] \in Writing => Len(log[s]) = Len(wire[s]) + 1
  /\ client[s] /\ pc[s] = "lost" => Len(log[s]) - Len(wire[s]) \in {0, 1}
  /\ client[s] /\ pc[s] \notin Writing \cup {"lost"} => Len(log[s]) = Len(wire[s])

\* The status that session_ended is about to announce is one of the five.
DecidedInv(s) == pc[s] \in {"pin", "emit"} => got[s].status \in Terminal

OwedOK    == \A s \in Sessions : OwedInv(s)
LagOK     == \A s \in Sessions : LagInv(s)
DecidedOK == \A s \in Sessions : DecidedInv(s)
IInv      == TypeOK /\ OwedOK /\ LagOK /\ DecidedOK

-----------------------------------------------------------------------------
(* Types of what the actions are built from.                               *)

\* The empty sequence is one of any type.
LEMMA EmptySeqType == ASSUME NEW X PROVE <<>> \in Seq(X)
  OBVIOUS

\* The parts of a sequence that is not empty.
LEMMA SeqType ==
  ASSUME NEW X, NEW q \in Seq(X), q # <<>>
  PROVE  Head(q) \in X /\ Tail(q) \in Seq(X) /\ q[Len(q)] \in X
  OBVIOUS

\* The types hold at the start.
LEMMA InitType == ASSUME Init PROVE TypeOK
  BY EmptySeqType
  DEF Init, TypeOK, DbTypeOK, PumpTypeOK, ConnTypeOK, BackendTypeOK,
      DaemonTypeOK, ReplyStates, RowStatus, Terminal, RawStatus, PcStates,
      Unregistered, NoResult, IdleRequest, Idents

\* An INSERT of an envelope keeps the types.
LEMMA PersistType ==
  ASSUME DbTypeOK, PumpTypeOK, NEW s \in Sessions, NEW env \in EnvelopeSet,
         NEW expired \in BOOLEAN, NEW spent \in {0, 1},
         NEW next \in PcStates, NEW onFail \in PcStates,
         Persist(s, env, expired, spent, next, onFail)
  PROVE  /\ log' \in [Sessions -> Seq(EnvelopeSet)]
         /\ pc' \in [Sessions -> PcStates]
         /\ faults' \in Nat
<1>1. Append(log[s], env) \in Seq(EnvelopeSet)
  BY DEF DbTypeOK
<1>2. log' \in [Sessions -> Seq(EnvelopeSet)]
  BY <1>1 DEF Persist, DbTypeOK
<1>3. pc' \in [Sessions -> PcStates]
  BY DEF Persist, PumpTypeOK
<1>4. faults' \in Nat
  BY DEF Persist, DbTypeOK
<1> QED BY <1>2, <1>3, <1>4

\* So does the pin of the backend's session id.
LEMMA PinType ==
  ASSUME DbTypeOK, NEW s \in Sessions, NEW due \in BOOLEAN,
         NEW expired \in BOOLEAN, NEW spent \in {0, 1}, NEW id \in Idents,
         PinIdent(s, id, due, expired, spent)
  PROVE  ident' \in [Sessions -> Idents]
  BY DEF PinIdent, DbTypeOK

\* A pin costs at most one fault.
LEMMA PinFaultsType ==
  ASSUME NEW due \in BOOLEAN, NEW expired \in BOOLEAN
  PROVE  PinFaults(due, expired) \subseteq {0, 1}
  BY DEF PinFaults

\* Whether a statement's context is done is yes or no.
LEMMA StatementExpiredType ==
  ASSUME TypeOK, NEW s \in Sessions, NEW state
  PROVE  StatementExpired(s, state) \subseteq BOOLEAN
  BY DEF StatementExpired, TypeOK, ConnTypeOK

\* An UPDATE of a row keeps the types.
LEMMA SetRowType ==
  ASSUME DbTypeOK, NEW s \in Sessions, NEW st \in RowStatus, SetRow(s, st)
  PROVE  row' \in [Sessions -> RowStatus] /\ faults' \in Nat
  BY DEF SetRow, DbTypeOK, Fault

\* So does a Write to the client.
LEMMA DeliverType ==
  ASSUME DbTypeOK, ConnTypeOK, NEW s \in Sessions, log[s] # <<>>, Deliver(s)
  PROVE  wire' \in [Sessions -> Seq(EnvelopeSet)]
<1>1. log[s][Len(log[s])] \in EnvelopeSet
  BY SeqType DEF DbTypeOK
<1>2. Append(wire[s], log[s][Len(log[s])]) \in Seq(EnvelopeSet)
  BY <1>1 DEF ConnTypeOK
<1> QED BY <1>2 DEF Deliver, ConnTypeOK

\* A message that is received is one.
LEMMA TakeType ==
  ASSUME BackendTypeOK, NEW s \in Sessions, chan[s] # <<>>,
         chan' = [chan EXCEPT ![s] = Tail(@)]
  PROVE  /\ Head(chan[s]) \in MessageKinds
         /\ chan' \in [Sessions -> Seq(MessageKinds)]
<1>1. Head(chan[s]) \in MessageKinds /\ Tail(chan[s]) \in Seq(MessageKinds)
  BY SeqType DEF BackendTypeOK
<1> QED BY <1>1 DEF BackendTypeOK

ResultCell ==
  [state : {"none", "ready", "closed"}, status : RawStatus, id : BOOLEAN]

\* Reading the Result keeps its cell.
LEMMA ResultType ==
  ASSUME BackendTypeOK, NEW s \in Sessions, NEW st \in {"none", "ready", "closed"}
  PROVE  [res EXCEPT ![s].state = st] \in [Sessions -> ResultCell]
  BY DEF BackendTypeOK, ResultCell

\* session_ended carries a terminal status.
LEMMA FinalStatusType ==
  ASSUME NEW s \in Sessions PROVE FinalStatus(s) \in Terminal
  BY DEF FinalStatus, StatusFromAgentResult, Terminal

\* Every step keeps every type.  Under each action, first the groups of
\* variables that it leaves alone, then those that it changes.
LEMMA TypeStep ==
  ASSUME TypeOK, OwedOK, [Next]_vars
  PROVE  TypeOK'
<1>1. ASSUME NEW s \in Sessions, Begin(s) PROVE TypeOK'
  <2>1. ConnTypeOK' /\ BackendTypeOK' /\ DaemonTypeOK'
    BY <1>1 DEF Begin, TypeOK, ConnTypeOK, BackendTypeOK, DaemonTypeOK,
           connVars, backendVars, regVars, procVars
  <2>2. row' \in [Sessions -> RowStatus] /\ faults' \in Nat
    BY <1>1 DEF TypeOK, DbTypeOK, Begin, Fault, RowStatus
  <2>3. pc' \in [Sessions -> PcStates]
    BY <1>1 DEF TypeOK, PumpTypeOK, Begin, Goto, PcStates, Unregistered
  <2>4. DbTypeOK' /\ PumpTypeOK'
    BY <1>1, <2>2, <2>3 DEF TypeOK, DbTypeOK, PumpTypeOK, Begin
  <2> QED BY <2>1, <2>4 DEF TypeOK
<1>2. ASSUME NEW s \in Sessions, Register(s) PROVE TypeOK'
  <2>1. DbTypeOK' /\ ConnTypeOK' /\ BackendTypeOK'
    BY <1>2 DEF Register, TypeOK, DbTypeOK, ConnTypeOK, BackendTypeOK, dbVars,
           connVars, backendVars
  <2>2. PumpTypeOK' /\ DaemonTypeOK'
    BY <1>2 DEF Register, TypeOK, PumpTypeOK, DaemonTypeOK, regVars, procVars,
           Goto, PcStates, BeforePump
  <2> QED BY <2>1, <2>2 DEF TypeOK
<1>3. ASSUME NEW s \in Sessions, Execute(s) PROVE TypeOK'
  <2>1. DbTypeOK' /\ ConnTypeOK' /\ BackendTypeOK' /\ DaemonTypeOK'
    BY <1>3 DEF Execute, TypeOK, DbTypeOK, ConnTypeOK, BackendTypeOK,
           DaemonTypeOK, dbVars, connVars, backendVars, regVars, procVars
  <2>2. PumpTypeOK'
    BY <1>3 DEF Execute, TypeOK, PumpTypeOK, Goto, PcStates, PumpStates, FinalStates,
           BeforePump
  <2> QED BY <2>1, <2>2 DEF TypeOK
<1>4. ASSUME NEW s \in Sessions, PersistStarted(s) PROVE TypeOK'
  <2>1. ConnTypeOK' /\ BackendTypeOK' /\ DaemonTypeOK'
    BY <1>4 DEF PersistStarted, TypeOK, ConnTypeOK, BackendTypeOK,
           DaemonTypeOK, connVars, backendVars, regVars, procVars
  <2>2. Envelope(0, "session_started", "") \in EnvelopeSet
    BY DEF Envelope, EnvelopeSet
  <2>3. "started" \in PcStates /\ "abort" \in PcStates /\ ctxDone[s] \in BOOLEAN
    BY DEF PcStates, BeforePump, PumpStates, FinalStates, TypeOK, ConnTypeOK
  <2>4. /\ log' \in [Sessions -> Seq(EnvelopeSet)]
        /\ pc' \in [Sessions -> PcStates]
        /\ faults' \in Nat
    BY <1>4, <2>2, <2>3, PersistType DEF PersistStarted, TypeOK
  <2>5. DbTypeOK' /\ PumpTypeOK'
    BY <1>4, <2>4 DEF PersistStarted, TypeOK, DbTypeOK, PumpTypeOK
  <2> QED BY <2>1, <2>5 DEF TypeOK
<1>5. ASSUME NEW s \in Sessions, WriteStarted(s) PROVE TypeOK'
  <2>1. DbTypeOK' /\ BackendTypeOK' /\ DaemonTypeOK'
    BY <1>5 DEF WriteStarted, TypeOK, DbTypeOK, BackendTypeOK, DaemonTypeOK,
           dbVars, backendVars, regVars, procVars
  <2>2. PumpTypeOK'
    BY <1>5 DEF WriteStarted, TypeOK, PumpTypeOK, Goto, PcStates, PumpStates, FinalStates
  <2>3. log[s] # <<>>
    BY <1>5 DEF WriteStarted, OwedOK, OwedInv, Writing
  <2>4. wire' \in [Sessions -> Seq(EnvelopeSet)]
    BY <1>5, <2>3, DeliverType DEF WriteStarted, TypeOK
  <2>5. ConnTypeOK'
    BY <1>5, <2>4 DEF WriteStarted, TypeOK, ConnTypeOK
  <2> QED BY <2>1, <2>2, <2>5 DEF TypeOK
<1>6. ASSUME NEW s \in Sessions, Heartbeat(s) PROVE TypeOK'
  <2>1. ConnTypeOK' /\ BackendTypeOK' /\ DaemonTypeOK'
    BY <1>6 DEF Heartbeat, TypeOK, ConnTypeOK, BackendTypeOK, DaemonTypeOK,
           connVars, backendVars, regVars, procVars
  <2>2. Envelope(nextSeq[s], "heartbeat", "") \in EnvelopeSet
    BY DEF Envelope, EnvelopeSet, TypeOK, PumpTypeOK
  <2>3. "write" \in PcStates /\ "abort" \in PcStates /\ ctxDone[s] \in BOOLEAN
    BY DEF PcStates, PumpStates, FinalStates, TypeOK, ConnTypeOK
  <2>4. /\ log' \in [Sessions -> Seq(EnvelopeSet)]
        /\ pc' \in [Sessions -> PcStates]
        /\ faults' \in Nat
    BY <1>6, <2>2, <2>3, PersistType DEF Heartbeat, TypeOK
  <2>5. /\ nextSeq' = [nextSeq EXCEPT ![s] = @ + 1]
        /\ loop' = [loop EXCEPT ![s] = "select"]
        /\ UNCHANGED <<row, ident, seen, got>>
    BY <1>6 DEF Heartbeat
  <2>6. DbTypeOK' /\ PumpTypeOK'
    BY <2>4, <2>5 DEF TypeOK, DbTypeOK, PumpTypeOK
  <2> QED BY <2>1, <2>6 DEF TypeOK
<1>7. ASSUME NEW s \in Sessions, TakeMessage(s) PROVE TypeOK'
  <2>1. ConnTypeOK' /\ DaemonTypeOK'
    BY <1>7 DEF TakeMessage, TypeOK, ConnTypeOK, DaemonTypeOK, connVars,
           regVars, procVars
  <2> DEFINE m    == Head(chan[s])
             pins == m = "ident" /\ ~seen[s]
             next == IF m = "big" THEN "writeBig" ELSE "write"
  <2>2. m \in MessageKinds /\ chan' \in [Sessions -> Seq(MessageKinds)]
    BY <1>7, TakeType DEF TakeMessage, TypeOK
  <2>3. BackendTypeOK'
    BY <1>7, <2>2 DEF TakeMessage, TypeOK, BackendTypeOK
  <2>4. PICK expired \in StatementExpired(s, pc[s]) :
          \E spent \in PinFaults(pins, expired) :
            /\ PinIdent(s, "message", pins, expired, spent)
            /\ Persist(s, Envelope(nextSeq[s], "message", m), expired, spent,
                       next, OnPersistFailure(pc[s]))
    BY <1>7 DEF TakeMessage
  <2>5. PICK spent \in PinFaults(pins, expired) :
            /\ PinIdent(s, "message", pins, expired, spent)
            /\ Persist(s, Envelope(nextSeq[s], "message", m), expired, spent,
                       next, OnPersistFailure(pc[s]))
    BY <2>4
  <2>6. expired \in BOOLEAN /\ spent \in {0, 1} /\ pins \in BOOLEAN
    <3>1. expired \in BOOLEAN
      BY <2>4, StatementExpiredType
    <3>2. pins \in BOOLEAN
      BY DEF TypeOK, PumpTypeOK
    <3> HIDE DEF pins
    <3> QED BY <2>5, <3>1, <3>2, PinFaultsType
  <2>7. Envelope(nextSeq[s], "message", m) \in EnvelopeSet
    BY <2>2 DEF Envelope, EnvelopeSet, TypeOK, PumpTypeOK
  <2>8. next \in PcStates /\ OnPersistFailure(pc[s]) \in PcStates
    BY DEF OnPersistFailure, PcStates, PumpStates, FinalStates, WaitStates
  <2>9. ident' \in [Sessions -> Idents]
    <3>1. "message" \in Idents
      BY DEF Idents
    <3> HIDE DEF m, pins, next
    <3> QED BY <2>5, <2>6, <3>1, PinType DEF TypeOK
  <2>10. /\ log' \in [Sessions -> Seq(EnvelopeSet)]
         /\ pc' \in [Sessions -> PcStates]
         /\ faults' \in Nat
    <3> HIDE DEF m, pins, next
    <3> QED BY <2>5, <2>6, <2>7, <2>8, PersistType DEF TypeOK
  <2>11. /\ nextSeq' = [nextSeq EXCEPT ![s] = @ + 1]
         /\ seen' = [seen EXCEPT ![s] = @ \/ pins]
         /\ loop' = [loop EXCEPT ![s] = pc[s]]
         /\ pc[s] \in {"select"} \cup DrainStates
         /\ UNCHANGED <<row, got>>
    BY <1>7 DEF TakeMessage
  <2>12. seen' \in [Sessions -> BOOLEAN]
    BY <2>11 DEF TypeOK, PumpTypeOK
  <2>13. DbTypeOK' /\ PumpTypeOK'
    <3> HIDE DEF m, pins, next
    <3> QED BY <2>9, <2>10, <2>11, <2>12 DEF TypeOK, DbTypeOK, PumpTypeOK
  <2> QED BY <2>1, <2>3, <2>13 DEF TypeOK
<1>8. ASSUME NEW s \in Sessions, EmitTruncation(s) PROVE TypeOK'
  <2>1. ConnTypeOK' /\ BackendTypeOK' /\ DaemonTypeOK'
    BY <1>8 DEF EmitTruncation, TypeOK, ConnTypeOK, BackendTypeOK,
           DaemonTypeOK, connVars, backendVars, regVars, procVars
  <2>2. PICK expired \in StatementExpired(s, loop[s]) :
          Persist(s, Envelope(nextSeq[s], "error", "message_truncated"), expired,
                  0, "write", OnPersistFailure(loop[s]))
    BY <1>8 DEF EmitTruncation
  <2>3. expired \in BOOLEAN
    BY StatementExpiredType
  <2>4. Envelope(nextSeq[s], "error", "message_truncated") \in EnvelopeSet
    BY DEF Envelope, EnvelopeSet, TypeOK, PumpTypeOK
  <2>5. "write" \in PcStates /\ OnPersistFailure(loop[s]) \in PcStates
    BY DEF OnPersistFailure, PcStates, PumpStates, FinalStates, WaitStates
  <2>6. /\ log' \in [Sessions -> Seq(EnvelopeSet)]
        /\ pc' \in [Sessions -> PcStates]
        /\ faults' \in Nat
    BY <2>2, <2>3, <2>4, <2>5, PersistType DEF TypeOK
  <2>7. /\ nextSeq' = [nextSeq EXCEPT ![s] = @ + 1]
        /\ UNCHANGED <<row, ident, loop, seen, got>>
    BY <1>8 DEF EmitTruncation
  <2>8. DbTypeOK' /\ PumpTypeOK'
    BY <2>6, <2>7 DEF TypeOK, DbTypeOK, PumpTypeOK
  <2> QED BY <2>1, <2>8 DEF TypeOK
<1>9. ASSUME NEW s \in Sessions, WriteEnvelope(s) PROVE TypeOK'
  <2>1. DbTypeOK' /\ BackendTypeOK' /\ DaemonTypeOK'
    BY <1>9 DEF WriteEnvelope, TypeOK, DbTypeOK, BackendTypeOK, DaemonTypeOK,
           dbVars, backendVars, regVars, procVars
  <2>2. PumpTypeOK'
    BY <1>9 DEF WriteEnvelope, TypeOK, PumpTypeOK, Goto, PcStates, PumpStates, FinalStates
  <2>3. log[s] # <<>>
    BY <1>9 DEF WriteEnvelope, OwedOK, OwedInv, Writing
  <2>4. wire' \in [Sessions -> Seq(EnvelopeSet)]
    BY <1>9, <2>3, DeliverType DEF WriteEnvelope, TypeOK
  <2>5. ConnTypeOK'
    BY <1>9, <2>4 DEF WriteEnvelope, TypeOK, ConnTypeOK
  <2> QED BY <2>1, <2>2, <2>5 DEF TypeOK
<1>10. ASSUME NEW s \in Sessions, PumpCancelled(s) PROVE TypeOK'
  <2>1. DbTypeOK' /\ ConnTypeOK' /\ BackendTypeOK' /\ DaemonTypeOK'
    BY <1>10 DEF PumpCancelled, TypeOK, DbTypeOK, ConnTypeOK, BackendTypeOK,
           DaemonTypeOK, dbVars, connVars, backendVars, regVars, procVars
  <2>2. PumpTypeOK'
    BY <1>10 DEF PumpCancelled, TypeOK, PumpTypeOK, Goto, PcStates,
           PumpStates, FinalStates, DrainStates
  <2> QED BY <2>1, <2>2 DEF TypeOK
<1>11. ASSUME NEW s \in Sessions, PumpClosed(s) PROVE TypeOK'
  <2>1. DbTypeOK' /\ ConnTypeOK' /\ BackendTypeOK' /\ DaemonTypeOK'
    BY <1>11 DEF PumpClosed, TypeOK, DbTypeOK, ConnTypeOK, BackendTypeOK,
           DaemonTypeOK, dbVars, connVars, backendVars, regVars, procVars
  <2>2. PumpTypeOK'
    BY <1>11 DEF PumpClosed, TypeOK, PumpTypeOK, Goto, PcStates, PumpStates, FinalStates,
           WaitStates
  <2> QED BY <2>1, <2>2 DEF TypeOK
<1>12. ASSUME NEW s \in Sessions, PumpResult(s) PROVE TypeOK'
  <2>1. DbTypeOK' /\ ConnTypeOK' /\ DaemonTypeOK'
    BY <1>12 DEF PumpResult, TypeOK, DbTypeOK, ConnTypeOK, DaemonTypeOK,
           dbVars, connVars, regVars, procVars
  <2>2. res \in [Sessions -> ResultCell]
    BY DEF TypeOK, BackendTypeOK, ResultCell
  <2>3. res' \in [Sessions -> ResultCell]
    BY <1>12, <2>2, ResultType DEF PumpResult, TypeOK
  <2>4. BackendTypeOK'
    BY <1>12, <2>3 DEF PumpResult, TypeOK, BackendTypeOK, ResultCell
  <2>5. got' \in [Sessions -> [status : RawStatus, id : BOOLEAN]]
    <3>1. [status |-> res[s].status, id |-> res[s].id] \in
            [status : RawStatus, id : BOOLEAN]
      BY <2>2 DEF ResultCell
    <3>2. /\ DefaultResult("failed") \in [status : RawStatus, id : BOOLEAN]
          /\ DefaultResult("cancelled") \in [status : RawStatus, id : BOOLEAN]
      BY DEF DefaultResult, RawStatus, Terminal
    <3> QED BY <1>12, <3>1, <3>2 DEF PumpResult, TypeOK, PumpTypeOK
  <2>6. pc' \in [Sessions -> PcStates]
    BY <1>12 DEF PumpResult, TypeOK, PumpTypeOK, Goto, PcStates, PumpStates, FinalStates,
                DrainStates
  <2>7. PumpTypeOK'
    BY <1>12, <2>5, <2>6 DEF PumpResult, TypeOK, PumpTypeOK
  <2> QED BY <2>1, <2>4, <2>7 DEF TypeOK
<1>13. ASSUME NEW s \in Sessions, DrainEnd(s) PROVE TypeOK'
  <2>1. DbTypeOK' /\ ConnTypeOK' /\ BackendTypeOK' /\ DaemonTypeOK'
    BY <1>13 DEF DrainEnd, TypeOK, DbTypeOK, ConnTypeOK, BackendTypeOK,
           DaemonTypeOK, dbVars, connVars, backendVars, regVars, procVars
  <2>2. PumpTypeOK'
    BY <1>13 DEF DrainEnd, TypeOK, PumpTypeOK, Goto, PcStates, PumpStates, FinalStates,
           WaitStates, DrainStates
  <2> QED BY <2>1, <2>2 DEF TypeOK
<1>14. ASSUME NEW s \in Sessions, TakeResult(s) PROVE TypeOK'
  <2>1. DbTypeOK' /\ ConnTypeOK' /\ DaemonTypeOK'
    BY <1>14 DEF TakeResult, TypeOK, DbTypeOK, ConnTypeOK, DaemonTypeOK,
           dbVars, connVars, regVars, procVars
  <2>2. res \in [Sessions -> ResultCell]
    BY DEF TypeOK, BackendTypeOK, ResultCell
  <2>3. res' \in [Sessions -> ResultCell]
    BY <1>14, <2>2, ResultType DEF TakeResult, TypeOK
  <2>4. BackendTypeOK'
    BY <1>14, <2>3 DEF TakeResult, TypeOK, BackendTypeOK, ResultCell
  <2>5. got' \in [Sessions -> [status : RawStatus, id : BOOLEAN]]
    <3>1. [status |-> res[s].status, id |-> res[s].id] \in
            [status : RawStatus, id : BOOLEAN]
      BY <2>2 DEF ResultCell
    <3>2. /\ DefaultResult("failed") \in [status : RawStatus, id : BOOLEAN]
          /\ DefaultResult("cancelled") \in [status : RawStatus, id : BOOLEAN]
      BY DEF DefaultResult, RawStatus, Terminal
    <3> QED BY <1>14, <3>1, <3>2 DEF TakeResult, TypeOK, PumpTypeOK
  <2>6. pc' \in [Sessions -> PcStates]
    BY <1>14 DEF TakeResult, TypeOK, PumpTypeOK, Goto, PcStates, PumpStates, FinalStates
  <2>7. PumpTypeOK'
    BY <1>14, <2>5, <2>6 DEF TakeResult, TypeOK, PumpTypeOK
  <2> QED BY <2>1, <2>4, <2>7 DEF TypeOK
<1>15. ASSUME NEW s \in Sessions, EmitEnded(s) PROVE TypeOK'
  <2>1. ConnTypeOK' /\ BackendTypeOK' /\ DaemonTypeOK'
    BY <1>15 DEF EmitEnded, TypeOK, ConnTypeOK, BackendTypeOK, DaemonTypeOK,
           connVars, backendVars, regVars, procVars
  <2>2. Persist(s, Envelope(nextSeq[s], "session_ended", got[s].status), FALSE,
                0, "writeEnd", "abort")
    BY <1>15 DEF EmitEnded
  <2>3. Envelope(nextSeq[s], "session_ended", got[s].status) \in EnvelopeSet
    BY DEF Envelope, EnvelopeSet, TypeOK, PumpTypeOK, RowStatus, RawStatus
  <2>4. "writeEnd" \in PcStates /\ "abort" \in PcStates
    BY DEF PcStates, PumpStates, FinalStates
  <2>5. /\ log' \in [Sessions -> Seq(EnvelopeSet)]
        /\ pc' \in [Sessions -> PcStates]
        /\ faults' \in Nat
    BY <2>2, <2>3, <2>4, PersistType DEF TypeOK
  <2>6. /\ nextSeq' = [nextSeq EXCEPT ![s] = @ + 1]
        /\ UNCHANGED <<row, ident, loop, seen, got>>
    BY <1>15 DEF EmitEnded
  <2>7. DbTypeOK' /\ PumpTypeOK'
    BY <2>5, <2>6 DEF TypeOK, DbTypeOK, PumpTypeOK
  <2> QED BY <2>1, <2>7 DEF TypeOK
<1>16. ASSUME NEW s \in Sessions, WriteEnded(s) PROVE TypeOK'
  <2>1. DbTypeOK' /\ BackendTypeOK' /\ DaemonTypeOK'
    BY <1>16 DEF WriteEnded, TypeOK, DbTypeOK, BackendTypeOK, DaemonTypeOK,
           dbVars, backendVars, regVars, procVars
  <2>2. PumpTypeOK'
    BY <1>16 DEF WriteEnded, TypeOK, PumpTypeOK, Goto, PcStates, PumpStates, FinalStates
  <2>3. log[s] # <<>>
    BY <1>16 DEF WriteEnded, OwedOK, OwedInv, Writing
  <2>4. wire' \in [Sessions -> Seq(EnvelopeSet)]
    BY <1>16, <2>3, DeliverType DEF WriteEnded, TypeOK
  <2>5. ConnTypeOK'
    BY <1>16, <2>4 DEF WriteEnded, TypeOK, ConnTypeOK
  <2> QED BY <2>1, <2>2, <2>5 DEF TypeOK
<1>17. ASSUME NEW s \in Sessions, UpdateRow(s) PROVE TypeOK'
  <2>1. ConnTypeOK' /\ BackendTypeOK' /\ DaemonTypeOK'
    BY <1>17 DEF UpdateRow, TypeOK, ConnTypeOK, BackendTypeOK, DaemonTypeOK,
           connVars, backendVars, regVars, procVars
  <2>2. log[s][Len(log[s])].d \in RowStatus
    BY <1>17 DEF UpdateRow, OwedOK, OwedInv, RowStatus
  <2>3. row' \in [Sessions -> RowStatus] /\ faults' \in Nat
    BY <1>17, <2>2, SetRowType DEF UpdateRow, TypeOK
  <2>4. DbTypeOK'
    BY <1>17, <2>3 DEF UpdateRow, TypeOK, DbTypeOK
  <2>5. PumpTypeOK'
    BY <1>17 DEF UpdateRow, TypeOK, PumpTypeOK, Goto, PcStates
  <2> QED BY <2>1, <2>4, <2>5 DEF TypeOK
<1>18. ASSUME NEW s \in Sessions, AbortStream(s) PROVE TypeOK'
  <2>1. ConnTypeOK' /\ BackendTypeOK' /\ DaemonTypeOK'
    BY <1>18 DEF AbortStream, TypeOK, ConnTypeOK, BackendTypeOK, DaemonTypeOK,
           connVars, backendVars, regVars, procVars
  <2>2. row' \in [Sessions -> RowStatus] /\ faults' \in Nat
    BY <1>18, SetRowType DEF AbortStream, TypeOK, RowStatus, Terminal
  <2>3. DbTypeOK'
    BY <1>18, <2>2 DEF AbortStream, TypeOK, DbTypeOK
  <2>4. PumpTypeOK'
    BY <1>18 DEF AbortStream, TypeOK, PumpTypeOK, Goto, PcStates
  <2> QED BY <2>1, <2>3, <2>4 DEF TypeOK
<1>19. ASSUME NEW s \in Sessions, Exit(s) PROVE TypeOK'
  <2>1. DbTypeOK' /\ BackendTypeOK'
    BY <1>19 DEF Exit, TypeOK, DbTypeOK, BackendTypeOK, dbVars, backendVars
  <2>2. PumpTypeOK' /\ ConnTypeOK' /\ DaemonTypeOK'
    BY <1>19 DEF Exit, TypeOK, PumpTypeOK, ConnTypeOK, DaemonTypeOK, regVars,
           procVars, Goto, PcStates, Unregistered
  <2> QED BY <2>1, <2>2 DEF TypeOK
<1>20. ASSUME NEW s \in Sessions, Discard(s) PROVE TypeOK'
  <2>1. DbTypeOK' /\ PumpTypeOK' /\ ConnTypeOK' /\ DaemonTypeOK'
    BY <1>20 DEF Discard, TypeOK, DbTypeOK, PumpTypeOK, ConnTypeOK,
           DaemonTypeOK, dbVars, pumpVars, connVars, regVars, procVars
  <2>2. BackendTypeOK'
    BY <1>20 DEF Discard, TypeOK, BackendTypeOK
  <2> QED BY <2>1, <2>2 DEF TypeOK
<1>21. ASSUME NEW s \in Sessions, Send(s) PROVE TypeOK'
  <2>1. DbTypeOK' /\ PumpTypeOK' /\ ConnTypeOK' /\ DaemonTypeOK'
    BY <1>21 DEF Send, TypeOK, DbTypeOK, PumpTypeOK, ConnTypeOK, DaemonTypeOK,
           dbVars, pumpVars, connVars, regVars, procVars
  <2>2. PICK m \in MessageKinds : /\ sent' = [sent EXCEPT ![s] = Append(@, m)]
                                  /\ chan' = [chan EXCEPT ![s] = Append(@, m)]
    BY <1>21, ConstantsAssumption DEF Send
  <2>3. BackendTypeOK'
    BY <1>21, <2>2 DEF Send, TypeOK, BackendTypeOK
  <2> QED BY <2>1, <2>3 DEF TypeOK
<1>22. ASSUME NEW s \in Sessions, Finish(s) PROVE TypeOK'
  <2>1. DbTypeOK' /\ PumpTypeOK' /\ ConnTypeOK' /\ DaemonTypeOK'
    BY <1>22 DEF Finish, TypeOK, DbTypeOK, PumpTypeOK, ConnTypeOK,
           DaemonTypeOK, dbVars, pumpVars, connVars, regVars, procVars
  <2>2. \A st \in NaturalStatus \cup (IF ctxDone[s] THEN CancelStatus ELSE {}),
           id \in ResultIds : st \in RawStatus /\ id \in BOOLEAN
    BY ConstantsAssumption
  <2>3. res' \in [Sessions -> ResultCell]
    <3>1. CASE SilentBackend /\ res' = [res EXCEPT ![s].state = "closed"]
      BY <3>1, ResultType DEF TypeOK
    <3>2. CASE \E st \in NaturalStatus \cup (IF ctxDone[s] THEN CancelStatus ELSE {}),
                  id \in ResultIds :
                 res' = [res EXCEPT ![s] = [state |-> "ready", status |-> st, id |-> id]]
      BY <3>2, <2>2 DEF TypeOK, BackendTypeOK, ResultCell
    <3> QED BY <1>22, <3>1, <3>2 DEF Finish
  <2>4. BackendTypeOK'
    BY <1>22, <2>3 DEF Finish, TypeOK, BackendTypeOK, ResultCell
  <2> QED BY <2>1, <2>4 DEF TypeOK
<1>23. ASSUME NEW s \in Sessions, CloseMessages(s) PROVE TypeOK'
  <2>1. DbTypeOK' /\ PumpTypeOK' /\ ConnTypeOK' /\ DaemonTypeOK'
    BY <1>23 DEF CloseMessages, TypeOK, DbTypeOK, PumpTypeOK, ConnTypeOK,
           DaemonTypeOK, dbVars, pumpVars, connVars, regVars, procVars
  <2>2. BackendTypeOK'
    BY <1>23 DEF CloseMessages, TypeOK, BackendTypeOK
  <2> QED BY <2>1, <2>2 DEF TypeOK
<1>24. ASSUME NEW s \in Sessions, ClientGone(s) PROVE TypeOK'
  <2>1. DbTypeOK' /\ PumpTypeOK' /\ BackendTypeOK' /\ DaemonTypeOK'
    BY <1>24 DEF ClientGone, TypeOK, DbTypeOK, PumpTypeOK, BackendTypeOK,
           DaemonTypeOK, dbVars, pumpVars, backendVars, regVars, procVars
  <2>2. ConnTypeOK'
    BY <1>24 DEF ClientGone, TypeOK, ConnTypeOK
  <2> QED BY <2>1, <2>2 DEF TypeOK
<1>25. ASSUME NEW s \in Sessions, NoticeGone(s) PROVE TypeOK'
  <2>1. DbTypeOK' /\ PumpTypeOK' /\ BackendTypeOK' /\ DaemonTypeOK'
    BY <1>25 DEF NoticeGone, TypeOK, DbTypeOK, PumpTypeOK, BackendTypeOK,
           DaemonTypeOK, dbVars, pumpVars, backendVars, regVars, procVars
  <2>2. ConnTypeOK'
    BY <1>25 DEF NoticeGone, TypeOK, ConnTypeOK
  <2> QED BY <2>1, <2>2 DEF TypeOK
<1>26. ASSUME NEW c \in Cancels, NEW s \in Sessions, CancelArrive(c, s) PROVE TypeOK'
  <2>1. DbTypeOK' /\ PumpTypeOK' /\ ConnTypeOK' /\ BackendTypeOK'
    BY <1>26 DEF CancelArrive, TypeOK, DbTypeOK, PumpTypeOK, ConnTypeOK,
           BackendTypeOK, dbVars, pumpVars, connVars, backendVars
  <2>2. DaemonTypeOK'
    BY <1>26 DEF CancelArrive, TypeOK, DaemonTypeOK, regVars, procVars,
           ReplyStates
  <2> QED BY <2>1, <2>2 DEF TypeOK
<1>27. ASSUME NEW c \in Cancels, CancelFire(c) PROVE TypeOK'
  <2>1. DbTypeOK' /\ PumpTypeOK' /\ BackendTypeOK'
    BY <1>27 DEF CancelFire, TypeOK, DbTypeOK, PumpTypeOK, BackendTypeOK,
           dbVars, pumpVars, backendVars
  <2>2. ConnTypeOK'
    BY <1>27 DEF CancelFire, TypeOK, ConnTypeOK
  <2>3. requested' \in SUBSET Sessions
    BY <1>27 DEF CancelFire, TypeOK, DaemonTypeOK
  <2>4. creq' \in [Cancels -> [s : Sessions \cup {"none"}, st : ReplyStates]]
    BY <1>27 DEF CancelFire, TypeOK, DaemonTypeOK, ReplyStates
  <2>5. DaemonTypeOK'
    BY <1>27, <2>3, <2>4 DEF CancelFire, TypeOK, DaemonTypeOK, regVars, procVars
  <2> QED BY <2>1, <2>2, <2>5 DEF TypeOK
<1>28. ASSUME Signal PROVE TypeOK'
  <2>1. DbTypeOK' /\ PumpTypeOK' /\ ConnTypeOK' /\ BackendTypeOK'
    BY <1>28 DEF Signal, TypeOK, DbTypeOK, PumpTypeOK, ConnTypeOK,
           BackendTypeOK, dbVars, pumpVars, connVars, backendVars
  <2>2. DaemonTypeOK'
    BY <1>28 DEF Signal, TypeOK, DaemonTypeOK, regVars, procVars
  <2> QED BY <2>1, <2>2 DEF TypeOK
<1>29. ASSUME CancelAll PROVE TypeOK'
  <2>1. DbTypeOK' /\ PumpTypeOK' /\ BackendTypeOK'
    BY <1>29 DEF CancelAll, TypeOK, DbTypeOK, PumpTypeOK, BackendTypeOK,
           dbVars, pumpVars, backendVars
  <2>2. ConnTypeOK' /\ DaemonTypeOK'
    BY <1>29 DEF CancelAll, TypeOK, ConnTypeOK, DaemonTypeOK, regVars,
           procVars
  <2> QED BY <2>1, <2>2 DEF TypeOK
<1>30. ASSUME ServeReturns PROVE TypeOK'
  <2>1. DbTypeOK' /\ PumpTypeOK' /\ ConnTypeOK' /\ BackendTypeOK'
    BY <1>30 DEF ServeReturns, TypeOK, DbTypeOK, PumpTypeOK, ConnTypeOK,
           BackendTypeOK, dbVars, pumpVars, connVars, backendVars
  <2>2. DaemonTypeOK'
    BY <1>30 DEF ServeReturns, TypeOK, DaemonTypeOK, regVars, procVars
  <2> QED BY <2>1, <2>2 DEF TypeOK
<1>31. ASSUME ExitSweep PROVE TypeOK'
  <2>1. PumpTypeOK' /\ ConnTypeOK' /\ BackendTypeOK'
    BY <1>31 DEF ExitSweep, TypeOK, PumpTypeOK, ConnTypeOK, BackendTypeOK,
           pumpVars, connVars, backendVars
  <2>2. DbTypeOK' /\ DaemonTypeOK'
    BY <1>31 DEF ExitSweep, TypeOK, DbTypeOK, DaemonTypeOK, regVars, procVars,
           Swept, Fault, RowStatus, Terminal
  <2> QED BY <2>1, <2>2 DEF TypeOK
<1>32. ASSUME Quit PROVE TypeOK'
  <2>1. DbTypeOK' /\ ConnTypeOK'
    BY <1>32 DEF Quit, ProcessGone, TypeOK, DbTypeOK, ConnTypeOK, dbVars,
           connVars
  <2>2. PumpTypeOK'
    BY <1>32 DEF Quit, ProcessGone, TypeOK, PumpTypeOK, PcStates, Unregistered
  <2>3. BackendTypeOK'
    BY <1>32, EmptySeqType DEF Quit, ProcessGone, TypeOK, BackendTypeOK
  <2>4. creq' \in [Cancels -> [s : Sessions \cup {"none"}, st : ReplyStates]]
    BY <1>32 DEF Quit, ProcessGone, TypeOK, DaemonTypeOK, ReplyStates
  <2>5. DaemonTypeOK'
    BY <1>32, <2>4 DEF Quit, ProcessGone, TypeOK, DaemonTypeOK
  <2> QED BY <2>1, <2>2, <2>3, <2>5 DEF TypeOK
<1>33. ASSUME Crash PROVE TypeOK'
  <2>1. DbTypeOK' /\ ConnTypeOK'
    BY <1>33 DEF Crash, ProcessGone, TypeOK, DbTypeOK, ConnTypeOK, dbVars,
           connVars
  <2>2. PumpTypeOK'
    BY <1>33 DEF Crash, ProcessGone, TypeOK, PumpTypeOK, PcStates, Unregistered
  <2>3. BackendTypeOK'
    BY <1>33, EmptySeqType DEF Crash, ProcessGone, TypeOK, BackendTypeOK
  <2>4. creq' \in [Cancels -> [s : Sessions \cup {"none"}, st : ReplyStates]]
    BY <1>33 DEF Crash, ProcessGone, TypeOK, DaemonTypeOK, ReplyStates
  <2>5. DaemonTypeOK'
    BY <1>33, <2>4 DEF Crash, ProcessGone, TypeOK, DaemonTypeOK
  <2> QED BY <2>1, <2>2, <2>3, <2>5 DEF TypeOK
<1>34. ASSUME Restart PROVE TypeOK'
  <2>1. PumpTypeOK' /\ ConnTypeOK' /\ BackendTypeOK'
    BY <1>34 DEF Restart, TypeOK, PumpTypeOK, ConnTypeOK, BackendTypeOK,
           pumpVars, connVars, backendVars
  <2>2. DbTypeOK' /\ DaemonTypeOK'
    BY <1>34 DEF Restart, TypeOK, DbTypeOK, DaemonTypeOK, regVars, procVars,
           Swept, RowStatus, Terminal
  <2> QED BY <2>1, <2>2 DEF TypeOK
<1>35. ASSUME SecondServe PROVE TypeOK'
  <2>1. PumpTypeOK' /\ ConnTypeOK' /\ BackendTypeOK'
    BY <1>35 DEF SecondServe, TypeOK, PumpTypeOK, ConnTypeOK, BackendTypeOK,
           pumpVars, connVars, backendVars
  <2>2. DbTypeOK' /\ DaemonTypeOK'
    BY <1>35 DEF SecondServe, TypeOK, DbTypeOK, DaemonTypeOK, regVars,
           procVars, Swept, RowStatus, Terminal
  <2> QED BY <2>1, <2>2 DEF TypeOK
<1>36. ASSUME NEW s \in Sessions, Arrive(s) PROVE TypeOK'
  <2>1. DbTypeOK' /\ ConnTypeOK' /\ BackendTypeOK' /\ DaemonTypeOK'
    BY <1>36 DEF Arrive, TypeOK, DbTypeOK, ConnTypeOK, BackendTypeOK,
           DaemonTypeOK, dbVars, connVars, backendVars, regVars, procVars
  <2>2. PumpTypeOK'
    BY <1>36 DEF Arrive, TypeOK, PumpTypeOK, Goto, PcStates, Unregistered
  <2> QED BY <2>1, <2>2 DEF TypeOK
<1>37. ASSUME NEW s \in Sessions, Decide(s) PROVE TypeOK'
  <2>1. DbTypeOK' /\ ConnTypeOK' /\ BackendTypeOK' /\ DaemonTypeOK'
    BY <1>37 DEF Decide, TypeOK, DbTypeOK, ConnTypeOK, BackendTypeOK,
           DaemonTypeOK, dbVars, connVars, backendVars, regVars, procVars
  <2>2. FinalStatus(s) \in RawStatus
    BY FinalStatusType DEF RawStatus
  <2>3. got' \in [Sessions -> [status : RawStatus, id : BOOLEAN]]
    BY <1>37, <2>2 DEF Decide, TypeOK, PumpTypeOK
  <2>4. pc' \in [Sessions -> PcStates]
    BY <1>37 DEF Decide, TypeOK, PumpTypeOK, Goto, PcStates, PumpStates,
           FinalStates
  <2>5. PumpTypeOK'
    BY <1>37, <2>3, <2>4 DEF Decide, TypeOK, PumpTypeOK
  <2> QED BY <2>1, <2>5 DEF TypeOK
<1>38. ASSUME NEW s \in Sessions, PinFinal(s) PROVE TypeOK'
  <2>1. ConnTypeOK' /\ BackendTypeOK' /\ DaemonTypeOK'
    BY <1>38 DEF PinFinal, TypeOK, ConnTypeOK, BackendTypeOK, DaemonTypeOK,
           connVars, backendVars, regVars, procVars
  <2>2. PICK spent \in PinFaults(TRUE, FALSE) :
          /\ PinIdent(s, "result", TRUE, FALSE, spent)
          /\ faults' = faults + spent
    BY <1>38 DEF PinFinal
  <2>3. spent \in {0, 1} /\ "result" \in Idents
    BY <2>2 DEF PinFaults, Idents
  <2>4. ident' \in [Sessions -> Idents]
    BY <2>2, <2>3, PinType DEF TypeOK
  <2>5. faults' \in Nat
    BY <2>2, <2>3 DEF TypeOK, DbTypeOK
  <2>6. DbTypeOK'
    BY <1>38, <2>4, <2>5 DEF PinFinal, TypeOK, DbTypeOK
  <2>7. PumpTypeOK'
    BY <1>38 DEF PinFinal, TypeOK, PumpTypeOK, Goto, PcStates, PumpStates,
           FinalStates
  <2> QED BY <2>1, <2>6, <2>7 DEF TypeOK
<1>39. ASSUME NEW c \in Cancels, CancelRead(c) PROVE TypeOK'
  <2>1. DbTypeOK' /\ PumpTypeOK' /\ ConnTypeOK' /\ BackendTypeOK'
    BY <1>39 DEF CancelRead, TypeOK, DbTypeOK, PumpTypeOK, ConnTypeOK,
           BackendTypeOK, dbVars, pumpVars, connVars, backendVars
  <2>2. DaemonTypeOK'
    BY <1>39 DEF CancelRead, TypeOK, DaemonTypeOK, regVars, procVars,
           ReplyStates
  <2> QED BY <2>1, <2>2 DEF TypeOK
<1>40. ASSUME UNCHANGED vars PROVE TypeOK'
  BY <1>40 DEF vars, TypeOK, DbTypeOK, PumpTypeOK, ConnTypeOK, BackendTypeOK,
         DaemonTypeOK, dbVars, pumpVars, connVars, backendVars, regVars,
         procVars
<1> QED BY <1>1, <1>2, <1>3, <1>4, <1>5, <1>6, <1>7, <1>8, <1>9, <1>10, <1>11,
           <1>12, <1>13, <1>14, <1>15, <1>16, <1>17, <1>18, <1>19, <1>20,
           <1>21, <1>22, <1>23, <1>24, <1>25, <1>26, <1>27, <1>28, <1>29,
           <1>30, <1>31, <1>32, <1>33, <1>34, <1>35, <1>36, <1>37, <1>38,
           <1>39, <1>40
    DEF Next, SessionStep, HandlerStep, BackendStep, DaemonStep

\* A step that decides nothing: no verdict changes, and no handler enters
\* the states in which one is settled.
Undeciding ==
  /\ got' = got
  /\ \A s \in Sessions : pc'[s] \in {"pin", "emit"} => pc[s] \in {"pin", "emit"}

\* It keeps what was decided.
LEMMA UndecidingKeeps == ASSUME DecidedOK, Undeciding PROVE DecidedOK'
  BY DEF DecidedOK, DecidedInv, Undeciding

\* An INSERT decides nothing.
LEMMA PersistDecides ==
  ASSUME TypeOK, NEW s \in Sessions, NEW env, NEW expired, NEW spent,
         NEW next, NEW onFail, next \notin {"pin", "emit"},
         onFail \notin {"pin", "emit"}, got' = got,
         Persist(s, env, expired, spent, next, onFail)
  PROVE  Undeciding
  BY DEF Persist, Undeciding, TypeOK, PumpTypeOK

\* Decide is the only way to a verdict, and nothing changes it before
\* session_ended is inserted.
LEMMA DecidedStep ==
  ASSUME TypeOK, DecidedOK, [Next]_vars
  PROVE  DecidedOK'
<1>1. ASSUME NEW s \in Sessions,
             \/ Arrive(s) \/ Begin(s) \/ Register(s) \/ Execute(s) \/ WriteStarted(s)
             \/ PumpCancelled(s) \/ PumpClosed(s) \/ DrainEnd(s)
      PROVE  Undeciding
  BY <1>1 DEF Arrive, Begin, Register, Execute, WriteStarted, PumpCancelled,
         PumpClosed, DrainEnd, Goto, Undeciding, TypeOK, PumpTypeOK
<1>2. ASSUME NEW s \in Sessions,
             \/ WriteEnvelope(s) \/ WriteEnded(s) \/ UpdateRow(s)
             \/ AbortStream(s) \/ Exit(s) \/ PinFinal(s)
      PROVE  Undeciding
  BY <1>2 DEF WriteEnvelope, WriteEnded, UpdateRow, AbortStream, Exit, PinFinal,
         Goto, Undeciding, TypeOK, PumpTypeOK, DrainStates
<1>3. ASSUME NEW s \in Sessions,
             Discard(s) \/ BackendStep(s) \/ ClientGone(s) \/ NoticeGone(s)
      PROVE  Undeciding
  BY <1>3 DEF Discard, BackendStep, Send, Finish, CloseMessages, ClientGone,
         NoticeGone, pumpVars, Undeciding
<1>4. ASSUME NEW s \in Sessions, PersistStarted(s) PROVE Undeciding
  <2>1. got' = got /\ \E env, expired : Persist(s, env, expired, 0, "started", "abort")
    BY <1>4 DEF PersistStarted
  <2> QED BY <2>1, PersistDecides
<1>5. ASSUME NEW s \in Sessions, Heartbeat(s) PROVE Undeciding
  <2>1. got' = got /\ \E env, expired : Persist(s, env, expired, 0, "write", "abort")
    BY <1>5 DEF Heartbeat
  <2> QED BY <2>1, PersistDecides
<1>6. ASSUME NEW s \in Sessions, TakeMessage(s) PROVE Undeciding
  <2> DEFINE next == IF Head(chan[s]) = "big" THEN "writeBig" ELSE "write"
  <2>1. next \notin {"pin", "emit"} /\ OnPersistFailure(pc[s]) \notin {"pin", "emit"}
    BY DEF OnPersistFailure
  <2>2. \E env, expired, spent :
          Persist(s, env, expired, spent, next, OnPersistFailure(pc[s]))
    BY <1>6 DEF TakeMessage
  <2>3. got' = got
    BY <1>6 DEF TakeMessage
  <2> HIDE DEF next
  <2> QED BY <2>1, <2>2, <2>3, PersistDecides
<1>7. ASSUME NEW s \in Sessions, EmitTruncation(s) PROVE Undeciding
  <2>1. \E env, expired :
          Persist(s, env, expired, 0, "write", OnPersistFailure(loop[s]))
    BY <1>7 DEF EmitTruncation
  <2>2. got' = got /\ OnPersistFailure(loop[s]) \notin {"pin", "emit"}
    BY <1>7 DEF EmitTruncation, OnPersistFailure
  <2> QED BY <2>1, <2>2, PersistDecides
<1>8. ASSUME NEW s \in Sessions, EmitEnded(s) PROVE Undeciding
  <2>1. got' = got /\ \E env, expired : Persist(s, env, expired, 0, "writeEnd", "abort")
    BY <1>8 DEF EmitEnded
  <2> QED BY <2>1, PersistDecides
<1>9. ASSUME NEW s \in Sessions, PumpResult(s) \/ TakeResult(s) PROVE DecidedOK'
  <2>1. /\ pc'[s] \notin {"pin", "emit"}
        /\ \A q \in Sessions \ {s} : pc'[q] = pc[q] /\ got'[q] = got[q]
    BY <1>9 DEF PumpResult, TakeResult, Goto, TypeOK, PumpTypeOK
  <2> QED BY <2>1 DEF DecidedOK, DecidedInv
<1>10. ASSUME NEW s \in Sessions, Decide(s) PROVE DecidedOK'
  <2>1. /\ got'[s].status = FinalStatus(s)
        /\ \A q \in Sessions \ {s} : pc'[q] = pc[q] /\ got'[q] = got[q]
    BY <1>10 DEF Decide, Goto, TypeOK, PumpTypeOK
  <2> QED BY <2>1, FinalStatusType DEF DecidedOK, DecidedInv
<1>11. ASSUME NEW c \in Cancels,
              (\E s \in Sessions : CancelArrive(c, s)) \/ CancelRead(c) \/ CancelFire(c)
       PROVE  Undeciding
  BY <1>11 DEF CancelArrive, CancelRead, CancelFire, pumpVars, Undeciding
<1>12. ASSUME DaemonStep PROVE Undeciding
  <2>1. CASE Quit \/ Crash
    BY <2>1 DEF Quit, Crash, ProcessGone, Undeciding
  <2>2. CASE Signal \/ CancelAll \/ ServeReturns \/ ExitSweep \/ Restart \/ SecondServe
    BY <2>2 DEF Signal, CancelAll, ServeReturns, ExitSweep, Restart,
           SecondServe, pumpVars, Undeciding
  <2> QED BY <1>12, <2>1, <2>2 DEF DaemonStep
<1>13. ASSUME UNCHANGED vars PROVE Undeciding
  BY <1>13 DEF vars, pumpVars, Undeciding
<1> QED BY <1>1, <1>2, <1>3, <1>4, <1>5, <1>6, <1>7, <1>8, <1>9, <1>10, <1>11,
           <1>12, <1>13, UndecidingKeeps
    DEF Next, SessionStep, HandlerStep

-----------------------------------------------------------------------------
(* The transcript and the wire.  An action is quiet for both, or inserts   *)
(* one envelope, or delivers the one that was inserted, or disconnects the *)
(* client.                                                                 *)

Quiet ==
  /\ UNCHANGED <<log, wire, client>>
  /\ \A s \in Sessions :
       \/ pc'[s] = pc[s]
       \/ pc[s] # "lost" /\ pc'[s] = "lost"
       \/ pc[s] \notin Writing \cup {"lost"} /\ pc'[s] \notin Writing \cup {"row", "lost"}

\* A step that touches neither log nor wire leaves the lag.
LEMMA QuietLag ==
  ASSUME TypeOK, OwedOK, LagOK, Quiet
  PROVE  OwedOK' /\ LagOK'
<1> SUFFICES ASSUME NEW s \in Sessions PROVE OwedInv(s)' /\ LagInv(s)'
  BY DEF OwedOK, LagOK
<1>1. OwedInv(s) /\ LagInv(s)
  BY DEF OwedOK, LagOK
<1>2. /\ Len(log[s]) \in Nat /\ Len(wire[s]) \in Nat
  BY DEF TypeOK, DbTypeOK, ConnTypeOK
<1>3. OwedInv(s)'
  BY <1>1 DEF Quiet, OwedInv, Writing
<1>4. LagInv(s)'
  BY <1>1, <1>2 DEF Quiet, LagInv, IsPrefixOf, Writing
<1> QED BY <1>3, <1>4

\* persistAndWrite up to the INSERT.
LEMMA PersistLag ==
  ASSUME TypeOK, OwedOK, LagOK,
         NEW s \in Sessions, NEW env \in EnvelopeSet, NEW expired \in BOOLEAN,
         NEW spent \in {0, 1}, NEW next \in Writing, NEW onFail \in PcStates,
         pc[s] \notin Writing \cup {"lost"}, onFail \notin Writing \cup {"row", "lost"},
         next = "writeEnd" => env.d \in Terminal,
         Persist(s, env, expired, spent, next, onFail),
         UNCHANGED <<wire, client>>
  PROVE  OwedOK' /\ LagOK'
<1>1. CASE UNCHANGED log /\ pc' = [pc EXCEPT ![s] = onFail]
  <2>1. Quiet
    BY <1>1 DEF Quiet, TypeOK, PumpTypeOK
  <2> QED BY <2>1, QuietLag
<1>2. CASE /\ log' = [log EXCEPT ![s] = Append(@, env)]
           /\ pc' = [pc EXCEPT ![s] = next]
  <2> SUFFICES ASSUME NEW q \in Sessions PROVE OwedInv(q)' /\ LagInv(q)'
    BY DEF OwedOK, LagOK
  <2>1. OwedInv(q) /\ LagInv(q)
    BY DEF OwedOK, LagOK
  <2>2. CASE q # s
    <3>1. log'[q] = log[q] /\ pc'[q] = pc[q] /\ wire'[q] = wire[q] /\ client'[q] = client[q]
      BY <1>2, <2>2 DEF TypeOK, DbTypeOK, PumpTypeOK
    <3> QED BY <2>1, <3>1 DEF OwedInv, LagInv
  <2>3. CASE q = s
    <3>1. log[s] \in Seq(EnvelopeSet) /\ wire[s] \in Seq(EnvelopeSet)
      BY DEF TypeOK, DbTypeOK, ConnTypeOK
    <3>2. /\ log'[s] = Append(log[s], env) /\ pc'[s] = next
          /\ wire'[s] = wire[s] /\ client'[s] = client[s]
      BY <1>2 DEF TypeOK, DbTypeOK, PumpTypeOK
    <3>3. OwedInv(s)'
      BY <3>1, <3>2 DEF OwedInv, Writing
    <3>4. LagInv(s)'
      BY <2>1, <2>3, <3>1, <3>2 DEF LagInv, IsPrefixOf, Writing
    <3> QED BY <2>3, <3>3, <3>4
  <2> QED BY <2>2, <2>3
<1> QED BY <1>1, <1>2 DEF Persist

\* persistAndWrite from the Write on.
LEMMA DeliverLag ==
  ASSUME TypeOK, OwedOK, LagOK,
         NEW s \in Sessions, pc[s] \in Writing, Deliver(s),
         NEW next \in PcStates, next \notin Writing \cup {"lost"},
         next = "row" => pc[s] = "writeEnd",
         pc' = [pc EXCEPT ![s] = next], UNCHANGED <<log, client>>
  PROVE  OwedOK' /\ LagOK'
<1> SUFFICES ASSUME NEW q \in Sessions PROVE OwedInv(q)' /\ LagInv(q)'
  BY DEF OwedOK, LagOK
<1>1. OwedInv(q) /\ LagInv(q)
  BY DEF OwedOK, LagOK
<1>2. CASE q # s
  <2>1. log'[q] = log[q] /\ pc'[q] = pc[q] /\ wire'[q] = wire[q] /\ client'[q] = client[q]
    BY <1>2 DEF Deliver, TypeOK, ConnTypeOK, PumpTypeOK
  <2> QED BY <1>1, <2>1 DEF OwedInv, LagInv
<1>3. CASE q = s
  <2>1. log[s] \in Seq(EnvelopeSet) /\ wire[s] \in Seq(EnvelopeSet)
    BY DEF TypeOK, DbTypeOK, ConnTypeOK
  <2>2. log'[s] = log[s] /\ pc'[s] = next /\ client'[s] = client[s]
    BY DEF TypeOK, PumpTypeOK
  <2>3. OwedInv(s)'
    BY <1>1, <1>3, <2>2 DEF OwedInv, Writing
  <2>4. CASE client[s]
    <3>1. wire'[s] = Append(wire[s], log[s][Len(log[s])])
      BY <2>4 DEF Deliver, TypeOK, ConnTypeOK
    <3> QED BY <1>1, <1>3, <2>1, <2>2, <2>3, <2>4, <3>1 DEF LagInv, IsPrefixOf, Writing
  <2>5. CASE ~client[s]
    <3>1. wire'[s] = wire[s]
      BY <2>5 DEF Deliver
    <3> QED BY <1>1, <1>3, <2>2, <2>3, <2>5, <3>1 DEF LagInv, IsPrefixOf
  <2> QED BY <2>4, <2>5 DEF TypeOK, ConnTypeOK
<1> QED BY <1>2, <1>3

\* Every step keeps the transcript's shape and the wire's lag.
LEMMA LagStep ==
  ASSUME TypeOK, OwedOK, LagOK, DecidedOK, [Next]_vars
  PROVE  OwedOK' /\ LagOK'
<1> DEFINE OK == OwedOK' /\ LagOK'
<1>1. ASSUME NEW s \in Sessions, Begin(s) PROVE OK
  <2>1. Quiet BY <1>1 DEF Begin, Quiet, TypeOK, PumpTypeOK, Writing, dbVars,
        connVars, pumpVars, Goto, Unregistered
  <2> QED BY <2>1, QuietLag
<1>2. ASSUME NEW s \in Sessions, Register(s) PROVE OK
  <2>1. Quiet BY <1>2 DEF Register, Quiet, TypeOK, PumpTypeOK, Writing,
        dbVars, connVars, pumpVars, Goto
  <2> QED BY <2>1, QuietLag
<1>3. ASSUME NEW s \in Sessions, Execute(s) PROVE OK
  <2>1. Quiet BY <1>3 DEF Execute, Quiet, TypeOK, PumpTypeOK, Writing, dbVars,
        connVars, pumpVars, Goto
  <2> QED BY <2>1, QuietLag
<1>4. ASSUME NEW s \in Sessions, PumpCancelled(s) PROVE OK
  <2>1. Quiet BY <1>4 DEF PumpCancelled, Quiet, TypeOK, PumpTypeOK, Writing,
        dbVars, connVars, pumpVars, Goto
  <2> QED BY <2>1, QuietLag
<1>5. ASSUME NEW s \in Sessions, PumpClosed(s) PROVE OK
  <2>1. Quiet BY <1>5 DEF PumpClosed, Quiet, TypeOK, PumpTypeOK, Writing,
        dbVars, connVars, pumpVars, Goto
  <2> QED BY <2>1, QuietLag
<1>6. ASSUME NEW s \in Sessions, PumpResult(s) PROVE OK
  <2>1. Quiet BY <1>6 DEF PumpResult, Quiet, TypeOK, PumpTypeOK, Writing,
        dbVars, connVars, pumpVars, Goto
  <2> QED BY <2>1, QuietLag
<1>7. ASSUME NEW s \in Sessions, DrainEnd(s) PROVE OK
  <2>1. Quiet BY <1>7 DEF DrainEnd, Quiet, TypeOK, PumpTypeOK, Writing,
        dbVars, connVars, pumpVars, Goto, DrainStates
  <2> QED BY <2>1, QuietLag
<1>8. ASSUME NEW s \in Sessions, TakeResult(s) PROVE OK
  <2>1. Quiet BY <1>8 DEF TakeResult, Quiet, TypeOK, PumpTypeOK, Writing,
        dbVars, connVars, pumpVars, Goto, WaitStates
  <2> QED BY <2>1, QuietLag
<1>9. ASSUME NEW s \in Sessions, UpdateRow(s) PROVE OK
  <2>1. Quiet BY <1>9 DEF UpdateRow, Quiet, TypeOK, PumpTypeOK, Writing,
        dbVars, connVars, pumpVars, Goto
  <2> QED BY <2>1, QuietLag
<1>10. ASSUME NEW s \in Sessions, AbortStream(s) PROVE OK
  <2>1. Quiet BY <1>10 DEF AbortStream, Quiet, TypeOK, PumpTypeOK, Writing,
        dbVars, connVars, pumpVars, Goto
  <2> QED BY <2>1, QuietLag
<1>11. ASSUME NEW s \in Sessions, Exit(s) PROVE OK
  <2>1. Quiet BY <1>11 DEF Exit, Quiet, TypeOK, PumpTypeOK, Writing, dbVars,
        connVars, pumpVars, Goto
  <2> QED BY <2>1, QuietLag
<1>12. ASSUME NEW s \in Sessions, Discard(s) PROVE OK
  <2>1. Quiet BY <1>12 DEF Discard, Quiet, TypeOK, PumpTypeOK, Writing,
        dbVars, connVars, pumpVars
  <2> QED BY <2>1, QuietLag
<1>13. ASSUME NEW s \in Sessions, Send(s) PROVE OK
  <2>1. Quiet BY <1>13 DEF Send, Quiet, TypeOK, PumpTypeOK, Writing, dbVars,
        connVars, pumpVars
  <2> QED BY <2>1, QuietLag
<1>14. ASSUME NEW s \in Sessions, Finish(s) PROVE OK
  <2>1. Quiet BY <1>14 DEF Finish, Quiet, TypeOK, PumpTypeOK, Writing, dbVars,
        connVars, pumpVars
  <2> QED BY <2>1, QuietLag
<1>15. ASSUME NEW s \in Sessions, CloseMessages(s) PROVE OK
  <2>1. Quiet BY <1>15 DEF CloseMessages, Quiet, TypeOK, PumpTypeOK, Writing,
        dbVars, connVars, pumpVars
  <2> QED BY <2>1, QuietLag
<1>16. ASSUME NEW s \in Sessions, NoticeGone(s) PROVE OK
  <2>1. Quiet BY <1>16 DEF NoticeGone, Quiet, TypeOK, PumpTypeOK, Writing,
        dbVars, connVars, pumpVars
  <2> QED BY <2>1, QuietLag
<1>17. ASSUME NEW c \in Cancels,
              (\E s \in Sessions : CancelArrive(c, s)) \/ CancelRead(c)
       PROVE  OK
  <2>1. Quiet BY <1>17 DEF CancelArrive, CancelRead, Quiet, TypeOK, PumpTypeOK, Writing,
        dbVars, connVars, pumpVars
  <2> QED BY <2>1, QuietLag
<1>18. ASSUME NEW c \in Cancels, CancelFire(c) PROVE OK
  <2>1. Quiet BY <1>18 DEF CancelFire, Quiet, TypeOK, PumpTypeOK, Writing,
        dbVars, connVars, pumpVars
  <2> QED BY <2>1, QuietLag
<1>19. ASSUME Signal PROVE OK
  <2>1. Quiet BY <1>19 DEF Signal, Quiet, TypeOK, PumpTypeOK, Writing, dbVars,
        connVars, pumpVars
  <2> QED BY <2>1, QuietLag
<1>20. ASSUME CancelAll PROVE OK
  <2>1. Quiet BY <1>20 DEF CancelAll, Quiet, TypeOK, PumpTypeOK, Writing,
        dbVars, connVars, pumpVars
  <2> QED BY <2>1, QuietLag
<1>21. ASSUME ServeReturns PROVE OK
  <2>1. Quiet BY <1>21 DEF ServeReturns, Quiet, TypeOK, PumpTypeOK, Writing,
        dbVars, connVars, pumpVars
  <2> QED BY <2>1, QuietLag
<1>22. ASSUME ExitSweep PROVE OK
  <2>1. Quiet BY <1>22 DEF ExitSweep, Quiet, TypeOK, PumpTypeOK, Writing,
        dbVars, connVars, pumpVars
  <2> QED BY <2>1, QuietLag
<1>23. ASSUME Restart PROVE OK
  <2>1. Quiet BY <1>23 DEF Restart, Quiet, TypeOK, PumpTypeOK, Writing,
        dbVars, connVars, pumpVars
  <2> QED BY <2>1, QuietLag
<1>24. ASSUME SecondServe PROVE OK
  <2>1. Quiet BY <1>24 DEF SecondServe, Quiet, TypeOK, PumpTypeOK, Writing,
        dbVars, connVars, pumpVars
  <2> QED BY <2>1, QuietLag
<1>25. ASSUME Quit PROVE OK
  <2>1. Quiet BY <1>25 DEF Quit, Quiet, TypeOK, PumpTypeOK, Writing, dbVars,
        connVars, ProcessGone, Live
  <2> QED BY <2>1, QuietLag
<1>26. ASSUME Crash PROVE OK
  <2>1. Quiet BY <1>26 DEF Crash, Quiet, TypeOK, PumpTypeOK, Writing, dbVars,
        connVars, ProcessGone, Live
  <2> QED BY <2>1, QuietLag
<1>27. ASSUME NEW s \in Sessions, PersistStarted(s) PROVE OK
  <2>1. Persist(s, Envelope(0, "session_started", ""), ctxDone[s], 0, "started",
                "abort")
        /\ pc[s] = "opened" /\ UNCHANGED <<wire, client>>
    BY <1>27 DEF PersistStarted, connVars
  <2>2. Envelope(0, "session_started", "") \in EnvelopeSet
    BY DEF Envelope, EnvelopeSet
  <2>3. "abort" \in PcStates /\ ctxDone[s] \in BOOLEAN
    BY DEF PcStates, PumpStates, FinalStates, TypeOK, ConnTypeOK
  <2> QED BY <2>1, <2>2, <2>3, PersistLag DEF Writing
<1>28. ASSUME NEW s \in Sessions, WriteStarted(s) PROVE OK
  <2>1. Deliver(s) /\ pc[s] = "started" /\ UNCHANGED <<log, client>>
    BY <1>28 DEF WriteStarted, dbVars
  <2>2. PICK next \in {"select", "exit"} : pc' = [pc EXCEPT ![s] = next]
    BY <1>28 DEF WriteStarted, Goto
  <2>3. next \in PcStates /\ next \notin Writing \cup {"lost", "row"}
    BY DEF PcStates, PumpStates, FinalStates, Writing
  <2> QED BY <2>1, <2>2, <2>3, DeliverLag DEF Writing
<1>29. ASSUME NEW s \in Sessions, Heartbeat(s) PROVE OK
  <2>1. Persist(s, Envelope(nextSeq[s], "heartbeat", ""), ctxDone[s], 0,
                "write", "abort")
        /\ pc[s] = "select" /\ UNCHANGED <<wire, client>>
    BY <1>29 DEF Heartbeat, connVars
  <2>2. Envelope(nextSeq[s], "heartbeat", "") \in EnvelopeSet
    BY DEF Envelope, EnvelopeSet, TypeOK, PumpTypeOK
  <2>3. "abort" \in PcStates /\ ctxDone[s] \in BOOLEAN
    BY DEF PcStates, PumpStates, FinalStates, TypeOK, ConnTypeOK
  <2> QED BY <2>1, <2>2, <2>3, PersistLag DEF Writing
<1>30. ASSUME NEW s \in Sessions, TakeMessage(s) PROVE OK
  <2> DEFINE m    == Head(chan[s])
             next == IF m = "big" THEN "writeBig" ELSE "write"
  <2>1. PICK expired \in StatementExpired(s, pc[s]) :
          \E spent \in PinFaults(m = "ident" /\ ~seen[s], expired) :
            Persist(s, Envelope(nextSeq[s], "message", m), expired, spent,
                    next, OnPersistFailure(pc[s]))
    BY <1>30 DEF TakeMessage
  <2>2. PICK spent \in PinFaults(m = "ident" /\ ~seen[s], expired) :
            Persist(s, Envelope(nextSeq[s], "message", m), expired, spent,
                    next, OnPersistFailure(pc[s]))
    BY <2>1
  <2>3. expired \in BOOLEAN /\ spent \in {0, 1}
    BY <2>1, <2>2, StatementExpiredType DEF PinFaults
  <2>4. pc[s] \in {"select"} \cup DrainStates /\ UNCHANGED <<wire, client>>
    BY <1>30 DEF TakeMessage, connVars
  <2>5. m \in MessageKinds
    BY <1>30, SeqType DEF TakeMessage, TypeOK, BackendTypeOK
  <2>6. Envelope(nextSeq[s], "message", m) \in EnvelopeSet
    BY <2>5 DEF Envelope, EnvelopeSet, TypeOK, PumpTypeOK
  <2>7. /\ next \in Writing /\ next # "writeEnd"
        /\ OnPersistFailure(pc[s]) \in PcStates
        /\ OnPersistFailure(pc[s]) \notin Writing \cup {"row", "lost"}
        /\ pc[s] \notin Writing \cup {"lost"}
    BY <2>4 DEF OnPersistFailure, PcStates, PumpStates, FinalStates, WaitStates,
         DrainStates,
                Writing
  <2> HIDE DEF m, next
  <2> QED BY <2>2, <2>3, <2>4, <2>6, <2>7, PersistLag
<1>31. ASSUME NEW s \in Sessions, EmitTruncation(s) PROVE OK
  <2>1. PICK expired \in StatementExpired(s, loop[s]) :
          Persist(s, Envelope(nextSeq[s], "error", "message_truncated"), expired,
                  0, "write", OnPersistFailure(loop[s]))
    BY <1>31 DEF EmitTruncation
  <2>2. expired \in BOOLEAN
    BY <2>1, StatementExpiredType
  <2>3. pc[s] = "trunc" /\ UNCHANGED <<wire, client>>
    BY <1>31 DEF EmitTruncation, connVars
  <2>4. Envelope(nextSeq[s], "error", "message_truncated") \in EnvelopeSet
    BY DEF Envelope, EnvelopeSet, TypeOK, PumpTypeOK
  <2>5. /\ OnPersistFailure(loop[s]) \in PcStates
        /\ OnPersistFailure(loop[s]) \notin Writing \cup {"row", "lost"}
    BY DEF OnPersistFailure, PcStates, PumpStates, FinalStates, WaitStates, Writing
  <2> QED BY <2>1, <2>2, <2>3, <2>4, <2>5, PersistLag DEF Writing
<1>32. ASSUME NEW s \in Sessions, WriteEnvelope(s) PROVE OK
  <2> DEFINE next == IF pc[s] = "writeBig" THEN "trunc" ELSE loop[s]
  <2>1. /\ Deliver(s) /\ pc[s] \in {"write", "writeBig"}
        /\ pc' = [pc EXCEPT ![s] = next] /\ UNCHANGED <<log, client>>
    BY <1>32 DEF WriteEnvelope, dbVars, Goto
  <2>2. next \in PcStates /\ next \notin Writing \cup {"lost", "row"}
    BY DEF PcStates, PumpStates, FinalStates, DrainStates, Writing, TypeOK, PumpTypeOK
  <2> HIDE DEF next
  <2> QED BY <2>1, <2>2, DeliverLag DEF Writing
<1>33. ASSUME NEW s \in Sessions, EmitEnded(s) PROVE OK
  <2>1. /\ Persist(s, Envelope(nextSeq[s], "session_ended", got[s].status),
                   FALSE, 0, "writeEnd", "abort")
        /\ pc[s] = "emit" /\ UNCHANGED <<wire, client>>
    BY <1>33 DEF EmitEnded, connVars
  <2>2. got[s].status \in Terminal
    BY <2>1 DEF DecidedOK, DecidedInv
  <2>3. /\ Envelope(nextSeq[s], "session_ended", got[s].status) \in EnvelopeSet
        /\ Envelope(nextSeq[s], "session_ended", got[s].status).d \in Terminal
    BY <2>2 DEF Envelope, EnvelopeSet, TypeOK, PumpTypeOK, RowStatus
  <2>4. "abort" \in PcStates /\ "writeEnd" \in Writing
    BY DEF PcStates, PumpStates, FinalStates, Writing
  <2> QED BY <2>1, <2>3, <2>4, PersistLag DEF Writing
<1>34. ASSUME NEW s \in Sessions, WriteEnded(s) PROVE OK
  <2>1. /\ Deliver(s) /\ pc[s] = "writeEnd" /\ UNCHANGED <<log, client>>
        /\ pc' = [pc EXCEPT ![s] = "row"]
    BY <1>34 DEF WriteEnded, dbVars, Goto
  <2>2. "row" \in PcStates
    BY DEF PcStates, PumpStates, FinalStates
  <2> QED BY <2>1, <2>2, DeliverLag DEF Writing
<1>35. ASSUME NEW s \in Sessions, ClientGone(s) PROVE OK
  <2> SUFFICES ASSUME NEW q \in Sessions PROVE OwedInv(q)' /\ LagInv(q)'
    BY DEF OwedOK, LagOK
  <2>1. OwedInv(q) /\ LagInv(q)
    BY DEF OwedOK, LagOK
  <2>2. /\ log'[q] = log[q] /\ pc'[q] = pc[q] /\ wire'[q] = wire[q]
        /\ client'[q] => client[q]
    BY <1>35 DEF ClientGone, dbVars, pumpVars, TypeOK, ConnTypeOK
  <2> QED BY <2>1, <2>2 DEF OwedInv, LagInv
<1>36. ASSUME NEW s \in Sessions, Arrive(s) \/ Decide(s) \/ PinFinal(s) PROVE OK
  <2>1. Quiet BY <1>36 DEF Arrive, Decide, PinFinal, Quiet, TypeOK, PumpTypeOK,
        Writing, dbVars, connVars, Goto
  <2> QED BY <2>1, QuietLag
<1>37. ASSUME UNCHANGED vars PROVE OK
  <2>1. Quiet BY <1>37 DEF Quiet, vars, dbVars, connVars, pumpVars
  <2> QED BY <2>1, QuietLag
<1> QED BY <1>1, <1>2, <1>3, <1>4, <1>5, <1>6, <1>7, <1>8, <1>9, <1>10, <1>11,
           <1>12, <1>13, <1>14, <1>15, <1>16, <1>17, <1>18, <1>19, <1>20,
           <1>21, <1>22, <1>23, <1>24, <1>25, <1>26, <1>27, <1>28, <1>29,
           <1>30, <1>31, <1>32, <1>33, <1>34, <1>35, <1>36, <1>37
    DEF Next, SessionStep, HandlerStep, BackendStep, DaemonStep

\* Nothing is owed at the start.
LEMMA InitLag == ASSUME Init PROVE OwedOK /\ LagOK /\ DecidedOK
<1> SUFFICES ASSUME NEW s \in Sessions PROVE OwedInv(s) /\ LagInv(s) /\ DecidedInv(s)
  BY DEF OwedOK, LagOK, DecidedOK
<1>1. log[s] = <<>> /\ wire[s] = <<>> /\ pc[s] = "idle" /\ Len(<<>>) = 0
  BY DEF Init
<1>2. IsPrefixOf(wire[s], log[s])
  BY <1>1 DEF IsPrefixOf
<1> QED BY <1>1, <1>2 DEF OwedInv, LagInv, DecidedInv, Writing

-----------------------------------------------------------------------------

\* The invariant of the wire and the log: the types, where a write is owed,
\* by how much the wire lags in each control state, and that what is about
\* to be announced has been decided.
THEOREM Inductive == Spec => []IInv
<1>1. Init => IInv
  BY InitType, InitLag DEF IInv
<1>2. IInv /\ [Next]_vars => IInv'
  BY TypeStep, LagStep, DecidedStep DEF IInv
<1> QED BY <1>1, <1>2, PTL DEF Spec

\* Every variable keeps its type, whatever the sessions, the cancel requests,
\* the backends' habits and the bounds.
THEOREM TypeCorrect == Spec => []TypeOK
  BY Inductive, PTL DEF IInv

\* No envelope reaches the client that is not in the messages table, and
\* none out of its order: what exec_pump.go buys by inserting first.
THEOREM WirePrefix == Spec => []WireIsPrefixOfLog
<1>1. IInv => WireIsPrefixOfLog
  BY DEF IInv, LagOK, LagInv, WireIsPrefixOfLog
<1> QED BY <1>1, Inductive, PTL

\* A client that is still connected misses at most the envelope whose INSERT
\* has just returned.
THEOREM ClientCurrent == Spec => []ConnectedClientIsCurrent
<1>1. IInv => ConnectedClientIsCurrent
  <2> SUFFICES ASSUME IInv, NEW s \in Sessions, client[s]
               PROVE  Len(log[s]) - Len(wire[s]) \in {0, 1}
    BY DEF ConnectedClientIsCurrent
  <2>1. LagInv(s) /\ Len(log[s]) \in Nat /\ Len(wire[s]) \in Nat
    BY DEF IInv, LagOK, TypeOK, DbTypeOK, ConnTypeOK
  <2> QED BY <2>1 DEF LagInv
<1> QED BY <1>1, Inductive, PTL

\* The two together: the stream and the table tell one story, whatever the
\* number of sessions, faults, stops and messages.
THEOREM WireAndLog == Spec => []WireFollowsLog
<1>1. WireIsPrefixOfLog /\ ConnectedClientIsCurrent => WireFollowsLog
  BY DEF WireFollowsLog
<1> QED BY <1>1, WirePrefix, ClientCurrent, PTL

-----------------------------------------------------------------------------
(***************************************************************************)
(* Proofs about the life of an exec handler, for any sessions, cancel      *)
(* requests and bounds: that ExecStream implements SessionLifecycle, and   *)
(* what the cancel registry holds.  What the refinement mapping needs      *)
(* beyond the types is when a transcript has its verdict and what a row    *)
(* may be while a handler is at work on it.                                *)
(***************************************************************************)

\* The handler has no row yet; it is at work on the row, and has not yet, or
\* has, ended the transcript.
Before == {"idle", "arrived"}
Open   == PcStates \ (Before \cup {"writeEnd", "row", "exit", "done", "lost"})
Closed == {"writeEnd", "row"}

LifeInv(s) ==
  /\ pc[s] \in Open \cup Closed => row[s] \in {"running", "aborted"}
  /\ pc[s] \in Open \cup Before => ~Ended(s)
  /\ pc[s] \in Closed => Ended(s)
  /\ Ended(s) => EndedStatus(s) \in Terminal

LifeOK == \A s \in Sessions : LifeInv(s)

\* The abstract variables that are not variables of ExecStream.
Verdict == [s \in Sessions |-> IF Ended(s) THEN EndedStatus(s) ELSE "none"]
Owner   == [s \in Sessions |-> IF pc[s] \in {"idle", "arrived"} THEN "none"
                               ELSE IF ~Live(s) THEN "gone"
                               ELSE IF pc[s] = "exit" THEN "leaving" ELSE "working"]

Stutter   == UNCHANGED <<row, Verdict, Owner, Up>>
Simulated == LifeOK' /\ [Lifecycle!Next]_(Lifecycle!vars)

-----------------------------------------------------------------------------
(* Steps that change nothing the abstract specification sees.              *)

\* A step that the mapping does not see is a stutter.
LEMMA StutterSimulated == ASSUME LifeOK', Stutter PROVE Simulated
  BY DEF Stutter, Simulated, Lifecycle!vars, Verdict, Owner

\* No transcript gets its verdict, or loses it.
SameVerdicts ==
  \A s \in Sessions : /\ Ended(s)' = Ended(s)
                      /\ Ended(s) => EndedStatus(s)' = EndedStatus(s)

\* Handlers go on, and none of them leaves its row.
Moves ==
  \A s \in Sessions : \/ pc'[s] = pc[s]
                      \/ pc[s] \in Before /\ pc'[s] \in Before
                      \/ pc[s] \in Open /\ pc'[s] \in Open
                      \/ pc[s] = "writeEnd" /\ pc'[s] = "row"

Still == UNCHANGED row /\ Up' = Up /\ SameVerdicts /\ Moves

\* An unchanged log has the verdicts it had.
LEMMA SameLog == ASSUME UNCHANGED log PROVE SameVerdicts
  BY DEF SameVerdicts, Ended, EndedStatus

\* The same for the mapped variable.
LEMMA SameVerdict == ASSUME SameVerdicts PROVE Verdict' = Verdict
  BY DEF SameVerdicts, Verdict

\* A step that changes neither rows, verdicts nor owners is a stutter.
LEMMA StillSimulated == ASSUME LifeOK, Still PROVE Simulated
<1>1. LifeOK'
  <2> SUFFICES ASSUME NEW s \in Sessions PROVE LifeInv(s)'
    BY DEF LifeOK
  <2>1. /\ LifeInv(s) /\ row'[s] = row[s] /\ Ended(s)' = Ended(s)
        /\ Ended(s) => EndedStatus(s)' = EndedStatus(s)
    BY DEF LifeOK, Still, SameVerdicts
  <2>2. \/ pc'[s] = pc[s]
        \/ pc[s] \in Before /\ pc'[s] \in Before
        \/ pc[s] \in Open /\ pc'[s] \in Open
        \/ pc[s] = "writeEnd" /\ pc'[s] = "row"
    BY DEF Still, Moves
  <2> QED BY <2>1, <2>2 DEF LifeInv, Closed, Open, Before
<1>2. Verdict' = Verdict
  BY SameVerdict DEF Still
<1>3. Owner' = Owner
  BY DEF Owner, Still, Moves, Live, Open, Before
<1> QED BY <1>1, <1>2, <1>3, StutterSimulated DEF Still, Stutter

-----------------------------------------------------------------------------
(* Rows appended to a transcript.                                          *)

\* A row that is no end leaves the verdicts.
LEMMA AppendMessage ==
  ASSUME TypeOK, NEW s \in Sessions, ~Ended(s),
         NEW env \in EnvelopeSet, env.ev # "session_ended",
         log' = [log EXCEPT ![s] = Append(@, env)]
  PROVE  SameVerdicts
<1> SUFFICES ASSUME NEW q \in Sessions
             PROVE  Ended(q)' = Ended(q) /\ (Ended(q) => EndedStatus(q)' = EndedStatus(q))
  BY DEF SameVerdicts
<1>1. log \in [Sessions -> Seq(EnvelopeSet)]
  BY DEF TypeOK, DbTypeOK
<1>2. CASE q # s
  <2>1. log'[q] = log[q]
    BY <1>1, <1>2
  <2> QED BY <2>1 DEF Ended, EndedStatus
<1>3. CASE q = s
  <2>1. /\ log[s] \in Seq(EnvelopeSet) /\ log'[s] = Append(log[s], env)
        /\ Len(log'[s]) = Len(log[s]) + 1 /\ Len(log[s]) \in Nat
    BY <1>1
  <2>2. \A i \in 1..Len(log'[s]) : log'[s][i] = IF i <= Len(log[s]) THEN log[s][i] ELSE env
    BY <2>1
  <2>3. ~Ended(q)' /\ ~Ended(q)
    BY <1>3, <2>1, <2>2 DEF Ended
  <2> QED BY <2>3 DEF Ended
<1> QED BY <1>2, <1>3

\* A session_ended is the verdict of its session and of no other.
LEMMA AppendEnded ==
  ASSUME TypeOK, NEW s \in Sessions,
         NEW env \in EnvelopeSet, env.ev = "session_ended",
         log' = [log EXCEPT ![s] = Append(@, env)]
  PROVE  /\ Ended(s)' /\ EndedStatus(s)' = env.d
         /\ \A q \in Sessions \ {s} : Ended(q)' = Ended(q) /\ EndedStatus(q)' = EndedStatus(q)
<1>1. log \in [Sessions -> Seq(EnvelopeSet)]
  BY DEF TypeOK, DbTypeOK
<1>2. /\ log'[s] = Append(log[s], env)
      /\ Len(log'[s]) = Len(log[s]) + 1 /\ Len(log[s]) \in Nat
  BY <1>1
<1>3. Len(log'[s]) \in 1..Len(log'[s]) /\ log'[s][Len(log'[s])] = env
  BY <1>1, <1>2
<1>4. Ended(s)' /\ EndedStatus(s)' = env.d
  BY <1>3 DEF Ended, EndedStatus
<1>5. \A q \in Sessions \ {s} : log'[q] = log[q]
  BY <1>1
<1> QED BY <1>4, <1>5 DEF Ended, EndedStatus

\* persistAndWrite's INSERT of anything but session_ended.
LEMMA PersistSimulated ==
  ASSUME TypeOK, LifeOK, NEW s \in Sessions, pc[s] \in Open,
         NEW env \in EnvelopeSet, env.ev # "session_ended",
         NEW expired, NEW spent, NEW next \in Open, NEW onFail \in Open,
         Persist(s, env, expired, spent, next, onFail), UNCHANGED <<row, daemon>>
  PROVE  Simulated
<1>1. ~Ended(s)
  BY DEF LifeOK, LifeInv
<1>2. SameVerdicts
  BY <1>1, AppendMessage, SameLog DEF Persist
<1>3. Moves
  BY DEF Persist, Moves, TypeOK, PumpTypeOK
<1> QED BY <1>2, <1>3, StillSimulated DEF Still, Up

\* A step of the handler inside the pump, or before it.
LEMMA GotoSimulated ==
  ASSUME TypeOK, LifeOK, NEW s \in Sessions, NEW next, Goto(s, next),
         \/ pc[s] \in Before /\ next \in Before
         \/ pc[s] \in Open /\ next \in Open
         \/ pc[s] = "writeEnd" /\ next = "row",
         UNCHANGED <<row, log, daemon>>
  PROVE  Simulated
<1>1. Moves
  BY DEF Goto, Moves, TypeOK, PumpTypeOK
<1> QED BY <1>1, SameLog, StillSimulated DEF Still, Up

\* A step that leaves the handlers, their rows and the daemon alone.
LEMMA AsideSimulated ==
  ASSUME LifeOK, UNCHANGED <<row, log, pc>>, Up' = Up PROVE Simulated
  BY SameLog, StillSimulated DEF Still, Moves

-----------------------------------------------------------------------------
(* Steps of the abstract life.                                             *)

\* What a change of control means for the abstract owner.
LEMMA OwnerMoves ==
  ASSUME TypeOK, NEW s \in Sessions, NEW next \in PcStates, Goto(s, next)
  PROVE  Owner' = [Owner EXCEPT ![s] = IF next \in Before THEN "none"
                                       ELSE IF next \in {"done", "lost"} THEN "gone"
                                       ELSE IF next = "exit" THEN "leaving" ELSE "working"]
  BY DEF Owner, Goto, Live, Before, TypeOK, PumpTypeOK

\* The handler leaves its row as it is, or settles it, or returns.
LEMMA OutSimulated ==
  ASSUME TypeOK, LifeOK, NEW s \in Sessions, Up, UNCHANGED <<log, daemon>>,
         \/ /\ pc[s] \in Open \cup Closed /\ Goto(s, "exit")
            /\ \/ UNCHANGED row
               \/ row' = [row EXCEPT ![s] = IF Ended(s) THEN EndedStatus(s) ELSE "failed"]
         \/ pc[s] = "exit" /\ Goto(s, "done") /\ UNCHANGED row
  PROVE  Simulated
<1>1. SameVerdicts /\ Verdict' = Verdict /\ Up' = Up
  BY SameLog, SameVerdict DEF Up
<1>2. LifeOK'
  <2> SUFFICES ASSUME NEW q \in Sessions PROVE LifeInv(q)'
    BY DEF LifeOK
  <2>1. CASE q = s
    <3>1. pc'[s] \in {"exit", "done"}
      BY DEF Goto, TypeOK, PumpTypeOK
    <3>2. LifeInv(s) /\ Ended(s)' = Ended(s) /\ (Ended(s) => EndedStatus(s)' = EndedStatus(s))
      BY <1>1 DEF LifeOK, SameVerdicts
    <3> QED BY <2>1, <3>1, <3>2 DEF LifeInv, Open, Closed, Before
  <2>2. CASE q # s
    <3>1. /\ pc'[q] = pc[q] /\ row'[q] = row[q] /\ Ended(q)' = Ended(q)
          /\ Ended(q) => EndedStatus(q)' = EndedStatus(q)
      BY <1>1, <2>2 DEF Goto, TypeOK, PumpTypeOK, DbTypeOK, SameVerdicts
    <3> QED BY <3>1 DEF LifeOK, LifeInv
  <2> QED BY <2>1, <2>2
<1>3. CASE pc[s] \in Open \cup Closed /\ Goto(s, "exit")
  <2>1. Owner[s] = "working" /\ Owner' = [Owner EXCEPT ![s] = "leaving"]
    BY <1>3, OwnerMoves DEF Owner, Live, Open, Closed, Before, PcStates, Unregistered
  <2>2. CASE UNCHANGED row
    <3>1. Lifecycle!GiveUp(s)
      BY <1>1, <2>1, <2>2 DEF Lifecycle!GiveUp, Owner, Verdict
    <3> QED BY <1>2, <3>1 DEF Simulated, Lifecycle!Next
  <2>3. CASE row' = [row EXCEPT ![s] = IF Ended(s) THEN EndedStatus(s) ELSE "failed"]
    <3>1. row[s] \in {"running", "aborted"}
      BY <1>3 DEF LifeOK, LifeInv
    <3>2. (IF Ended(s) THEN EndedStatus(s) ELSE "failed")
             = IF Verdict[s] = "none" THEN "failed" ELSE Verdict[s]
      BY DEF Verdict, LifeOK, LifeInv, Terminal
    <3>3. Lifecycle!Settle(s)
      BY <1>1, <2>1, <2>3, <3>1, <3>2 DEF Lifecycle!Settle, Owner, Verdict
    <3> QED BY <1>2, <3>3 DEF Simulated, Lifecycle!Next
  <2> QED BY <1>3, <2>2, <2>3 DEF Closed, Open
<1>4. CASE pc[s] = "exit" /\ Goto(s, "done") /\ UNCHANGED row
  <2>1. Owner[s] = "leaving" /\ Owner' = [Owner EXCEPT ![s] = "gone"]
    BY <1>4, OwnerMoves DEF Owner, Live, Before, PcStates, Unregistered
  <2>2. Lifecycle!Leave(s)
    BY <1>1, <1>4, <2>1 DEF Lifecycle!Leave, Owner, Verdict
  <2> QED BY <1>2, <2>2 DEF Simulated, Lifecycle!Next
<1> QED BY <1>3, <1>4

\* A sweep is an abstract Sweep, or a Restart of what is down.
LEMMA SweepSimulated ==
  ASSUME LifeOK, row' = Swept, UNCHANGED <<log, pc>>,
         \/ Up /\ Up'
         \/ ~Up /\ Up'
  PROVE  Simulated
<1>1. Verdict' = Verdict /\ Owner' = Owner /\ SameVerdicts
  BY SameLog, SameVerdict DEF Owner, Live
<1>2. LifeOK'
  <2> SUFFICES ASSUME NEW s \in Sessions PROVE LifeInv(s)'
    BY DEF LifeOK
  <2>1. /\ LifeInv(s) /\ pc'[s] = pc[s] /\ Ended(s)' = Ended(s)
        /\ Ended(s) => EndedStatus(s)' = EndedStatus(s)
        /\ row'[s] = IF row[s] = "running" THEN "aborted" ELSE row[s]
    BY <1>1 DEF LifeOK, SameVerdicts, Swept
  <2> QED BY <2>1 DEF LifeInv
<1>3. Lifecycle!SweepAll
  BY DEF Lifecycle!SweepAll, Swept
<1>4. CASE Up /\ Up'
  <2>1. Lifecycle!Sweep
    BY <1>1, <1>3, <1>4 DEF Lifecycle!Sweep, Owner, Verdict, Up
  <2> QED BY <1>2, <2>1 DEF Simulated, Lifecycle!Next
<1>5. CASE ~Up /\ Up'
  <2>1. Lifecycle!Restart
    BY <1>1, <1>3, <1>5 DEF Lifecycle!Restart, Owner, Verdict, Up
  <2> QED BY <1>2, <2>1 DEF Simulated, Lifecycle!Next
<1> QED BY <1>4, <1>5

\* The end of the process is an abstract Die.
LEMMA DeathSimulated ==
  ASSUME LifeOK, Up, ProcessGone PROVE Simulated
<1>1. UNCHANGED <<row, log>> /\ ~Up'
  BY DEF ProcessGone, dbVars, Up
<1>2. Verdict' = Verdict /\ SameVerdicts
  BY <1>1, SameLog, SameVerdict
<1>3. \A s \in Sessions : pc'[s] = IF Live(s) THEN "lost"
                                   ELSE IF pc[s] = "arrived" THEN "idle" ELSE pc[s]
  BY DEF ProcessGone
<1>4. LifeOK'
  <2> SUFFICES ASSUME NEW s \in Sessions PROVE LifeInv(s)'
    BY DEF LifeOK
  <2>1. /\ LifeInv(s) /\ Ended(s)' = Ended(s) /\ row'[s] = row[s]
        /\ Ended(s) => EndedStatus(s)' = EndedStatus(s)
    BY <1>1, <1>2 DEF LifeOK, SameVerdicts
  <2> QED BY <1>3, <2>1 DEF LifeInv, Open, Closed, Before, Live
<1>5. Owner' = [s \in Sessions |-> IF Owner[s] = "none" THEN "none" ELSE "gone"]
  <2>1. \A s \in Sessions : Owner'[s] = IF Owner[s] = "none" THEN "none" ELSE "gone"
    BY <1>3 DEF Owner, Live
  <2> QED BY <2>1 DEF Owner
<1>6. Lifecycle!Die
  BY <1>1, <1>2, <1>5 DEF Lifecycle!Die, Owner, Verdict
<1> QED BY <1>4, <1>6 DEF Simulated, Lifecycle!Next

\* A handler that begins is an abstract Start.
LEMMA BeginSimulated ==
  ASSUME TypeOK, LifeOK, NEW s \in Sessions, Begin(s) PROVE Simulated
<1>1. UNCHANGED <<log, daemon>> /\ Up /\ pc[s] = "arrived"
  BY DEF Begin, procVars
<1>2. Verdict' = Verdict /\ SameVerdicts /\ Up' = Up
  BY <1>1, SameLog, SameVerdict DEF Up
<1>3. \/ row' = [row EXCEPT ![s] = "running"] /\ Goto(s, "inserted")
      \/ UNCHANGED row /\ Goto(s, "done")
  BY DEF Begin
<1>4. LifeOK'
  <2> SUFFICES ASSUME NEW q \in Sessions PROVE LifeInv(q)'
    BY DEF LifeOK
  <2>1. LifeInv(q) /\ Ended(q)' = Ended(q) /\ (Ended(q) => EndedStatus(q)' = EndedStatus(q))
    BY <1>2 DEF LifeOK, SameVerdicts
  <2>2. CASE q # s
    <3>1. pc'[q] = pc[q] /\ row'[q] = row[q]
      BY <1>3, <2>2 DEF Goto, TypeOK, PumpTypeOK, DbTypeOK
    <3> QED BY <2>1, <3>1 DEF LifeInv
  <2>3. CASE q = s
    <3>1. \/ pc'[q] = "inserted" /\ row'[q] = "running"
          \/ pc'[q] = "done"
      BY <1>3, <2>3 DEF Goto, TypeOK, PumpTypeOK, DbTypeOK
    <3> QED BY <1>1, <2>1, <2>3, <3>1 DEF LifeInv, Open, Closed, Before
  <2> QED BY <2>2, <2>3
<1>5. Owner[s] = "none"
  BY <1>1 DEF Owner
<1>6. \/ row' = [row EXCEPT ![s] = "running"] /\ Owner' = [Owner EXCEPT ![s] = "working"]
      \/ UNCHANGED row /\ Owner' = [Owner EXCEPT ![s] = "gone"]
  BY <1>3, OwnerMoves DEF PcStates, Unregistered, Before
<1>7. Lifecycle!Start(s)
  BY <1>1, <1>2, <1>5, <1>6 DEF Lifecycle!Start, Owner, Verdict
<1> QED BY <1>4, <1>7 DEF Simulated, Lifecycle!Next

\* The row session_ended is an abstract Conclude.
LEMMA EndedSimulated ==
  ASSUME TypeOK, LifeOK, DecidedOK, NEW s \in Sessions, EmitEnded(s)
  PROVE  Simulated
<1> DEFINE env == Envelope(nextSeq[s], "session_ended", got[s].status)
<1>2. pc[s] = "emit" /\ Up /\ UNCHANGED <<row, daemon>>
  BY DEF EmitEnded, procVars
<1>1. /\ env \in EnvelopeSet /\ env.ev = "session_ended" /\ env.d \in Terminal
  BY <1>2 DEF Envelope, EnvelopeSet, TypeOK, PumpTypeOK, RowStatus, DecidedOK,
              DecidedInv
<1>3. \/ log' = [log EXCEPT ![s] = Append(@, env)] /\ Goto(s, "writeEnd")
      \/ UNCHANGED log /\ Goto(s, "abort")
  BY DEF EmitEnded, Persist, Goto
<1> HIDE DEF env
<1>4. CASE UNCHANGED log /\ Goto(s, "abort")
  <2>1. pc[s] \in Open /\ "abort" \in Open
    BY <1>2 DEF Open, Before, PcStates, PumpStates, FinalStates
  <2> QED BY <1>2, <1>4, <2>1, GotoSimulated
<1>5. CASE log' = [log EXCEPT ![s] = Append(@, env)] /\ Goto(s, "writeEnd")
  <2>1. /\ Ended(s)' /\ EndedStatus(s)' = env.d
        /\ \A q \in Sessions \ {s} : Ended(q)' = Ended(q) /\ EndedStatus(q)' = EndedStatus(q)
    BY <1>1, <1>5, AppendEnded
  <2>2. ~Ended(s) /\ row[s] \in {"running", "aborted"}
    BY <1>2 DEF LifeOK, LifeInv, Open, Before, PcStates, PumpStates, FinalStates
  <2>3. pc'[s] = "writeEnd" /\ \A q \in Sessions \ {s} : pc'[q] = pc[q]
    BY <1>5 DEF Goto, TypeOK, PumpTypeOK
  <2>4. LifeOK'
    <3> SUFFICES ASSUME NEW q \in Sessions PROVE LifeInv(q)'
      BY DEF LifeOK
    <3>1. CASE q = s
      <4>1. row'[s] = row[s]
        BY <1>2
      <4>2. Ended(s)' /\ EndedStatus(s)' \in Terminal
        BY <1>1, <2>1
      <4> QED BY <2>2, <2>3, <3>1, <4>1, <4>2 DEF LifeInv, Open, Closed, Before
    <3>2. CASE q # s
      <4>1. /\ LifeInv(q) /\ row'[q] = row[q] /\ pc'[q] = pc[q]
            /\ Ended(q)' = Ended(q) /\ EndedStatus(q)' = EndedStatus(q)
        BY <1>2, <2>1, <2>3, <3>2 DEF LifeOK
      <4> QED BY <4>1 DEF LifeInv
    <3> QED BY <3>1, <3>2
  <2>5. Owner' = Owner /\ Owner[s] = "working"
    BY <1>2, <2>3 DEF Owner, Live
  <2>6. Verdict[s] = "none" /\ Verdict' = [Verdict EXCEPT ![s] = env.d]
    BY <2>1, <2>2 DEF Verdict
  <2>7. Up' = Up
    BY <1>2 DEF Up
  <2>8. \E st \in Lifecycle!Terminal : Verdict' = [Verdict EXCEPT ![s] = st]
    BY <1>1, <2>6 DEF Lifecycle!Terminal, Terminal
  <2>9. Lifecycle!Conclude(s)
    BY <1>2, <2>5, <2>6, <2>7, <2>8 DEF Lifecycle!Conclude, Owner, Verdict
  <2> QED BY <2>4, <2>9 DEF Simulated, Lifecycle!Next
<1> QED BY <1>3, <1>4, <1>5

-----------------------------------------------------------------------------

\* Every step of the handlers, of the cancel endpoint and of the daemon is a
\* step of the abstract life, or none.
LEMMA StepSimulated ==
  ASSUME TypeOK, LifeOK, DecidedOK, [Next]_vars
  PROVE  Simulated
<1>1. ASSUME NEW s \in Sessions, Begin(s) PROVE Simulated
  BY <1>1, BeginSimulated
<1>2. ASSUME NEW s \in Sessions, Register(s) PROVE Simulated
  <2>1. PICK next \in {"registered"} : Goto(s, next)
    BY <1>2 DEF Register
  <2>2. pc[s] \in Open /\ next \in Open /\ UNCHANGED <<row, log, daemon>>
    BY <1>2 DEF Register, dbVars, procVars, Open, Before, PcStates,
               Unregistered, BeforePump, PumpStates, FinalStates, DrainStates, WaitStates
  <2> QED BY <2>1, <2>2, GotoSimulated
<1>3. ASSUME NEW s \in Sessions, Execute(s) PROVE Simulated
  <2>1. PICK next \in {"opened", "abort"} : Goto(s, next)
    BY <1>3 DEF Execute
  <2>2. pc[s] \in Open /\ next \in Open /\ UNCHANGED <<row, log, daemon>>
    BY <1>3 DEF Execute, dbVars, procVars, Open, Before, PcStates,
               Unregistered, BeforePump, PumpStates, FinalStates, DrainStates, WaitStates
  <2> QED BY <2>1, <2>2, GotoSimulated
<1>4. ASSUME NEW s \in Sessions, PumpCancelled(s) PROVE Simulated
  <2>1. PICK next \in {"drainCtx"} : Goto(s, next)
    BY <1>4 DEF PumpCancelled
  <2>2. pc[s] \in Open /\ next \in Open /\ UNCHANGED <<row, log, daemon>>
    BY <1>4 DEF PumpCancelled, dbVars, procVars, Open, Before, PcStates,
               Unregistered, BeforePump, PumpStates, FinalStates, DrainStates, WaitStates
  <2> QED BY <2>1, <2>2, GotoSimulated
<1>5. ASSUME NEW s \in Sessions, PumpClosed(s) PROVE Simulated
  <2>1. PICK next \in {"awaitClosed"} : Goto(s, next)
    BY <1>5 DEF PumpClosed
  <2>2. pc[s] \in Open /\ next \in Open /\ UNCHANGED <<row, log, daemon>>
    BY <1>5 DEF PumpClosed, dbVars, procVars, Open, Before, PcStates,
               Unregistered, BeforePump, PumpStates, FinalStates, DrainStates, WaitStates
  <2> QED BY <2>1, <2>2, GotoSimulated
<1>6. ASSUME NEW s \in Sessions, PumpResult(s) PROVE Simulated
  <2>1. PICK next \in {"drainRes", "final"} : Goto(s, next)
    BY <1>6 DEF PumpResult
  <2>2. pc[s] \in Open /\ next \in Open /\ UNCHANGED <<row, log, daemon>>
    BY <1>6 DEF PumpResult, dbVars, procVars, Open, Before, PcStates,
               Unregistered, BeforePump, PumpStates, FinalStates, DrainStates, WaitStates
  <2> QED BY <2>1, <2>2, GotoSimulated
<1>7. ASSUME NEW s \in Sessions, DrainEnd(s) PROVE Simulated
  <2>1. PICK next \in {"awaitCtx", "final"} : Goto(s, next)
    BY <1>7 DEF DrainEnd
  <2>2. pc[s] \in Open /\ next \in Open /\ UNCHANGED <<row, log, daemon>>
    BY <1>7 DEF DrainEnd, dbVars, procVars, Open, Before, PcStates,
               Unregistered, BeforePump, PumpStates, FinalStates, DrainStates, WaitStates
  <2> QED BY <2>1, <2>2, GotoSimulated
<1>8. ASSUME NEW s \in Sessions, TakeResult(s) PROVE Simulated
  <2>1. PICK next \in {"final"} : Goto(s, next)
    BY <1>8 DEF TakeResult
  <2>2. pc[s] \in Open /\ next \in Open /\ UNCHANGED <<row, log, daemon>>
    BY <1>8 DEF TakeResult, dbVars, procVars, Open, Before, PcStates,
               Unregistered, BeforePump, PumpStates, FinalStates, DrainStates, WaitStates
  <2> QED BY <2>1, <2>2, GotoSimulated
<1>9. ASSUME NEW s \in Sessions, WriteEnvelope(s) PROVE Simulated
  <2> DEFINE next == IF pc[s] = "writeBig" THEN "trunc" ELSE loop[s]
  <2>1. Goto(s, next) /\ UNCHANGED <<row, log, daemon>> /\ pc[s] \in {"write", "writeBig"}
    BY <1>9 DEF WriteEnvelope, dbVars, procVars
  <2>2. pc[s] \in Open /\ next \in Open
    BY <2>1 DEF Open, Before, PcStates, PumpStates, FinalStates, DrainStates, TypeOK,
         PumpTypeOK
  <2> QED BY <2>1, <2>2, GotoSimulated
<1>10. ASSUME NEW s \in Sessions, WriteEnded(s) PROVE Simulated
  <2>1. Goto(s, "row") /\ pc[s] = "writeEnd" /\ UNCHANGED <<row, log, daemon>>
    BY <1>10 DEF WriteEnded, dbVars, procVars
  <2> QED BY <2>1, GotoSimulated
<1>11. ASSUME NEW s \in Sessions, WriteStarted(s) PROVE Simulated
  <2>1. UNCHANGED <<row, log, daemon>> /\ Up /\ pc[s] \in Open /\ "select" \in Open
    BY <1>11 DEF WriteStarted, dbVars, procVars, Open, Before, PcStates, BeforePump,
         PumpStates, FinalStates
  <2>2. CASE Goto(s, "select")
    BY <2>1, <2>2, GotoSimulated
  <2>3. CASE Goto(s, "exit")
    BY <2>1, <2>3, OutSimulated
  <2> QED BY <1>11, <2>2, <2>3 DEF WriteStarted
<1>12. ASSUME NEW s \in Sessions, PersistStarted(s) PROVE Simulated
  <2>1. Persist(s, Envelope(0, "session_started", ""), ctxDone[s], 0, "started", "abort")
    BY <1>12 DEF PersistStarted
  <2>2. /\ Envelope(0, "session_started", "") \in EnvelopeSet
        /\ Envelope(0, "session_started", "").ev # "session_ended"
    BY DEF Envelope, EnvelopeSet
  <2>3. {pc[s], "started", "abort"} \subseteq Open /\ UNCHANGED <<row, daemon>>
    BY <1>12 DEF PersistStarted, procVars, Open, Before, PcStates, BeforePump, PumpStates,
         FinalStates
  <2> QED BY <2>1, <2>2, <2>3, PersistSimulated
<1>13. ASSUME NEW s \in Sessions, Heartbeat(s) PROVE Simulated
  <2>1. Persist(s, Envelope(nextSeq[s], "heartbeat", ""), ctxDone[s], 0, "write", "abort")
    BY <1>13 DEF Heartbeat
  <2>2. /\ Envelope(nextSeq[s], "heartbeat", "") \in EnvelopeSet
        /\ Envelope(nextSeq[s], "heartbeat", "").ev # "session_ended"
    BY DEF Envelope, EnvelopeSet, TypeOK, PumpTypeOK
  <2>3. {pc[s], "write", "abort"} \subseteq Open /\ UNCHANGED <<row, daemon>>
    BY <1>13 DEF Heartbeat, procVars, Open, Before, PcStates, PumpStates, FinalStates
  <2> QED BY <2>1, <2>2, <2>3, PersistSimulated
<1>14. ASSUME NEW s \in Sessions, TakeMessage(s) PROVE Simulated
  <2> DEFINE m    == Head(chan[s])
             pins == m = "ident" /\ ~seen[s]
             next == IF m = "big" THEN "writeBig" ELSE "write"
  <2>1. PICK expired \in StatementExpired(s, pc[s]) :
          \E spent \in PinFaults(pins, expired) :
            Persist(s, Envelope(nextSeq[s], "message", m), expired, spent,
                    next, OnPersistFailure(pc[s]))
    BY <1>14 DEF TakeMessage
  <2>2. PICK spent \in PinFaults(pins, expired) :
            Persist(s, Envelope(nextSeq[s], "message", m), expired, spent,
                    next, OnPersistFailure(pc[s]))
    BY <2>1
  <2>3. m \in MessageKinds
    BY <1>14, SeqType DEF TakeMessage, TypeOK, BackendTypeOK
  <2>4. /\ Envelope(nextSeq[s], "message", m) \in EnvelopeSet
        /\ Envelope(nextSeq[s], "message", m).ev # "session_ended"
    BY <2>3 DEF Envelope, EnvelopeSet, TypeOK, PumpTypeOK
  <2>5. {pc[s], next, OnPersistFailure(pc[s])} \subseteq Open /\ UNCHANGED <<row, daemon>>
    BY <1>14 DEF TakeMessage, procVars, OnPersistFailure, Open, Before, PcStates,
         PumpStates, FinalStates,
             DrainStates, WaitStates
  <2> HIDE DEF m, next
  <2> QED BY <2>2, <2>4, <2>5, PersistSimulated
<1>15. ASSUME NEW s \in Sessions, EmitTruncation(s) PROVE Simulated
  <2>1. PICK expired \in StatementExpired(s, loop[s]) :
          Persist(s, Envelope(nextSeq[s], "error", "message_truncated"), expired,
                  0, "write", OnPersistFailure(loop[s]))
    BY <1>15 DEF EmitTruncation
  <2>2. /\ Envelope(nextSeq[s], "error", "message_truncated") \in EnvelopeSet
        /\ Envelope(nextSeq[s], "error", "message_truncated").ev # "session_ended"
    BY DEF Envelope, EnvelopeSet, TypeOK, PumpTypeOK
  <2>3. {pc[s], "write", OnPersistFailure(loop[s])} \subseteq Open /\ UNCHANGED <<row, daemon>>
    BY <1>15 DEF EmitTruncation, procVars, OnPersistFailure, Open, Before, PcStates,
         PumpStates, FinalStates,
             WaitStates
  <2> QED BY <2>1, <2>2, <2>3, PersistSimulated
<1>16. ASSUME NEW s \in Sessions, EmitEnded(s) PROVE Simulated
  BY <1>16, EndedSimulated
<1>17. ASSUME NEW s \in Sessions, UpdateRow(s) PROVE Simulated
  <2>1. /\ Up /\ pc[s] = "row" /\ Goto(s, "exit") /\ UNCHANGED <<log, daemon>>
        /\ UNCHANGED row \/ row' = [row EXCEPT ![s] = EndedStatus(s)]
    BY <1>17 DEF UpdateRow, SetRow, EndedStatus, procVars
  <2>2. pc[s] \in Open \cup Closed /\ Ended(s)
    BY <2>1 DEF LifeOK, LifeInv, Closed
  <2> QED BY <2>1, <2>2, OutSimulated
<1>18. ASSUME NEW s \in Sessions, AbortStream(s) PROVE Simulated
  <2>1. /\ Up /\ pc[s] = "abort" /\ Goto(s, "exit") /\ UNCHANGED <<log, daemon>>
        /\ UNCHANGED row \/ row' = [row EXCEPT ![s] = "failed"]
    BY <1>18 DEF AbortStream, SetRow, procVars
  <2>2. pc[s] \in Open \cup Closed /\ ~Ended(s)
    BY <2>1 DEF LifeOK, LifeInv, Open, Before, PcStates, PumpStates, FinalStates
  <2> QED BY <2>1, <2>2, OutSimulated
<1>19. ASSUME NEW s \in Sessions, Exit(s) PROVE Simulated
  <2>1. Up /\ pc[s] = "exit" /\ Goto(s, "done") /\ UNCHANGED <<row, log, daemon>>
    BY <1>19 DEF Exit, dbVars, procVars
  <2> QED BY <2>1, OutSimulated
<1>20. ASSUME NEW s \in Sessions, Discard(s) PROVE Simulated
  BY <1>20, AsideSimulated DEF Discard, dbVars, pumpVars, procVars, Up
<1>21. ASSUME NEW s \in Sessions, Send(s) PROVE Simulated
  BY <1>21, AsideSimulated DEF Send, dbVars, pumpVars, procVars, Up
<1>22. ASSUME NEW s \in Sessions, Finish(s) PROVE Simulated
  BY <1>22, AsideSimulated DEF Finish, dbVars, pumpVars, procVars, Up
<1>23. ASSUME NEW s \in Sessions, CloseMessages(s) PROVE Simulated
  BY <1>23, AsideSimulated DEF CloseMessages, dbVars, pumpVars, procVars, Up
<1>24. ASSUME NEW s \in Sessions, ClientGone(s) PROVE Simulated
  BY <1>24, AsideSimulated DEF ClientGone, dbVars, pumpVars, procVars, Up
<1>25. ASSUME NEW s \in Sessions, NoticeGone(s) PROVE Simulated
  BY <1>25, AsideSimulated DEF NoticeGone, dbVars, pumpVars, procVars, Up
<1>26. ASSUME NEW c \in Cancels, NEW s \in Sessions, CancelArrive(c, s) PROVE Simulated
  BY <1>26, AsideSimulated DEF CancelArrive, dbVars, pumpVars, procVars, Up
<1>27. ASSUME NEW c \in Cancels, CancelFire(c) PROVE Simulated
  BY <1>27, AsideSimulated DEF CancelFire, dbVars, pumpVars, procVars, Up
<1>28. ASSUME Signal PROVE Simulated
  BY <1>28, AsideSimulated DEF Signal, dbVars, pumpVars, Up
<1>29. ASSUME CancelAll PROVE Simulated
  BY <1>29, AsideSimulated DEF CancelAll, dbVars, pumpVars, Up
<1>30. ASSUME ServeReturns PROVE Simulated
  BY <1>30, AsideSimulated DEF ServeReturns, dbVars, pumpVars, Up
<1>31. ASSUME ExitSweep PROVE Simulated
  <2>1. UNCHANGED <<log, pc>> /\ Up /\ Up'
    BY <1>31 DEF ExitSweep, pumpVars, Up
  <2>2. CASE UNCHANGED row
    BY <2>1, <2>2, AsideSimulated DEF Up
  <2>3. CASE row' = Swept
    BY <2>1, <2>3, SweepSimulated
  <2> QED BY <1>31, <2>2, <2>3 DEF ExitSweep
<1>32. ASSUME Quit PROVE Simulated
  BY <1>32, DeathSimulated DEF Quit, Up
<1>33. ASSUME Crash PROVE Simulated
  BY <1>33, DeathSimulated DEF Crash
<1>34. ASSUME Restart PROVE Simulated
  BY <1>34, SweepSimulated DEF Restart, pumpVars, Up
<1>35. ASSUME SecondServe PROVE Simulated
  BY <1>35, SweepSimulated DEF SecondServe, pumpVars, Up
<1>36. ASSUME NEW s \in Sessions, Arrive(s) PROVE Simulated
  <2>1. Goto(s, "arrived") /\ UNCHANGED <<row, log, daemon>> /\ pc[s] = "idle"
    BY <1>36 DEF Arrive, dbVars, procVars
  <2>2. pc[s] \in Before /\ "arrived" \in Before
    BY <2>1 DEF Before
  <2> QED BY <2>1, <2>2, GotoSimulated
<1>37. ASSUME NEW s \in Sessions, Decide(s) PROVE Simulated
  <2>1. PICK next \in {"pin", "emit"} : Goto(s, next)
    BY <1>37 DEF Decide
  <2>2. pc[s] \in Open /\ next \in Open /\ UNCHANGED <<row, log, daemon>>
    BY <1>37 DEF Decide, dbVars, procVars, Open, Before, PcStates, PumpStates,
                FinalStates
  <2> QED BY <2>1, <2>2, GotoSimulated
<1>38. ASSUME NEW s \in Sessions, PinFinal(s) PROVE Simulated
  <2>1. Goto(s, "emit") /\ UNCHANGED <<row, log, daemon>>
    BY <1>38 DEF PinFinal, procVars
  <2>2. pc[s] \in Open /\ "emit" \in Open
    BY <1>38 DEF PinFinal, Open, Before, PcStates, PumpStates, FinalStates
  <2> QED BY <2>1, <2>2, GotoSimulated
<1>39. ASSUME NEW c \in Cancels, CancelRead(c) PROVE Simulated
  BY <1>39, AsideSimulated DEF CancelRead, dbVars, pumpVars, procVars, Up
<1>40. ASSUME UNCHANGED vars PROVE Simulated
  BY <1>40, AsideSimulated DEF vars, dbVars, pumpVars, procVars, Up
<1> QED
  BY <1>1, <1>2, <1>3, <1>4, <1>5, <1>6, <1>7, <1>8, <1>9, <1>10,
     <1>11, <1>12, <1>13, <1>14, <1>15, <1>16, <1>17, <1>18, <1>19, <1>20,
     <1>21, <1>22, <1>23, <1>24, <1>25, <1>26, <1>27, <1>28, <1>29, <1>30,
     <1>31, <1>32, <1>33, <1>34, <1>35, <1>36, <1>37, <1>38, <1>39, <1>40
  DEF Next, SessionStep, HandlerStep, BackendStep, DaemonStep

\* Initial states map to initial states.
LEMMA LifeInit == ASSUME Init PROVE LifeOK /\ Lifecycle!Init
<1>1. \A s \in Sessions : log[s] = <<>> /\ pc[s] = "idle" /\ ~Ended(s)
  <2> SUFFICES ASSUME NEW s \in Sessions PROVE log[s] = <<>> /\ pc[s] = "idle" /\ ~Ended(s)
    OBVIOUS
  <2>1. log[s] = <<>> /\ pc[s] = "idle" /\ Len(<<>>) = 0
    BY DEF Init
  <2> QED BY <2>1 DEF Ended
<1>2. LifeOK
  BY <1>1 DEF LifeOK, LifeInv, Open, Closed, Before
<1>3. Lifecycle!Init
  BY <1>1 DEF Lifecycle!Init, Init, Live, Up
<1> QED BY <1>2, <1>3

\* exec.go, exec_pump.go, session_cancel.go and the daemon's sweeps and
\* restarts implement the abstract life of a session row, for any number of
\* sessions and cancel requests, and whatever the backends, the faults and
\* the bounds: every behaviour of ExecStream is one of SessionLifecycle.
THEOREM StreamsLiveTheLifecycle == Spec => ImplementsLifecycle
<1>1. Init => LifeOK /\ Lifecycle!Init
  BY LifeInit
<1>2. IInv /\ LifeOK /\ [Next]_vars => LifeOK' /\ [Lifecycle!Next]_(Lifecycle!vars)
  BY StepSimulated DEF Simulated, IInv
<1> QED BY <1>1, <1>2, Inductive, PTL DEF Spec, Lifecycle!Spec, ImplementsLifecycle

-----------------------------------------------------------------------------
(***************************************************************************)
(* The cancel registry, for any set of sessions and of cancel requests: it *)
(* holds the handlers that are between Register and their deferred         *)
(* unregister, and a session answers at most one cancel request with 202.  *)
(* The second rests on the first: a request that has fired stays marked in *)
(* `requested` until its handler is gone, and a session id is never        *)
(* registered twice.                                                       *)
(***************************************************************************)

Gone(s) == pc[s] \in {"done", "lost"}

Registered == reg = {s \in Sessions : pc[s] \notin Unregistered}

Marked == shutdownIDs \subseteq requested /\ requested \subseteq {s \in reg : ctxDone[s]}

\* What a 202 leaves behind.
FiredMarked ==
  \A c \in Cancels :
    creq[c].st = "fired" => creq[c].s \in requested \/ Gone(creq[c].s)

FiredSession == \A c \in Cancels : creq[c].st = "fired" => creq[c].s \in Sessions

CInv == Registered /\ Marked /\ FiredMarked /\ FiredSession /\ CancelFiresOnce

\* A step that no part of CInv can tell from a stutter.
Unnoticed ==
  /\ UNCHANGED <<regVars, creq>>
  /\ \A s \in Sessions : /\ pc'[s] \in Unregistered <=> pc[s] \in Unregistered
                         /\ Gone(s) => Gone(s)'
                         /\ ctxDone[s] => ctxDone'[s]

\* A step that touches neither registry nor requests keeps CInv.
LEMMA UnnoticedStep == ASSUME TypeOK, CInv, Unnoticed PROVE CInv'
<1>1. Registered' /\ Marked'
  BY DEF CInv, Unnoticed, Registered, Marked, regVars
<1>2. FiredMarked' /\ FiredSession'
  BY DEF CInv, Unnoticed, FiredMarked, FiredSession, Gone, regVars
<1>3. CancelFiresOnce'
  BY DEF CInv, Unnoticed, CancelFiresOnce
<1> QED BY <1>1, <1>2, <1>3 DEF CInv

\* CInv holds at the start.
LEMMA InitCancel == ASSUME Init PROVE CInv
  BY DEF Init, CInv, Registered, Marked, FiredMarked, FiredSession,
         CancelFiresOnce, Unregistered, IdleRequest

\* Every step keeps CInv.
LEMMA CancelStep ==
  ASSUME TypeOK, CInv, [Next]_vars
  PROVE  CInv'
<1>1. ASSUME NEW s \in Sessions, Execute(s) PROVE CInv'
  <2>1. Unnoticed BY <1>1 DEF Execute, Unnoticed, Gone, Unregistered, TypeOK,
        PumpTypeOK, ConnTypeOK, connVars, pumpVars, Goto
  <2> QED BY <2>1, UnnoticedStep
<1>2. ASSUME NEW s \in Sessions, PersistStarted(s) PROVE CInv'
  <2>1. Unnoticed BY <1>2 DEF PersistStarted, Unnoticed, Gone, Unregistered,
        TypeOK, PumpTypeOK, ConnTypeOK, connVars, pumpVars, Persist
  <2> QED BY <2>1, UnnoticedStep
<1>3. ASSUME NEW s \in Sessions, WriteStarted(s) PROVE CInv'
  <2>1. Unnoticed BY <1>3 DEF WriteStarted, Unnoticed, Gone, Unregistered,
        TypeOK, PumpTypeOK, ConnTypeOK, connVars, pumpVars, Goto
  <2> QED BY <2>1, UnnoticedStep
<1>4. ASSUME NEW s \in Sessions, Heartbeat(s) PROVE CInv'
  <2>1. Unnoticed BY <1>4 DEF Heartbeat, Unnoticed, Gone, Unregistered,
        TypeOK, PumpTypeOK, ConnTypeOK, connVars, pumpVars, Persist
  <2> QED BY <2>1, UnnoticedStep
<1>5. ASSUME NEW s \in Sessions, TakeMessage(s) PROVE CInv'
  <2>1. Unnoticed BY <1>5 DEF TakeMessage, Unnoticed, Gone, Unregistered,
        TypeOK, PumpTypeOK, ConnTypeOK, connVars, pumpVars, Persist,
        OnPersistFailure, DrainStates
  <2> QED BY <2>1, UnnoticedStep
<1>6. ASSUME NEW s \in Sessions, EmitTruncation(s) PROVE CInv'
  <2>1. Unnoticed BY <1>6 DEF EmitTruncation, Unnoticed, Gone, Unregistered,
        TypeOK, PumpTypeOK, ConnTypeOK, connVars, pumpVars, Persist,
        OnPersistFailure
  <2> QED BY <2>1, UnnoticedStep
<1>7. ASSUME NEW s \in Sessions, WriteEnvelope(s) PROVE CInv'
  <2>1. Unnoticed BY <1>7 DEF WriteEnvelope, Unnoticed, Gone, Unregistered,
        TypeOK, PumpTypeOK, ConnTypeOK, connVars, pumpVars, Goto, DrainStates
  <2> QED BY <2>1, UnnoticedStep
<1>8. ASSUME NEW s \in Sessions, PumpCancelled(s) PROVE CInv'
  <2>1. Unnoticed BY <1>8 DEF PumpCancelled, Unnoticed, Gone, Unregistered,
        TypeOK, PumpTypeOK, ConnTypeOK, connVars, pumpVars, Goto
  <2> QED BY <2>1, UnnoticedStep
<1>9. ASSUME NEW s \in Sessions, PumpClosed(s) PROVE CInv'
  <2>1. Unnoticed BY <1>9 DEF PumpClosed, Unnoticed, Gone, Unregistered,
        TypeOK, PumpTypeOK, ConnTypeOK, connVars, pumpVars, Goto
  <2> QED BY <2>1, UnnoticedStep
<1>10. ASSUME NEW s \in Sessions, PumpResult(s) PROVE CInv'
  <2>1. Unnoticed BY <1>10 DEF PumpResult, Unnoticed, Gone, Unregistered,
        TypeOK, PumpTypeOK, ConnTypeOK, connVars, pumpVars, Goto
  <2> QED BY <2>1, UnnoticedStep
<1>11. ASSUME NEW s \in Sessions, DrainEnd(s) PROVE CInv'
  <2>1. Unnoticed BY <1>11 DEF DrainEnd, Unnoticed, Gone, Unregistered,
        TypeOK, PumpTypeOK, ConnTypeOK, connVars, pumpVars, Goto, DrainStates
  <2> QED BY <2>1, UnnoticedStep
<1>12. ASSUME NEW s \in Sessions, TakeResult(s) PROVE CInv'
  <2>1. Unnoticed BY <1>12 DEF TakeResult, Unnoticed, Gone, Unregistered,
        TypeOK, PumpTypeOK, ConnTypeOK, connVars, pumpVars, Goto, WaitStates
  <2> QED BY <2>1, UnnoticedStep
<1>13. ASSUME NEW s \in Sessions, EmitEnded(s) PROVE CInv'
  <2>1. Unnoticed BY <1>13 DEF EmitEnded, Unnoticed, Gone, Unregistered,
        TypeOK, PumpTypeOK, ConnTypeOK, connVars, pumpVars, Persist
  <2> QED BY <2>1, UnnoticedStep
<1>14. ASSUME NEW s \in Sessions, WriteEnded(s) PROVE CInv'
  <2>1. Unnoticed BY <1>14 DEF WriteEnded, Unnoticed, Gone, Unregistered,
        TypeOK, PumpTypeOK, ConnTypeOK, connVars, pumpVars, Goto
  <2> QED BY <2>1, UnnoticedStep
<1>15. ASSUME NEW s \in Sessions, UpdateRow(s) PROVE CInv'
  <2>1. Unnoticed BY <1>15 DEF UpdateRow, Unnoticed, Gone, Unregistered,
        TypeOK, PumpTypeOK, ConnTypeOK, connVars, pumpVars, Goto
  <2> QED BY <2>1, UnnoticedStep
<1>16. ASSUME NEW s \in Sessions, AbortStream(s) PROVE CInv'
  <2>1. Unnoticed BY <1>16 DEF AbortStream, Unnoticed, Gone, Unregistered,
        TypeOK, PumpTypeOK, ConnTypeOK, connVars, pumpVars, Goto
  <2> QED BY <2>1, UnnoticedStep
<1>17. ASSUME NEW s \in Sessions, Discard(s) PROVE CInv'
  <2>1. Unnoticed BY <1>17 DEF Discard, Unnoticed, Gone, Unregistered, TypeOK,
        PumpTypeOK, ConnTypeOK, connVars, pumpVars
  <2> QED BY <2>1, UnnoticedStep
<1>18. ASSUME NEW s \in Sessions, Send(s) PROVE CInv'
  <2>1. Unnoticed BY <1>18 DEF Send, Unnoticed, Gone, Unregistered, TypeOK,
        PumpTypeOK, ConnTypeOK, connVars, pumpVars
  <2> QED BY <2>1, UnnoticedStep
<1>19. ASSUME NEW s \in Sessions, Finish(s) PROVE CInv'
  <2>1. Unnoticed BY <1>19 DEF Finish, Unnoticed, Gone, Unregistered, TypeOK,
        PumpTypeOK, ConnTypeOK, connVars, pumpVars
  <2> QED BY <2>1, UnnoticedStep
<1>20. ASSUME NEW s \in Sessions, CloseMessages(s) PROVE CInv'
  <2>1. Unnoticed BY <1>20 DEF CloseMessages, Unnoticed, Gone, Unregistered,
        TypeOK, PumpTypeOK, ConnTypeOK, connVars, pumpVars
  <2> QED BY <2>1, UnnoticedStep
<1>21. ASSUME NEW s \in Sessions, ClientGone(s) PROVE CInv'
  <2>1. Unnoticed BY <1>21 DEF ClientGone, Unnoticed, Gone, Unregistered,
        TypeOK, PumpTypeOK, ConnTypeOK, connVars, pumpVars
  <2> QED BY <2>1, UnnoticedStep
<1>22. ASSUME NEW s \in Sessions, NoticeGone(s) PROVE CInv'
  <2>1. Unnoticed BY <1>22 DEF NoticeGone, Unnoticed, Gone, Unregistered,
        TypeOK, PumpTypeOK, ConnTypeOK, connVars, pumpVars
  <2> QED BY <2>1, UnnoticedStep
<1>23. ASSUME Signal PROVE CInv'
  <2>1. Unnoticed BY <1>23 DEF Signal, Unnoticed, Gone, Unregistered, TypeOK,
        PumpTypeOK, ConnTypeOK, connVars, pumpVars
  <2> QED BY <2>1, UnnoticedStep
<1>24. ASSUME ServeReturns PROVE CInv'
  <2>1. Unnoticed BY <1>24 DEF ServeReturns, Unnoticed, Gone, Unregistered,
        TypeOK, PumpTypeOK, ConnTypeOK, connVars, pumpVars
  <2> QED BY <2>1, UnnoticedStep
<1>25. ASSUME ExitSweep PROVE CInv'
  <2>1. Unnoticed BY <1>25 DEF ExitSweep, Unnoticed, Gone, Unregistered,
        TypeOK, PumpTypeOK, ConnTypeOK, connVars, pumpVars
  <2> QED BY <2>1, UnnoticedStep
<1>26. ASSUME Restart PROVE CInv'
  <2>1. Unnoticed BY <1>26 DEF Restart, Unnoticed, Gone, Unregistered, TypeOK,
        PumpTypeOK, ConnTypeOK, connVars, pumpVars
  <2> QED BY <2>1, UnnoticedStep
<1>27. ASSUME SecondServe PROVE CInv'
  <2>1. Unnoticed BY <1>27 DEF SecondServe, Unnoticed, Gone, Unregistered,
        TypeOK, PumpTypeOK, ConnTypeOK, connVars, pumpVars
  <2> QED BY <2>1, UnnoticedStep
<1>28. ASSUME NEW s \in Sessions, Begin(s) PROVE CInv'
  <2>1. s \notin reg /\ s \notin requested /\ ~Gone(s)
    BY <1>28 DEF Begin, CInv, Registered, Marked, Unregistered, Gone
  <2>2. UNCHANGED <<regVars, creq, ctxDone>>
    BY <1>28 DEF Begin, connVars
  <2>3. PICK st \in {"inserted", "done"} : pc' = [pc EXCEPT ![s] = st]
    BY <1>28 DEF Begin, Goto
  <2>4. Registered' /\ Marked'
    BY <2>1, <2>2, <2>3 DEF CInv, Registered, Marked, regVars, Unregistered, TypeOK,
                            PumpTypeOK
  <2>5. FiredMarked' /\ FiredSession'
    BY <2>1, <2>2, <2>3 DEF CInv, FiredMarked, FiredSession, Gone, regVars, TypeOK,
                            PumpTypeOK
  <2> QED BY <2>2, <2>4, <2>5 DEF CInv, CancelFiresOnce
<1>29. ASSUME NEW s \in Sessions, Register(s) PROVE CInv'
  <2>1. s \notin reg /\ s \notin requested /\ ~Gone(s)
    BY <1>29 DEF Register, CInv, Registered, Marked, Unregistered, Gone
  <2>2. /\ pc' = [pc EXCEPT ![s] = "registered"] /\ reg' = reg \cup {s}
        /\ requested' = requested \ {s} /\ shutdownIDs' = shutdownIDs \ {s}
        /\ UNCHANGED <<creq, ctxDone>>
    BY <1>29 DEF Register, Goto, connVars
  <2>3. Registered' /\ Marked'
    BY <2>1, <2>2 DEF CInv, Registered, Marked, Unregistered, TypeOK, PumpTypeOK
  <2>4. FiredMarked' /\ FiredSession'
    BY <2>1, <2>2 DEF CInv, FiredMarked, FiredSession, Gone, TypeOK, PumpTypeOK
  <2> QED BY <2>2, <2>3, <2>4 DEF CInv, CancelFiresOnce
<1>30. ASSUME NEW s \in Sessions, Exit(s) PROVE CInv'
  <2>1. /\ pc' = [pc EXCEPT ![s] = "done"] /\ reg' = reg \ {s}
        /\ requested' = requested \ {s} /\ shutdownIDs' = shutdownIDs \ {s}
        /\ ctxDone' = [ctxDone EXCEPT ![s] = TRUE] /\ UNCHANGED creq
    BY <1>30 DEF Exit, Goto
  <2>2. Registered' /\ Marked'
    BY <2>1 DEF CInv, Registered, Marked, Unregistered, TypeOK, PumpTypeOK, ConnTypeOK,
                DaemonTypeOK
  <2>3. FiredMarked' /\ FiredSession'
    BY <2>1 DEF CInv, FiredMarked, FiredSession, Gone, TypeOK, PumpTypeOK
  <2> QED BY <2>1, <2>2, <2>3 DEF CInv, CancelFiresOnce
<1>31. ASSUME NEW c \in Cancels,
              (\E s \in Sessions : CancelArrive(c, s)) \/ CancelRead(c)
       PROVE  CInv'
  <2>1. UNCHANGED <<regVars, pc, ctxDone>>
    BY <1>31 DEF CancelArrive, CancelRead, pumpVars, connVars
  <2>2. \A e \in Cancels : creq'[e].st = "fired" => creq'[e] = creq[e]
    BY <1>31 DEF CancelArrive, CancelRead, TypeOK, DaemonTypeOK
  <2>3. Registered' /\ Marked'
    BY <2>1 DEF CInv, Registered, Marked, regVars
  <2> QED BY <2>1, <2>2, <2>3 DEF CInv, FiredMarked, FiredSession, CancelFiresOnce,
                                  Gone, regVars
<1>32. ASSUME NEW c \in Cancels, CancelFire(c) PROVE CInv'
  <2> DEFINE s == creq[c].s
  <2>1. /\ creq[c].st = "running"
        /\ UNCHANGED <<reg, shutdownIDs, pc>>
    BY <1>32 DEF CancelFire, pumpVars
  <2>2. CASE /\ UNCHANGED <<requested, ctxDone>>
             /\ \E st \in {"unknown", "already"} : creq' = [creq EXCEPT ![c].st = st]
    <3>1. \A e \in Cancels : creq'[e].st = "fired" => creq'[e] = creq[e]
      BY <2>2 DEF TypeOK, DaemonTypeOK
    <3>2. Registered' /\ Marked'
      BY <2>1, <2>2 DEF CInv, Registered, Marked
    <3> QED BY <2>1, <2>2, <3>1, <3>2 DEF CInv, FiredMarked, FiredSession,
                                          CancelFiresOnce, Gone
  <2>3. CASE /\ s \in reg /\ s \notin requested
             /\ creq' = [creq EXCEPT ![c].st = "fired"]
             /\ requested' = requested \cup {s}
             /\ ctxDone' = [ctxDone EXCEPT ![s] = TRUE]
    <3>1. s \in Sessions /\ ~Gone(s)
      BY <2>3 DEF CInv, Registered, Gone, Unregistered
    <3>2. /\ \A e \in Cancels \ {c} : creq'[e] = creq[e]
          /\ creq'[c].st = "fired" /\ creq'[c].s = s
      BY <2>3 DEF TypeOK, DaemonTypeOK
    <3>3. Registered' /\ Marked'
      BY <2>1, <2>3, <3>1 DEF CInv, Registered, Marked, TypeOK, ConnTypeOK
    <3>4. FiredMarked' /\ FiredSession'
      BY <2>1, <2>3, <3>1, <3>2 DEF CInv, FiredMarked, FiredSession, Gone
    <3>5. \A e \in Cancels \ {c} : creq[e].st = "fired" => creq[e].s # s
      BY <2>3, <3>1 DEF CInv, FiredMarked
    <3>6. CancelFiresOnce'
      BY <3>2, <3>5 DEF CInv, CancelFiresOnce
    <3> QED BY <3>3, <3>4, <3>6 DEF CInv
  <2> QED BY <1>32, <2>2, <2>3 DEF CancelFire
<1>33. ASSUME CancelAll PROVE CInv'
  <2>1. /\ requested' = requested \cup (reg \ requested)
        /\ shutdownIDs' = shutdownIDs \cup (reg \ requested)
        /\ ctxDone' = [q \in Sessions |-> ctxDone[q] \/ q \in reg \ requested]
        /\ UNCHANGED <<reg, creq, pc>>
    BY <1>33 DEF CancelAll, pumpVars
  <2>2. Registered' /\ Marked'
    BY <2>1 DEF CInv, Registered, Marked
  <2> QED BY <2>1, <2>2 DEF CInv, FiredMarked, FiredSession, CancelFiresOnce, Gone
<1>34. ASSUME Quit PROVE CInv'
  <2>1. /\ pc' = [s \in Sessions |-> IF Live(s) THEN "lost"
                                     ELSE IF pc[s] = "arrived" THEN "idle" ELSE pc[s]]
        /\ reg' = {} /\ requested' = {} /\ shutdownIDs' = {}
        /\ creq' = [c \in Cancels |-> IF Answering(c)
                                        THEN [creq[c] EXCEPT !.st = "lost"]
                                        ELSE creq[c]]
    BY <1>34 DEF Quit, ProcessGone
  <2>2. \A c \in Cancels : creq'[c].st = "fired" => creq'[c] = creq[c]
    BY <2>1 DEF TypeOK, DaemonTypeOK
  <2>3. Registered' /\ Marked'
    BY <2>1 DEF Registered, Marked, Live, Unregistered
  <2>4. FiredMarked'
    BY <2>1, <2>2 DEF CInv, FiredMarked, FiredSession, Marked, Registered, Live, Gone,
                      Unregistered
  <2> QED BY <2>2, <2>3, <2>4 DEF CInv, FiredSession, CancelFiresOnce
<1>35. ASSUME Crash PROVE CInv'
  <2>1. /\ pc' = [s \in Sessions |-> IF Live(s) THEN "lost"
                                     ELSE IF pc[s] = "arrived" THEN "idle" ELSE pc[s]]
        /\ reg' = {} /\ requested' = {} /\ shutdownIDs' = {}
        /\ creq' = [c \in Cancels |-> IF Answering(c)
                                        THEN [creq[c] EXCEPT !.st = "lost"]
                                        ELSE creq[c]]
    BY <1>35 DEF Crash, ProcessGone
  <2>2. \A c \in Cancels : creq'[c].st = "fired" => creq'[c] = creq[c]
    BY <2>1 DEF TypeOK, DaemonTypeOK
  <2>3. Registered' /\ Marked'
    BY <2>1 DEF Registered, Marked, Live, Unregistered
  <2>4. FiredMarked'
    BY <2>1, <2>2 DEF CInv, FiredMarked, FiredSession, Marked, Registered, Live, Gone,
                      Unregistered
  <2> QED BY <2>2, <2>3, <2>4 DEF CInv, FiredSession, CancelFiresOnce
<1>36. ASSUME NEW s \in Sessions, Arrive(s) \/ Decide(s) \/ PinFinal(s) PROVE CInv'
  <2>1. Unnoticed BY <1>36 DEF Arrive, Decide, PinFinal, Unnoticed, Gone,
        Unregistered, TypeOK, PumpTypeOK, ConnTypeOK, connVars, Goto
  <2> QED BY <2>1, UnnoticedStep
<1>37. ASSUME UNCHANGED vars PROVE CInv'
  <2>1. Unnoticed BY <1>37 DEF Unnoticed, Gone, vars, connVars, pumpVars
  <2> QED BY <2>1, UnnoticedStep
<1> QED BY <1>1, <1>2, <1>3, <1>4, <1>5, <1>6, <1>7, <1>8, <1>9, <1>10, <1>11,
           <1>12, <1>13, <1>14, <1>15, <1>16, <1>17, <1>18, <1>19, <1>20,
           <1>21, <1>22, <1>23, <1>24, <1>25, <1>26, <1>27, <1>28, <1>29,
           <1>30, <1>31, <1>32, <1>33, <1>34, <1>35, <1>36, <1>37
    DEF Next, SessionStep, HandlerStep, BackendStep, DaemonStep

-----------------------------------------------------------------------------

\* The invariant of the registry and the cancel requests: who is registered,
\* whose context is cancelled, and that a session fires once.
THEOREM CancelInductive == Spec => []CInv
<1>1. Init => CInv
  BY InitCancel
<1>2. TypeOK /\ CInv /\ [Next]_vars => CInv'
  BY CancelStep
<1> QED BY <1>1, <1>2, TypeCorrect, PTL DEF Spec

\* cancel_registry.go: an entry exists exactly while its handler runs, marks
\* are kept for entries only, and what is marked has been told to stop.
THEOREM RegistryExact == Spec => []RegistryMatchesHandlers
<1>1. CInv => RegistryMatchesHandlers
  BY DEF CInv, Registered, Marked, RegistryMatchesHandlers
<1> QED BY <1>1, CancelInductive, PTL

\* 02 section 6.5: of any number of racing cancel requests for a session, at
\* most one is answered 202.
THEOREM OneCancelFires == Spec => []CancelFiresOnce
  BY CancelInductive, PTL DEF CInv

-----------------------------------------------------------------------------
(***************************************************************************)
(* What the transcript of an exec stream holds, and what its row says, for *)
(* any sessions, cancel requests, backends, faults and bounds.             *)
(*                                                                         *)
(* None of the invariants is inductive.  That the seqs are row numbers and *)
(* that truncations are announced rests on the builder's cursor and on the *)
(* row the handler has just written; that no message is missing rests on   *)
(* where a failed INSERT leads; that a row is settled rests on who may     *)
(* still settle it; whose id a row has rests on what the pump has seen and  *)
(* on whether it is past the statement that stores a Result's.             *)
(***************************************************************************)

\* The transcript by itself.
Rows(s) ==
  /\ \A i \in 1..Len(log[s]) :
       /\ (log[s][i].ev = "session_started") <=> (i = 1)
       /\ log[s][i].ev = "session_ended" => i = Len(log[s])
  /\ SeqsAreRowNumbers(s) /\ TruncationAnnounced(s)

Unopened == {"idle", "arrived", "inserted", "registered"}
Unstarted == Unopened \cup {"opened"}
Pumping  == {"select", "write", "writeBig", "trunc", "awaitClosed"} \cup DrainStates

LastKind(s) == log[s][Len(log[s])].d

\* Where the handler is tells how the transcript ends, and where the
\* builder's cursor is: past the last row, and further only when an INSERT
\* failed in the drain of a cancelled stream, which nothing but
\* session_ended follows.
Cursor(s) ==
  /\ pc[s] \in Unstarted => log[s] = <<>>
  /\ pc[s] = "started" => Len(log[s]) = 1
  /\ pc[s] \in Pumping => Len(log[s]) > 0 /\ nextSeq[s] = Len(log[s])
  /\ pc[s] \in {"awaitCtx", "final", "pin", "emit"} =>
       Len(log[s]) > 0 /\ nextSeq[s] >= Len(log[s])
  /\ pc[s] \in {"writeBig", "trunc"} => LastKind(s) = "big"
  /\ pc[s] \in {"started", "select", "write"} \cup DrainStates => LastKind(s) # "big"

\* A message that was taken is a row, until an INSERT has failed or the
\* drain of a cancelled stream is over.
Keeping(s) ==
  \/ pc[s] \in Unstarted \cup {"started", "select", "write", "writeBig", "trunc"} \cup DrainStates
  \/ /\ pc[s] \in {"awaitClosed", "final", "pin", "emit", "writeEnd", "row"}
     /\ loop[s] # "drainCtx"

Conserved(s) ==
  /\ SentInOrder(s)
  /\ Keeping(s) => NothingMissing(s)
  /\ pc[s] \in Unopened => sent[s] = <<>>

\* A stream that drains for its Result, or has not begun to drain, has not
\* begun the drain of a cancelled stream.
Looping(s) ==
  /\ pc[s] \in Unstarted \cup {"started", "select", "drainRes", "awaitClosed"} => loop[s] # "drainCtx"
  /\ pc[s] = "awaitCtx" => loop[s] = "drainCtx"

\* The handler is past the statement that stores a Result's id.
After == {"emit", "writeEnd", "row", "abort", "exit", "done", "lost"}

\* Whose id the row has: a message's only if the pump has seen one, a
\* Result's only if it has not.  Where no statement failed, it is missing
\* only before the pump has come to it, or because the pump gave up on the
\* message that carried it.
Pinned(s) ==
  /\ Looping(s)
  /\ pc[s] = "pin" => got[s].id /\ ~seen[s]
  /\ ident[s] = "message" => seen[s]
  /\ ident[s] = "result" => ~seen[s] /\ got[s].id /\ pc[s] \in After
  /\ faults = 0 /\ loop[s] # "drainCtx" /\ seen[s] /\ ident[s] # "message" =>
       pc[s] \in {"abort", "exit", "done", "lost"} /\ ~Ended(s)
  /\ faults = 0 /\ ~seen[s] /\ got[s].id /\ ident[s] # "result" =>
       pc[s] # "emit" /\ ~Ended(s)

Settled(s) ==
  /\ pc[s] \in {"idle", "arrived"} => row[s] = "none"
  /\ pc[s] \in Unstarted \cup {"started"} => wire[s] = <<>>
  /\ row[s] \in {"completed", "timeout", "cancelled"} => Ended(s) /\ EndedStatus(s) = row[s]
  /\ pc[s] \in {"exit", "done"} /\ row[s] = "running" => faults > 0 \/ (~client[s] /\ wire[s] = <<>>)
  /\ Up /\ pc[s] = "lost" => row[s] # "running"

FrameOK  == \A s \in Sessions : Rows(s) /\ Cursor(s)
KeepOK   == \A s \in Sessions : Conserved(s)
PinOK    == \A s \in Sessions : Pinned(s)
SettleOK == \A s \in Sessions : Settled(s)
SweptOK  ==
  daemon = "swept" /\ faults = 0 => \A s \in shutdownIDs : row[s] # "running"

TInv == FrameOK /\ KeepOK /\ PinOK /\ SettleOK /\ SweptOK

-----------------------------------------------------------------------------
(* Rows appended to a transcript, and the messages among them.             *)

\* A row more leaves the rows before it.
LEMMA AppendRow ==
  ASSUME TypeOK, NEW s \in Sessions, NEW env,
         log' = [log EXCEPT ![s] = Append(@, env)]
  PROVE  /\ Len(log[s]) \in Nat /\ Len(log'[s]) = Len(log[s]) + 1
         /\ \A i \in 1..Len(log[s]) : log'[s][i] = log[s][i]
         /\ log'[s][Len(log[s]) + 1] = env
<1>1. log[s] \in Seq(EnvelopeSet) /\ log'[s] = Append(log[s], env)
  BY DEF TypeOK, DbTypeOK
<1> QED BY <1>1

\* A transcript without an end has none among its rows.
LEMMA NotEnded ==
  ASSUME NEW s \in Sessions, ~Ended(s)
  PROVE  \A i \in 1..Len(log[s]) : log[s][i].ev # "session_ended"
  BY DEF Ended

\* The transcript keeps its shape when the row that is appended fits it.
LEMMA RowsAppend ==
  ASSUME TypeOK, NEW s \in Sessions, Rows(s), ~Ended(s), NEW env,
         log' = [log EXCEPT ![s] = Append(@, env)],
         env.seq \in Nat,
         (env.ev = "session_started") <=> (Len(log[s]) = 0),
         env.ev # "session_ended" => env.seq = Len(log[s]),
         env.seq >= Len(log[s]),
         env.ev = "error" => Len(log[s]) > 0 /\ LastKind(s) = "big",
         Len(log[s]) > 0 /\ LastKind(s) = "big" => env.ev \in {"error", "session_ended"}
  PROVE  Rows(s)'
<1> DEFINE n == Len(log[s])
<1>1. /\ n \in Nat /\ Len(log'[s]) = n + 1
      /\ \A i \in 1..n : log'[s][i] = log[s][i]
      /\ log'[s][n + 1] = env
  BY AppendRow
<1>2. \A i \in 1..n : log[s][i].ev # "session_ended"
  BY NotEnded
<1> HIDE DEF n
<1>3. ASSUME NEW i \in 1..(n + 1)
      PROVE  /\ (log'[s][i].ev = "session_started") <=> (i = 1)
             /\ log'[s][i].ev = "session_ended" => i = n + 1
             /\ IF log'[s][i].ev = "session_ended" THEN log'[s][i].seq >= i - 1
                                                   ELSE log'[s][i].seq = i - 1
  <2>1. CASE i \in 1..n
    <3>1. log'[s][i] = log[s][i]
      BY <1>1, <2>1
    <3>2. /\ (log[s][i].ev = "session_started") <=> (i = 1)
          /\ log[s][i].ev # "session_ended"
          /\ log[s][i].seq = i - 1
      BY <1>2, <2>1 DEF Rows, SeqsAreRowNumbers, n
    <3> QED BY <3>1, <3>2
  <2>2. CASE i = n + 1
    <3>1. log'[s][i] = env
      BY <1>1, <2>2
    <3> QED BY <1>1, <2>2, <3>1 DEF n
  <2> QED BY <1>1, <2>1, <2>2
<1>4. ASSUME NEW i \in 1..n
      PROVE  /\ log'[s][i].d = "big" => log'[s][i + 1].ev \in {"error", "session_ended"}
             /\ log'[s][i + 1].ev = "error" => log'[s][i].d = "big"
  <2>1. log'[s][i] = log[s][i]
    BY <1>1
  <2>2. CASE i \in 1..(n - 1)
    <3>1. log'[s][i + 1] = log[s][i + 1]
      BY <1>1, <2>2
    <3>2. /\ log[s][i].d = "big" => log[s][i + 1].ev \in {"error", "session_ended"}
          /\ log[s][i + 1].ev = "error" => log[s][i].d = "big"
      BY <2>2 DEF Rows, TruncationAnnounced, n
    <3> QED BY <2>1, <3>1, <3>2
  <2>3. CASE i = n
    <3>1. log'[s][i + 1] = env /\ LastKind(s) = log[s][i].d /\ n > 0
      BY <1>1, <2>3 DEF LastKind, n
    <3> QED BY <2>1, <3>1 DEF n
  <2> QED BY <1>1, <2>2, <2>3
<1>5. SeqsAreRowNumbers(s)'
  BY <1>1, <1>3 DEF SeqsAreRowNumbers
<1>6. TruncationAnnounced(s)'
  <2>1. Len(log'[s]) - 1 = n
    BY <1>1
  <2> QED BY <1>4, <2>1 DEF TruncationAnnounced
<1> QED BY <1>1, <1>3, <1>5, <1>6 DEF Rows

\* The messages among the first rows are finitely many.
LEMMA AmongType ==
  ASSUME NEW s \in Sessions, NEW i \in Nat
  PROVE  /\ IsFiniteSet({j \in 1..i : log[s][j].ev = "message"})
         /\ MessagesAmong(s, i) \in Nat
<1> DEFINE M == {j \in 1..i : log[s][j].ev = "message"}
<1>1. IsFiniteSet(1..i)
  BY FS_Interval
<1>2. IsFiniteSet(M)
  BY <1>1, FS_Subset
<1>3. Cardinality(M) \in Nat
  BY <1>2, FS_CardinalityType
<1> QED BY <1>2, <1>3 DEF MessagesAmong

\* A row more counts if it is a message.
LEMMA AmongAppend ==
  ASSUME TypeOK, NEW s \in Sessions, NEW env,
         log' = [log EXCEPT ![s] = Append(@, env)]
  PROVE  /\ \A i \in 0..Len(log[s]) : MessagesAmong(s, i)' = MessagesAmong(s, i)
         /\ \A k \in Nat : k = Len(log[s]) + 1 =>
              MessagesAmong(s, k)' = MessagesAmong(s, k - 1) + (IF env.ev = "message" THEN 1 ELSE 0)
<1> DEFINE n == Len(log[s])
           M(i) == {j \in 1..i : log[s][j].ev = "message"}
           L(i) == {j \in 1..i : log'[s][j].ev = "message"}
<1>1. /\ n \in Nat /\ Len(log'[s]) = n + 1
      /\ \A i \in 1..n : log'[s][i] = log[s][i]
      /\ log'[s][n + 1] = env
  BY AppendRow
<1> HIDE DEF n
<1>2. \A i \in 0..n : L(i) = M(i)
  BY <1>1
<1>3. L(n + 1) = M(n) \cup (IF env.ev = "message" THEN {n + 1} ELSE {})
  BY <1>1
<1>4. IsFiniteSet(M(n)) /\ Cardinality(M(n)) \in Nat /\ n + 1 \notin M(n)
  <2>1. IsFiniteSet(M(n)) /\ Cardinality(M(n)) \in Nat
    BY <1>1, AmongType, FS_CardinalityType
  <2> QED BY <1>1, <2>1
<1>5. Cardinality(L(n + 1)) = Cardinality(M(n)) + (IF env.ev = "message" THEN 1 ELSE 0)
  <2>1. CASE env.ev = "message"
    <3>1. L(n + 1) = M(n) \cup {n + 1}
      BY <1>3, <2>1
    <3> HIDE DEF L, M
    <3> QED BY <1>4, <2>1, <3>1, FS_AddElement
  <2>2. CASE env.ev # "message"
    <3>1. L(n + 1) = M(n)
      BY <1>3, <2>2
    <3> HIDE DEF L, M
    <3> QED BY <1>4, <2>2, <3>1
  <2> QED BY <2>1, <2>2
<1>6. \A i : MessagesAmong(s, i) = Cardinality(M(i)) /\ MessagesAmong(s, i)' = Cardinality(L(i))
  BY DEF MessagesAmong
<1>7. \A k \in Nat : k = n + 1 => k - 1 = n
  BY <1>1
<1> HIDE DEF L, M
<1> QED BY <1>2, <1>5, <1>6, <1>7 DEF n

-----------------------------------------------------------------------------
(* The handler's own steps.                                                *)

Own(s) == Rows(s) /\ Cursor(s) /\ Conserved(s) /\ Pinned(s) /\ Settled(s)

\* The types that the steps below rest on.
LEMMA OwnTypes ==
  ASSUME TypeOK, NEW s \in Sessions
  PROVE  /\ row \in [Sessions -> RowStatus] /\ ident \in [Sessions -> Idents]
         /\ log \in [Sessions -> Seq(EnvelopeSet)] /\ faults \in Nat
         /\ pc \in [Sessions -> PcStates] /\ loop \in [Sessions -> {"select", "drainCtx", "drainRes"}]
         /\ nextSeq \in [Sessions -> Nat] /\ seen \in [Sessions -> BOOLEAN]
         /\ got \in [Sessions -> [status : RawStatus, id : BOOLEAN]]
         /\ client \in [Sessions -> BOOLEAN] /\ wire \in [Sessions -> Seq(EnvelopeSet)]
         /\ sent \in [Sessions -> Seq(MessageKinds)] /\ chan \in [Sessions -> Seq(MessageKinds)]
         /\ Len(log[s]) \in Nat /\ Len(sent[s]) \in Nat /\ Len(chan[s]) \in Nat
  BY DEF TypeOK, DbTypeOK, PumpTypeOK, ConnTypeOK, BackendTypeOK, DrainStates

\* An unchanged log has the shape it had.
LEMMA SameRows ==
  ASSUME NEW s \in Sessions, log'[s] = log[s]
  PROVE  /\ Rows(s)' = Rows(s) /\ Ended(s)' = Ended(s) /\ EndedStatus(s)' = EndedStatus(s)
         /\ LastKind(s)' = LastKind(s)
         /\ sent'[s] = sent[s] => SentInOrder(s)' = SentInOrder(s)
         /\ sent'[s] = sent[s] /\ chan'[s] = chan[s] => NothingMissing(s)' = NothingMissing(s)
<1>1. /\ Rows(s)' = Rows(s) /\ Ended(s)' = Ended(s) /\ EndedStatus(s)' = EndedStatus(s)
      /\ LastKind(s)' = LastKind(s)
  BY DEF Rows, SeqsAreRowNumbers, TruncationAnnounced, Ended, EndedStatus, LastKind
<1>2. \A i : MessagesAmong(s, i)' = MessagesAmong(s, i)
  BY DEF MessagesAmong
<1>3. /\ sent'[s] = sent[s] => SentInOrder(s)' = SentInOrder(s)
      /\ sent'[s] = sent[s] /\ chan'[s] = chan[s] => NothingMissing(s)' = NothingMissing(s)
  BY <1>2 DEF SentInOrder, NothingMissing
<1> QED BY <1>1, <1>3

\* Steps that add nothing to the transcript.
LEMMA QuietOwn ==
  ASSUME TypeOK, TypeOK', NEW s \in Sessions, Own(s), LifeInv(s), LifeInv(s)',
         UNCHANGED daemon,
         \/ Arrive(s)
         \/ Begin(s)
         \/ Register(s)
         \/ Execute(s)
         \/ WriteStarted(s)
         \/ WriteEnvelope(s)
         \/ PumpCancelled(s)
         \/ PumpClosed(s)
         \/ PumpResult(s)
         \/ DrainEnd(s)
         \/ TakeResult(s)
         \/ Decide(s)
         \/ PinFinal(s)
         \/ WriteEnded(s)
         \/ UpdateRow(s)
         \/ AbortStream(s)
         \/ Exit(s)
         \/ Discard(s)
         \/ Finish(s)
         \/ CloseMessages(s)
         \/ ClientGone(s)
         \/ NoticeGone(s)
  PROVE  Own(s)'
<1>1. Rows(s) /\ Cursor(s) /\ Conserved(s) /\ Pinned(s) /\ Settled(s) /\ Up' = Up
  BY DEF Own, Up
<1>2. CASE Register(s)
  <2>1. /\ log'[s] = log[s] /\ loop'[s] = loop[s] /\ nextSeq'[s] = nextSeq[s]
        /\ seen'[s] = seen[s] /\ got'[s] = got[s] /\ ident'[s] = ident[s] /\ row'[s] = row[s]
        /\ wire'[s] = wire[s] /\ client'[s] = client[s] /\ sent'[s] = sent[s]
        /\ chan'[s] = chan[s] /\ faults' = faults
        /\ pc[s] = "inserted" /\ pc'[s] = "registered"
    BY <1>2, OwnTypes DEF Register, Goto, dbVars, connVars, backendVars
  <2>2. Rows(s)' /\ Cursor(s)'
    BY <1>1, <2>1, SameRows, OwnTypes DEF Cursor, Unstarted, Unopened, Pumping, DrainStates
  <2>3. Conserved(s)'
    BY <1>1, <2>1, SameRows, OwnTypes DEF Pinned, Looping, Keeping, Conserved, Unstarted,
         Unopened, DrainStates
  <2>4. Pinned(s)'
    BY <1>1, <2>1, SameRows, OwnTypes DEF LifeInv, Pinned, After, Looping, Before,
         Unstarted, Unopened, Open, PcStates,
                                               PumpStates, FinalStates, DrainStates, WaitStates, BeforePump, Unregistered
  <2>5. Settled(s)'
    BY <1>1, <2>1, SameRows, OwnTypes DEF LifeInv, Settled, Unstarted, Unopened, Closed,
         Terminal
  <2> QED BY <2>2, <2>3, <2>4, <2>5 DEF Own
<1>3. CASE Execute(s)
  <2>1. /\ log'[s] = log[s] /\ loop'[s] = loop[s] /\ nextSeq'[s] = nextSeq[s]
        /\ seen'[s] = seen[s] /\ got'[s] = got[s] /\ ident'[s] = ident[s] /\ row'[s] = row[s]
        /\ wire'[s] = wire[s] /\ client'[s] = client[s] /\ sent'[s] = sent[s]
        /\ chan'[s] = chan[s] /\ faults' = faults
        /\ pc[s] = "registered" /\ pc'[s] \in {"opened", "abort"}
    BY <1>3, OwnTypes DEF Execute, Goto, dbVars, connVars, backendVars
  <2>2. Rows(s)' /\ Cursor(s)'
    BY <1>1, <2>1, SameRows, OwnTypes DEF Cursor, Unstarted, Unopened, Pumping, DrainStates
  <2>3. Conserved(s)'
    BY <1>1, <2>1, SameRows, OwnTypes DEF Pinned, Looping, Keeping, Conserved, Unstarted,
         Unopened, DrainStates
  <2>4. Pinned(s)'
    BY <1>1, <2>1, SameRows, OwnTypes DEF LifeInv, Pinned, After, Looping, Before,
         Unstarted, Unopened, Open, PcStates,
                                               PumpStates, FinalStates, DrainStates, WaitStates, BeforePump, Unregistered
  <2>5. Settled(s)'
    BY <1>1, <2>1, SameRows, OwnTypes DEF LifeInv, Settled, Unstarted, Unopened, Closed,
         Terminal
  <2> QED BY <2>2, <2>3, <2>4, <2>5 DEF Own
<1>4. CASE WriteStarted(s)
  <2>1. /\ log'[s] = log[s] /\ loop'[s] = loop[s] /\ seen'[s] = seen[s] /\ got'[s] = got[s]
        /\ ident'[s] = ident[s] /\ row'[s] = row[s] /\ client'[s] = client[s]
        /\ sent'[s] = sent[s] /\ chan'[s] = chan[s] /\ faults' = faults
        /\ pc[s] = "started" /\ nextSeq'[s] = 1 /\ (pc'[s] = "select" \/ (pc'[s] = "exit" /\ ~client[s] /\ wire'[s] = wire[s]))
    BY <1>4, OwnTypes DEF WriteStarted, Goto, Deliver, dbVars, backendVars
  <2>2. Rows(s)' /\ Cursor(s)'
    <3>1. Rows(s)' /\ LastKind(s)' # "big" /\ Len(log'[s]) = 1
      BY <1>1, <2>1, SameRows DEF Cursor
    <3>2. pc'[s] \in {"select", "exit"} /\ nextSeq'[s] = 1
      BY <2>1
    <3> QED BY <3>1, <3>2 DEF Cursor, Unstarted, Unopened, Pumping, DrainStates
  <2>3. Conserved(s)'
    BY <1>1, <2>1, SameRows, OwnTypes DEF Pinned, Looping, Keeping, Conserved, Unstarted,
         Unopened, DrainStates
  <2>4. Pinned(s)'
    BY <1>1, <2>1, SameRows, OwnTypes DEF LifeInv, Pinned, After, Looping, Before,
         Unstarted, Unopened, Open, PcStates,
                                               PumpStates, FinalStates, DrainStates, WaitStates, BeforePump, Unregistered
  <2>5. Settled(s)'
    BY <1>1, <2>1, SameRows, OwnTypes DEF LifeInv, Settled, Unstarted, Unopened, Closed,
         Terminal
  <2> QED BY <2>2, <2>3, <2>4, <2>5 DEF Own
<1>5. CASE WriteEnvelope(s)
  <2>1. /\ log'[s] = log[s] /\ loop'[s] = loop[s] /\ nextSeq'[s] = nextSeq[s]
        /\ seen'[s] = seen[s] /\ got'[s] = got[s] /\ ident'[s] = ident[s] /\ row'[s] = row[s]
        /\ client'[s] = client[s] /\ sent'[s] = sent[s] /\ chan'[s] = chan[s]
        /\ faults' = faults
        /\ \/ pc[s] = "write" /\ pc'[s] = loop[s]
           \/ pc[s] = "writeBig" /\ pc'[s] = "trunc"
    BY <1>5, OwnTypes DEF WriteEnvelope, Goto, Deliver, dbVars, backendVars
  <2>2. Rows(s)' /\ Cursor(s)'
    BY <1>1, <2>1, SameRows, OwnTypes DEF Cursor, Unstarted, Unopened, Pumping, DrainStates
  <2>3. Conserved(s)'
    BY <1>1, <2>1, SameRows, OwnTypes DEF Pinned, Looping, Keeping, Conserved, Unstarted,
         Unopened, DrainStates
  <2>4. Pinned(s)'
    BY <1>1, <2>1, SameRows, OwnTypes DEF LifeInv, Pinned, After, Looping, Before,
         Unstarted, Unopened, Open, PcStates,
                                               PumpStates, FinalStates, DrainStates, WaitStates, BeforePump, Unregistered
  <2>5. Settled(s)'
    BY <1>1, <2>1, SameRows, OwnTypes DEF LifeInv, Settled, Unstarted, Unopened, Closed,
         Terminal
  <2> QED BY <2>2, <2>3, <2>4, <2>5 DEF Own
<1>6. CASE PumpCancelled(s)
  <2>1. /\ log'[s] = log[s] /\ loop'[s] = loop[s] /\ nextSeq'[s] = nextSeq[s]
        /\ seen'[s] = seen[s] /\ got'[s] = got[s] /\ ident'[s] = ident[s] /\ row'[s] = row[s]
        /\ wire'[s] = wire[s] /\ client'[s] = client[s] /\ sent'[s] = sent[s]
        /\ chan'[s] = chan[s] /\ faults' = faults
        /\ pc[s] = "select" /\ pc'[s] = "drainCtx"
    BY <1>6, OwnTypes DEF PumpCancelled, Goto, dbVars, connVars, backendVars
  <2>2. Rows(s)' /\ Cursor(s)'
    BY <1>1, <2>1, SameRows, OwnTypes DEF Cursor, Unstarted, Unopened, Pumping, DrainStates
  <2>3. Conserved(s)'
    BY <1>1, <2>1, SameRows, OwnTypes DEF Pinned, Looping, Keeping, Conserved, Unstarted,
         Unopened, DrainStates
  <2>4. Pinned(s)'
    BY <1>1, <2>1, SameRows, OwnTypes DEF LifeInv, Pinned, After, Looping, Before,
         Unstarted, Unopened, Open, PcStates,
                                               PumpStates, FinalStates, DrainStates, WaitStates, BeforePump, Unregistered
  <2>5. Settled(s)'
    BY <1>1, <2>1, SameRows, OwnTypes DEF LifeInv, Settled, Unstarted, Unopened, Closed,
         Terminal
  <2> QED BY <2>2, <2>3, <2>4, <2>5 DEF Own
<1>7. CASE PumpClosed(s)
  <2>1. /\ log'[s] = log[s] /\ loop'[s] = loop[s] /\ nextSeq'[s] = nextSeq[s]
        /\ seen'[s] = seen[s] /\ got'[s] = got[s] /\ ident'[s] = ident[s] /\ row'[s] = row[s]
        /\ wire'[s] = wire[s] /\ client'[s] = client[s] /\ sent'[s] = sent[s]
        /\ chan'[s] = chan[s] /\ faults' = faults
        /\ pc[s] = "select" /\ pc'[s] = "awaitClosed"
    BY <1>7, OwnTypes DEF PumpClosed, Goto, dbVars, connVars, backendVars
  <2>2. Rows(s)' /\ Cursor(s)'
    BY <1>1, <2>1, SameRows, OwnTypes DEF Cursor, Unstarted, Unopened, Pumping, DrainStates
  <2>3. Conserved(s)'
    BY <1>1, <2>1, SameRows, OwnTypes DEF Pinned, Looping, Keeping, Conserved, Unstarted,
         Unopened, DrainStates
  <2>4. Pinned(s)'
    BY <1>1, <2>1, SameRows, OwnTypes DEF LifeInv, Pinned, After, Looping, Before,
         Unstarted, Unopened, Open, PcStates,
                                               PumpStates, FinalStates, DrainStates, WaitStates, BeforePump, Unregistered
  <2>5. Settled(s)'
    BY <1>1, <2>1, SameRows, OwnTypes DEF LifeInv, Settled, Unstarted, Unopened, Closed,
         Terminal
  <2> QED BY <2>2, <2>3, <2>4, <2>5 DEF Own
<1>8. CASE PumpResult(s)
  <2>1. /\ log'[s] = log[s] /\ loop'[s] = loop[s] /\ nextSeq'[s] = nextSeq[s]
        /\ seen'[s] = seen[s] /\ ident'[s] = ident[s] /\ row'[s] = row[s] /\ wire'[s] = wire[s]
        /\ client'[s] = client[s] /\ sent'[s] = sent[s] /\ chan'[s] = chan[s]
        /\ faults' = faults
        /\ pc[s] = "select" /\ pc'[s] \in {"drainRes", "final"}
    BY <1>8, OwnTypes DEF PumpResult, Goto, dbVars, connVars
  <2>2. Rows(s)' /\ Cursor(s)'
    BY <1>1, <2>1, SameRows, OwnTypes DEF Cursor, Unstarted, Unopened, Pumping, DrainStates
  <2>3. Conserved(s)'
    BY <1>1, <2>1, SameRows, OwnTypes DEF Pinned, Looping, Keeping, Conserved, Unstarted,
         Unopened, DrainStates
  <2>4. Pinned(s)'
    BY <1>1, <2>1, SameRows, OwnTypes DEF LifeInv, Pinned, After, Looping, Before,
         Unstarted, Unopened, Open, PcStates,
                                               PumpStates, FinalStates, DrainStates, WaitStates, BeforePump, Unregistered
  <2>5. Settled(s)'
    BY <1>1, <2>1, SameRows, OwnTypes DEF LifeInv, Settled, Unstarted, Unopened, Closed,
         Terminal
  <2> QED BY <2>2, <2>3, <2>4, <2>5 DEF Own
<1>9. CASE DrainEnd(s)
  <2>1. /\ log'[s] = log[s] /\ nextSeq'[s] = nextSeq[s] /\ seen'[s] = seen[s]
        /\ got'[s] = got[s] /\ ident'[s] = ident[s] /\ row'[s] = row[s] /\ wire'[s] = wire[s]
        /\ client'[s] = client[s] /\ sent'[s] = sent[s] /\ chan'[s] = chan[s]
        /\ faults' = faults
        /\ loop'[s] = pc[s]
        /\ \/ pc[s] = "drainCtx" /\ pc'[s] = "awaitCtx"
           \/ pc[s] = "drainRes" /\ pc'[s] = "final"
    BY <1>9, OwnTypes DEF DrainEnd, Goto, DrainStates, dbVars, connVars, backendVars
  <2>2. Rows(s)' /\ Cursor(s)'
    BY <1>1, <2>1, SameRows, OwnTypes DEF Cursor, Unstarted, Unopened, Pumping, DrainStates
  <2>3. Conserved(s)'
    BY <1>1, <2>1, SameRows, OwnTypes DEF Pinned, Looping, Keeping, Conserved, Unstarted,
         Unopened, DrainStates
  <2>4. Pinned(s)'
    BY <1>1, <2>1, SameRows, OwnTypes DEF LifeInv, Pinned, After, Looping, Before,
         Unstarted, Unopened, Open, PcStates,
                                               PumpStates, FinalStates, DrainStates, WaitStates, BeforePump, Unregistered
  <2>5. Settled(s)'
    BY <1>1, <2>1, SameRows, OwnTypes DEF LifeInv, Settled, Unstarted, Unopened, Closed,
         Terminal
  <2> QED BY <2>2, <2>3, <2>4, <2>5 DEF Own
<1>10. CASE TakeResult(s)
  <2>1. /\ log'[s] = log[s] /\ loop'[s] = loop[s] /\ nextSeq'[s] = nextSeq[s]
        /\ seen'[s] = seen[s] /\ ident'[s] = ident[s] /\ row'[s] = row[s] /\ wire'[s] = wire[s]
        /\ client'[s] = client[s] /\ sent'[s] = sent[s] /\ chan'[s] = chan[s]
        /\ faults' = faults
        /\ pc[s] \in {"awaitCtx", "awaitClosed"} /\ pc'[s] = "final"
    BY <1>10, OwnTypes DEF TakeResult, Goto, WaitStates, dbVars, connVars
  <2>2. Rows(s)' /\ Cursor(s)'
    BY <1>1, <2>1, SameRows, OwnTypes DEF Cursor, Unstarted, Unopened, Pumping, DrainStates
  <2>3. Conserved(s)'
    BY <1>1, <2>1, SameRows, OwnTypes DEF Pinned, Looping, Keeping, Conserved, Unstarted,
         Unopened, DrainStates
  <2>4. Pinned(s)'
    BY <1>1, <2>1, SameRows, OwnTypes DEF LifeInv, Pinned, After, Looping, Before,
         Unstarted, Unopened, Open, PcStates,
                                               PumpStates, FinalStates, DrainStates, WaitStates, BeforePump, Unregistered
  <2>5. Settled(s)'
    BY <1>1, <2>1, SameRows, OwnTypes DEF LifeInv, Settled, Unstarted, Unopened, Closed,
         Terminal
  <2> QED BY <2>2, <2>3, <2>4, <2>5 DEF Own
<1>11. CASE WriteEnded(s)
  <2>1. /\ log'[s] = log[s] /\ loop'[s] = loop[s] /\ nextSeq'[s] = nextSeq[s]
        /\ seen'[s] = seen[s] /\ got'[s] = got[s] /\ ident'[s] = ident[s] /\ row'[s] = row[s]
        /\ client'[s] = client[s] /\ sent'[s] = sent[s] /\ chan'[s] = chan[s]
        /\ faults' = faults
        /\ pc[s] = "writeEnd" /\ pc'[s] = "row"
    BY <1>11, OwnTypes DEF WriteEnded, Goto, Deliver, dbVars, backendVars
  <2>2. Rows(s)' /\ Cursor(s)'
    BY <1>1, <2>1, SameRows, OwnTypes DEF Cursor, Unstarted, Unopened, Pumping, DrainStates
  <2>3. Conserved(s)'
    BY <1>1, <2>1, SameRows, OwnTypes DEF Pinned, Looping, Keeping, Conserved, Unstarted,
         Unopened, DrainStates
  <2>4. Pinned(s)'
    BY <1>1, <2>1, SameRows, OwnTypes DEF LifeInv, Pinned, After, Looping, Before,
         Unstarted, Unopened, Open, PcStates,
                                               PumpStates, FinalStates, DrainStates, WaitStates, BeforePump, Unregistered
  <2>5. Settled(s)'
    BY <1>1, <2>1, SameRows, OwnTypes DEF LifeInv, Settled, Unstarted, Unopened, Closed,
         Terminal
  <2> QED BY <2>2, <2>3, <2>4, <2>5 DEF Own
<1>12. CASE UpdateRow(s)
  <2>1. /\ log'[s] = log[s] /\ loop'[s] = loop[s] /\ nextSeq'[s] = nextSeq[s]
        /\ seen'[s] = seen[s] /\ got'[s] = got[s] /\ ident'[s] = ident[s] /\ wire'[s] = wire[s]
        /\ client'[s] = client[s] /\ sent'[s] = sent[s] /\ chan'[s] = chan[s]
        /\ faults' >= faults
        /\ pc[s] = "row" /\ pc'[s] = "exit"
        /\ \/ row'[s] = EndedStatus(s)
           \/ row'[s] = row[s] /\ faults' > 0
    BY <1>12, OwnTypes DEF UpdateRow, Goto, SetRow, Fault, EndedStatus, connVars,
         backendVars
  <2>2. Rows(s)' /\ Cursor(s)'
    BY <1>1, <2>1, SameRows, OwnTypes DEF Cursor, Unstarted, Unopened, Pumping, DrainStates
  <2>3. Conserved(s)'
    BY <1>1, <2>1, SameRows, OwnTypes DEF Pinned, Looping, Keeping, Conserved, Unstarted,
         Unopened, DrainStates
  <2>4. Pinned(s)'
    BY <1>1, <2>1, SameRows, OwnTypes DEF LifeInv, Pinned, After, Looping, Before,
         Unstarted, Unopened, Open, PcStates,
                                               PumpStates, FinalStates, DrainStates, WaitStates, BeforePump, Unregistered
  <2>5. Settled(s)'
    BY <1>1, <2>1, SameRows, OwnTypes DEF LifeInv, Settled, Unstarted, Unopened, Closed,
         Terminal
  <2> QED BY <2>2, <2>3, <2>4, <2>5 DEF Own
<1>13. CASE AbortStream(s)
  <2>1. /\ log'[s] = log[s] /\ loop'[s] = loop[s] /\ nextSeq'[s] = nextSeq[s]
        /\ seen'[s] = seen[s] /\ got'[s] = got[s] /\ ident'[s] = ident[s] /\ wire'[s] = wire[s]
        /\ client'[s] = client[s] /\ sent'[s] = sent[s] /\ chan'[s] = chan[s]
        /\ faults' >= faults
        /\ pc[s] = "abort" /\ pc'[s] = "exit"
        /\ \/ row'[s] = "failed"
           \/ row'[s] = row[s] /\ faults' > 0
    BY <1>13, OwnTypes DEF AbortStream, Goto, SetRow, Fault, connVars, backendVars
  <2>2. Rows(s)' /\ Cursor(s)'
    BY <1>1, <2>1, SameRows, OwnTypes DEF Cursor, Unstarted, Unopened, Pumping, DrainStates
  <2>3. Conserved(s)'
    BY <1>1, <2>1, SameRows, OwnTypes DEF Pinned, Looping, Keeping, Conserved, Unstarted,
         Unopened, DrainStates
  <2>4. Pinned(s)'
    BY <1>1, <2>1, SameRows, OwnTypes DEF LifeInv, Pinned, After, Looping, Before,
         Unstarted, Unopened, Open, PcStates,
                                               PumpStates, FinalStates, DrainStates, WaitStates, BeforePump, Unregistered
  <2>5. Settled(s)'
    BY <1>1, <2>1, SameRows, OwnTypes DEF LifeInv, Settled, Unstarted, Unopened, Closed,
         Terminal
  <2> QED BY <2>2, <2>3, <2>4, <2>5 DEF Own
<1>14. CASE Exit(s)
  <2>1. /\ log'[s] = log[s] /\ loop'[s] = loop[s] /\ nextSeq'[s] = nextSeq[s]
        /\ seen'[s] = seen[s] /\ got'[s] = got[s] /\ ident'[s] = ident[s] /\ row'[s] = row[s]
        /\ wire'[s] = wire[s] /\ client'[s] = client[s] /\ sent'[s] = sent[s]
        /\ chan'[s] = chan[s] /\ faults' = faults
        /\ pc[s] = "exit" /\ pc'[s] = "done"
    BY <1>14, OwnTypes DEF Exit, Goto, dbVars, connVars, backendVars
  <2>2. Rows(s)' /\ Cursor(s)'
    BY <1>1, <2>1, SameRows, OwnTypes DEF Cursor, Unstarted, Unopened, Pumping, DrainStates
  <2>3. Conserved(s)'
    BY <1>1, <2>1, SameRows, OwnTypes DEF Pinned, Looping, Keeping, Conserved, Unstarted,
         Unopened, DrainStates
  <2>4. Pinned(s)'
    BY <1>1, <2>1, SameRows, OwnTypes DEF LifeInv, Pinned, After, Looping, Before,
         Unstarted, Unopened, Open, PcStates,
                                               PumpStates, FinalStates, DrainStates, WaitStates, BeforePump, Unregistered
  <2>5. Settled(s)'
    BY <1>1, <2>1, SameRows, OwnTypes DEF LifeInv, Settled, Unstarted, Unopened, Closed,
         Terminal
  <2> QED BY <2>2, <2>3, <2>4, <2>5 DEF Own
<1>15. CASE Begin(s)
  <2>1. /\ log'[s] = log[s] /\ loop'[s] = loop[s] /\ nextSeq'[s] = nextSeq[s]
        /\ seen'[s] = seen[s] /\ got'[s] = got[s] /\ ident'[s] = ident[s] /\ wire'[s] = wire[s]
        /\ client'[s] = client[s] /\ sent'[s] = sent[s] /\ chan'[s] = chan[s]
        /\ faults' = faults
        /\ pc[s] = "arrived"
        /\ \/ pc'[s] = "inserted" /\ row'[s] = "running"
           \/ pc'[s] = "done" /\ row'[s] = row[s]
    BY <1>15, OwnTypes DEF Begin, Goto, connVars, backendVars
  <2>2. Rows(s)' /\ Cursor(s)'
    BY <1>1, <2>1, SameRows, OwnTypes DEF Cursor, Unstarted, Unopened, Pumping, DrainStates
  <2>3. Conserved(s)'
    BY <1>1, <2>1, SameRows, OwnTypes DEF Pinned, Looping, Keeping, Conserved, Unstarted,
         Unopened, DrainStates
  <2>4. Pinned(s)'
    BY <1>1, <2>1, SameRows, OwnTypes DEF LifeInv, Pinned, After, Looping, Before,
         Unstarted, Unopened, Open, PcStates,
                                               PumpStates, FinalStates, DrainStates, WaitStates, BeforePump, Unregistered
  <2>5. Settled(s)'
    BY <1>1, <2>1, SameRows, OwnTypes DEF LifeInv, Settled, Unstarted, Unopened, Closed,
         Terminal
  <2> QED BY <2>2, <2>3, <2>4, <2>5 DEF Own
<1>16. CASE Discard(s)
  <2>1. /\ log'[s] = log[s] /\ loop'[s] = loop[s] /\ nextSeq'[s] = nextSeq[s]
        /\ seen'[s] = seen[s] /\ got'[s] = got[s] /\ ident'[s] = ident[s] /\ row'[s] = row[s]
        /\ wire'[s] = wire[s] /\ client'[s] = client[s] /\ sent'[s] = sent[s]
        /\ faults' = faults
        /\ loop[s] = "drainCtx" /\ pc'[s] = pc[s]
        /\ pc[s] \in {"awaitCtx", "final", "pin", "emit", "writeEnd", "row",
                    "abort", "exit", "done"}
    BY <1>16, OwnTypes DEF Discard, FinalStates, dbVars, pumpVars, connVars
  <2>2. Rows(s)' /\ Cursor(s)'
    BY <1>1, <2>1, SameRows, OwnTypes DEF Cursor, Unstarted, Unopened, Pumping, DrainStates
  <2>3. Conserved(s)'
    BY <1>1, <2>1, SameRows, OwnTypes DEF Pinned, Looping, Keeping, Conserved, Unstarted,
         Unopened, DrainStates
  <2>4. Pinned(s)'
    BY <1>1, <2>1, SameRows, OwnTypes DEF LifeInv, Pinned, After, Looping, Before,
         Unstarted, Unopened, Open, PcStates,
                                               PumpStates, FinalStates, DrainStates, WaitStates, BeforePump, Unregistered
  <2>5. Settled(s)'
    BY <1>1, <2>1, SameRows, OwnTypes DEF LifeInv, Settled, Unstarted, Unopened, Closed,
         Terminal
  <2> QED BY <2>2, <2>3, <2>4, <2>5 DEF Own
<1>17. CASE Finish(s)
  <2>1. /\ log'[s] = log[s] /\ loop'[s] = loop[s] /\ nextSeq'[s] = nextSeq[s]
        /\ seen'[s] = seen[s] /\ got'[s] = got[s] /\ ident'[s] = ident[s] /\ row'[s] = row[s]
        /\ wire'[s] = wire[s] /\ client'[s] = client[s] /\ sent'[s] = sent[s]
        /\ chan'[s] = chan[s] /\ faults' = faults
        /\ pc'[s] = pc[s]
    BY <1>17, OwnTypes DEF Finish, dbVars, pumpVars, connVars
  <2>2. Rows(s)' /\ Cursor(s)'
    BY <1>1, <2>1, SameRows, OwnTypes DEF Cursor, Unstarted, Unopened, Pumping, DrainStates
  <2>3. Conserved(s)'
    BY <1>1, <2>1, SameRows, OwnTypes DEF Pinned, Looping, Keeping, Conserved, Unstarted,
         Unopened, DrainStates
  <2>4. Pinned(s)'
    BY <1>1, <2>1, SameRows, OwnTypes DEF LifeInv, Pinned, After, Looping, Before,
         Unstarted, Unopened, Open, PcStates,
                                               PumpStates, FinalStates, DrainStates, WaitStates, BeforePump, Unregistered
  <2>5. Settled(s)'
    BY <1>1, <2>1, SameRows, OwnTypes DEF LifeInv, Settled, Unstarted, Unopened, Closed,
         Terminal
  <2> QED BY <2>2, <2>3, <2>4, <2>5 DEF Own
<1>18. CASE CloseMessages(s)
  <2>1. /\ log'[s] = log[s] /\ loop'[s] = loop[s] /\ nextSeq'[s] = nextSeq[s]
        /\ seen'[s] = seen[s] /\ got'[s] = got[s] /\ ident'[s] = ident[s] /\ row'[s] = row[s]
        /\ wire'[s] = wire[s] /\ client'[s] = client[s] /\ sent'[s] = sent[s]
        /\ chan'[s] = chan[s] /\ faults' = faults
        /\ pc'[s] = pc[s]
    BY <1>18, OwnTypes DEF CloseMessages, dbVars, pumpVars, connVars
  <2>2. Rows(s)' /\ Cursor(s)'
    BY <1>1, <2>1, SameRows, OwnTypes DEF Cursor, Unstarted, Unopened, Pumping, DrainStates
  <2>3. Conserved(s)'
    BY <1>1, <2>1, SameRows, OwnTypes DEF Pinned, Looping, Keeping, Conserved, Unstarted,
         Unopened, DrainStates
  <2>4. Pinned(s)'
    BY <1>1, <2>1, SameRows, OwnTypes DEF LifeInv, Pinned, After, Looping, Before,
         Unstarted, Unopened, Open, PcStates,
                                               PumpStates, FinalStates, DrainStates, WaitStates, BeforePump, Unregistered
  <2>5. Settled(s)'
    BY <1>1, <2>1, SameRows, OwnTypes DEF LifeInv, Settled, Unstarted, Unopened, Closed,
         Terminal
  <2> QED BY <2>2, <2>3, <2>4, <2>5 DEF Own
<1>19. CASE ClientGone(s)
  <2>1. /\ log'[s] = log[s] /\ loop'[s] = loop[s] /\ nextSeq'[s] = nextSeq[s]
        /\ seen'[s] = seen[s] /\ got'[s] = got[s] /\ ident'[s] = ident[s] /\ row'[s] = row[s]
        /\ wire'[s] = wire[s] /\ sent'[s] = sent[s] /\ chan'[s] = chan[s] /\ faults' = faults
        /\ pc'[s] = pc[s] /\ ~client'[s]
    BY <1>19, OwnTypes DEF ClientGone, dbVars, pumpVars, connVars, backendVars
  <2>2. Rows(s)' /\ Cursor(s)'
    BY <1>1, <2>1, SameRows, OwnTypes DEF Cursor, Unstarted, Unopened, Pumping, DrainStates
  <2>3. Conserved(s)'
    BY <1>1, <2>1, SameRows, OwnTypes DEF Pinned, Looping, Keeping, Conserved, Unstarted,
         Unopened, DrainStates
  <2>4. Pinned(s)'
    BY <1>1, <2>1, SameRows, OwnTypes DEF LifeInv, Pinned, After, Looping, Before,
         Unstarted, Unopened, Open, PcStates,
                                               PumpStates, FinalStates, DrainStates, WaitStates, BeforePump, Unregistered
  <2>5. Settled(s)'
    BY <1>1, <2>1, SameRows, OwnTypes DEF LifeInv, Settled, Unstarted, Unopened, Closed,
         Terminal
  <2> QED BY <2>2, <2>3, <2>4, <2>5 DEF Own
<1>20. CASE NoticeGone(s)
  <2>1. /\ log'[s] = log[s] /\ loop'[s] = loop[s] /\ nextSeq'[s] = nextSeq[s]
        /\ seen'[s] = seen[s] /\ got'[s] = got[s] /\ ident'[s] = ident[s] /\ row'[s] = row[s]
        /\ wire'[s] = wire[s] /\ client'[s] = client[s] /\ sent'[s] = sent[s]
        /\ chan'[s] = chan[s] /\ faults' = faults
        /\ pc'[s] = pc[s]
    BY <1>20, OwnTypes DEF NoticeGone, dbVars, pumpVars, connVars, backendVars
  <2>2. Rows(s)' /\ Cursor(s)'
    BY <1>1, <2>1, SameRows, OwnTypes DEF Cursor, Unstarted, Unopened, Pumping, DrainStates
  <2>3. Conserved(s)'
    BY <1>1, <2>1, SameRows, OwnTypes DEF Pinned, Looping, Keeping, Conserved, Unstarted,
         Unopened, DrainStates
  <2>4. Pinned(s)'
    BY <1>1, <2>1, SameRows, OwnTypes DEF LifeInv, Pinned, After, Looping, Before,
         Unstarted, Unopened, Open, PcStates,
                                               PumpStates, FinalStates, DrainStates, WaitStates, BeforePump, Unregistered
  <2>5. Settled(s)'
    BY <1>1, <2>1, SameRows, OwnTypes DEF LifeInv, Settled, Unstarted, Unopened, Closed,
         Terminal
  <2> QED BY <2>2, <2>3, <2>4, <2>5 DEF Own
<1>21. CASE Arrive(s)
  <2>1. /\ log'[s] = log[s] /\ loop'[s] = loop[s] /\ nextSeq'[s] = nextSeq[s]
        /\ seen'[s] = seen[s] /\ row'[s] = row[s]
        /\ wire'[s] = wire[s] /\ client'[s] = client[s] /\ sent'[s] = sent[s]
        /\ chan'[s] = chan[s]
        /\ got'[s] = got[s] /\ ident'[s] = ident[s] /\ faults' = faults
        /\ pc[s] = "idle" /\ pc'[s] = "arrived"
    BY <1>21, OwnTypes DEF Arrive, Goto, dbVars, connVars, backendVars
  <2>2. Rows(s)' /\ Cursor(s)'
    BY <1>1, <2>1, SameRows, OwnTypes DEF Cursor, Unstarted, Unopened, Pumping, DrainStates
  <2>3. Conserved(s)'
    BY <1>1, <2>1, SameRows, OwnTypes DEF Pinned, Looping, Keeping, Conserved, Unstarted,
         Unopened, DrainStates
  <2>4. Pinned(s)'
    BY <1>1, <2>1, SameRows, OwnTypes DEF LifeInv, Pinned, After, Looping, Before,
         Unstarted, Unopened, Open, PcStates,
                                               PumpStates, FinalStates, DrainStates, WaitStates, BeforePump, Unregistered
  <2>5. Settled(s)'
    BY <1>1, <2>1, SameRows, OwnTypes DEF LifeInv, Settled, Unstarted, Unopened, Closed,
         Terminal
  <2> QED BY <2>2, <2>3, <2>4, <2>5 DEF Own
<1>22. CASE Decide(s)
  <2>1. /\ log'[s] = log[s] /\ loop'[s] = loop[s] /\ nextSeq'[s] = nextSeq[s]
        /\ seen'[s] = seen[s] /\ row'[s] = row[s]
        /\ wire'[s] = wire[s] /\ client'[s] = client[s] /\ sent'[s] = sent[s]
        /\ chan'[s] = chan[s]
        /\ got'[s].id = got[s].id /\ ident'[s] = ident[s] /\ faults' = faults
        /\ pc[s] = "final" /\ pc'[s] = (IF got[s].id /\ ~seen[s] THEN "pin" ELSE "emit")
    BY <1>22, OwnTypes DEF Decide, Goto, dbVars, connVars, backendVars
  <2>2. Rows(s)' /\ Cursor(s)'
    BY <1>1, <2>1, SameRows, OwnTypes DEF Cursor, Unstarted, Unopened, Pumping, DrainStates
  <2>3. Conserved(s)'
    BY <1>1, <2>1, SameRows, OwnTypes DEF Pinned, Looping, Keeping, Conserved, Unstarted,
         Unopened, DrainStates
  <2>4. Pinned(s)'
    BY <1>1, <2>1, SameRows, OwnTypes DEF LifeInv, Pinned, After, Looping, Before,
         Unstarted, Unopened, Open, PcStates,
                                               PumpStates, FinalStates, DrainStates, WaitStates, BeforePump, Unregistered
  <2>5. Settled(s)'
    BY <1>1, <2>1, SameRows, OwnTypes DEF LifeInv, Settled, Unstarted, Unopened, Closed,
         Terminal
  <2> QED BY <2>2, <2>3, <2>4, <2>5 DEF Own
<1>23. CASE PinFinal(s)
  <2>1. /\ log'[s] = log[s] /\ loop'[s] = loop[s] /\ nextSeq'[s] = nextSeq[s]
        /\ seen'[s] = seen[s] /\ row'[s] = row[s]
        /\ wire'[s] = wire[s] /\ client'[s] = client[s] /\ sent'[s] = sent[s]
        /\ chan'[s] = chan[s]
        /\ got'[s] = got[s] /\ faults' >= faults
        /\ (ident'[s] = "result" \/ (ident'[s] = ident[s] /\ faults' > 0))
        /\ pc[s] = "pin" /\ pc'[s] = "emit"
    BY <1>23, OwnTypes DEF PinFinal, PinFaults, PinIdent, Goto, connVars, backendVars
  <2>2. Rows(s)' /\ Cursor(s)'
    BY <1>1, <2>1, SameRows, OwnTypes DEF Cursor, Unstarted, Unopened, Pumping, DrainStates
  <2>3. Conserved(s)'
    BY <1>1, <2>1, SameRows, OwnTypes DEF Pinned, Looping, Keeping, Conserved, Unstarted,
         Unopened, DrainStates
  <2>4. Pinned(s)'
    BY <1>1, <2>1, SameRows, OwnTypes DEF LifeInv, Pinned, After, Looping, Before,
         Unstarted, Unopened, Open, PcStates,
                                               PumpStates, FinalStates, DrainStates, WaitStates, BeforePump, Unregistered
  <2>5. Settled(s)'
    BY <1>1, <2>1, SameRows, OwnTypes DEF LifeInv, Settled, Unstarted, Unopened, Closed,
         Terminal
  <2> QED BY <2>2, <2>3, <2>4, <2>5 DEF Own
<1> QED BY <1>2, <1>3, <1>4, <1>5, <1>6, <1>7, <1>8, <1>9, <1>10, <1>11, <1>12, <1>13,
     <1>14, <1>15, <1>16, <1>17, <1>18, <1>19, <1>20,
           <1>21, <1>22, <1>23

\* The backend sends a message.
LEMMA SendOwn ==
  ASSUME TypeOK, NEW s \in Sessions, Own(s), Send(s), UNCHANGED daemon
  PROVE  Own(s)'
<1>1. Rows(s) /\ Cursor(s) /\ Conserved(s) /\ Pinned(s) /\ Settled(s) /\ Up' = Up
  BY DEF Own, Up
<1>2. PICK m \in Kinds : /\ sent' = [sent EXCEPT ![s] = Append(@, m)]
                         /\ chan' = [chan EXCEPT ![s] = Append(@, m)]
  BY DEF Send
<1>3. /\ sent'[s] = Append(sent[s], m) /\ chan'[s] = Append(chan[s], m)
      /\ sent[s] \in Seq(MessageKinds) /\ chan[s] \in Seq(MessageKinds)
      /\ Len(log[s]) \in Nat
  BY <1>2, OwnTypes
<1>4. /\ Opened(s) /\ UNCHANGED <<row, ident, log, faults, pc, loop, nextSeq, seen, got, client, wire>>
  BY DEF Send, dbVars, pumpVars, connVars
<1>5. Rows(s)' /\ Cursor(s)' /\ Pinned(s)' /\ Settled(s)'
  BY <1>1, <1>4, SameRows DEF Cursor, Pinned, After, Looping, Settled
<1>6. \A i : MessagesAmong(s, i)' = MessagesAmong(s, i)
  BY <1>4 DEF MessagesAmong
<1>7. SentInOrder(s)'
  BY <1>1, <1>3, <1>4, <1>6 DEF Conserved, SentInOrder
<1>8. NothingMissing(s) => NothingMissing(s)'
  <2> DEFINE n == MessagesAmong(s, Len(log[s]))
  <2>1. n \in Nat /\ n = MessagesAmong(s, Len(log[s]))'
    BY <1>3, <1>4, <1>6, AmongType
  <2> HIDE DEF n
  <2>2. ASSUME n + Len(chan[s]) = Len(sent[s]), \A k \in 1..Len(chan[s]) : chan[s][k] = sent[s][n + k]
        PROVE  /\ n + Len(chan'[s]) = Len(sent'[s])
               /\ \A k \in 1..Len(chan'[s]) : chan'[s][k] = sent'[s][n + k]
    <3>1. /\ Len(chan'[s]) = Len(chan[s]) + 1 /\ Len(chan[s]) \in Nat
          /\ Len(sent'[s]) = Len(sent[s]) + 1 /\ Len(sent[s]) \in Nat
          /\ chan'[s][Len(chan[s]) + 1] = m /\ sent'[s][Len(sent[s]) + 1] = m
          /\ \A k \in 1..Len(chan[s]) : chan'[s][k] = chan[s][k]
          /\ \A k \in 1..Len(sent[s]) : sent'[s][k] = sent[s][k]
      BY <1>3
    <3>2. n + Len(chan'[s]) = Len(sent'[s]) /\ n + (Len(chan[s]) + 1) = Len(sent[s]) + 1
      <4>1. \A c, l \in Nat : n + c = l => n + (c + 1) = l + 1
        BY <2>1
      <4> QED BY <2>2, <3>1, <4>1
    <3>3. \A k \in 1..Len(chan[s]) : n + k \in 1..Len(sent[s])
      <4>1. \A c, l \in Nat : n + c = l => \A k \in 1..c : n + k \in 1..l
        BY <2>1
      <4> QED BY <2>2, <3>1, <4>1
    <3>4. ASSUME NEW k \in 1..Len(chan'[s]) PROVE chan'[s][k] = sent'[s][n + k]
      <4>1. CASE k \in 1..Len(chan[s])
        <5>1. n + k \in 1..Len(sent[s])
          BY <2>2, <3>1, <3>3, <4>1
        <5> QED BY <2>2, <3>1, <4>1, <5>1
      <4>2. CASE k = Len(chan[s]) + 1
        <5>1. n + k = Len(sent[s]) + 1
          BY <2>2, <4>2, <3>2
        <5> QED BY <3>1, <4>2, <5>1
      <4> QED BY <3>1, <4>1, <4>2
    <3> QED BY <3>4, <3>2
  <2> QED BY <2>1, <2>2 DEF NothingMissing, n
<1>9. pc[s] \notin Unopened
  BY <1>4 DEF Opened, Unopened, PumpStates, FinalStates, DrainStates, WaitStates
<1>10. Conserved(s)'
  BY <1>1, <1>4, <1>7, <1>8, <1>9 DEF Conserved, Keeping
<1> QED BY <1>5, <1>10 DEF Own

\* A row that is no message leaves the messages as they are.
LEMMA KeepAppend ==
  ASSUME TypeOK, NEW s \in Sessions, NEW env, env.ev # "message", SentInOrder(s),
         log' = [log EXCEPT ![s] = Append(@, env)], sent'[s] = sent[s], chan'[s] = chan[s]
  PROVE  SentInOrder(s)' /\ (NothingMissing(s) => NothingMissing(s)')
<1> DEFINE n == Len(log[s])
<1>1. /\ n \in Nat /\ Len(log'[s]) = n + 1
      /\ \A i \in 1..n : log'[s][i] = log[s][i]
      /\ log'[s][n + 1] = env
  BY AppendRow
<1>2. /\ \A i \in 0..n : MessagesAmong(s, i)' = MessagesAmong(s, i)
      /\ \A k \in Nat : k = n + 1 => MessagesAmong(s, k)' = MessagesAmong(s, k - 1) + 0
  BY AmongAppend
<1> HIDE DEF n
<1>3. MessagesAmong(s, n) \in Nat
  BY <1>1, AmongType
<1>4. \A k \in Nat : k = n + 1 => MessagesAmong(s, k)' = MessagesAmong(s, n)
  BY <1>1, <1>2, <1>3
<1>5. SentInOrder(s)'
  <2> SUFFICES ASSUME NEW i \in 1..(n + 1), log'[s][i].ev = "message"
      PROVE  /\ MessagesAmong(s, i)' \in 1..Len(sent'[s])
             /\ log'[s][i].d = sent'[s][MessagesAmong(s, i)']
    BY <1>1 DEF SentInOrder
  <2>1. i \in 1..n /\ log'[s][i] = log[s][i]
    BY <1>1
  <2>2. MessagesAmong(s, i)' = MessagesAmong(s, i)
    BY <1>1, <1>2, <2>1
  <2> QED BY <2>1, <2>2 DEF SentInOrder, n
<1>6. NothingMissing(s) => NothingMissing(s)'
  <2>1. \A k \in Nat : k = Len(log'[s]) => MessagesAmong(s, k)' = MessagesAmong(s, n)
    BY <1>1, <1>4
  <2>2. MessagesAmong(s, Len(log[s]))' = MessagesAmong(s, n)
    BY <1>1, <2>1
  <2> QED BY <2>2 DEF NothingMissing, n
<1> QED BY <1>5, <1>6

\* The row of the message that was next.
LEMMA TakeAppend ==
  ASSUME TypeOK, NEW s \in Sessions, NEW env, env.ev = "message", env.d = Head(chan[s]),
         SentInOrder(s), NothingMissing(s), chan[s] # <<>>,
         log' = [log EXCEPT ![s] = Append(@, env)], sent'[s] = sent[s], chan'[s] = Tail(chan[s])
  PROVE  SentInOrder(s)' /\ NothingMissing(s)'
<1> DEFINE n == Len(log[s])
           m == MessagesAmong(s, n)
<1>1. /\ n \in Nat /\ Len(log'[s]) = n + 1
      /\ \A i \in 1..n : log'[s][i] = log[s][i]
      /\ log'[s][n + 1] = env
  BY AppendRow
<1>2. /\ \A i \in 0..n : MessagesAmong(s, i)' = MessagesAmong(s, i)
      /\ \A k \in Nat : k = n + 1 => MessagesAmong(s, k)' = MessagesAmong(s, k - 1) + 1
  BY AmongAppend
<1>3. m \in Nat
  BY <1>1, AmongType
<1>4. /\ chan[s] \in Seq(MessageKinds) /\ Len(chan[s]) > 0 /\ Len(sent[s]) \in Nat
      /\ m + Len(chan[s]) = Len(sent[s])
      /\ \A k \in 1..Len(chan[s]) : chan[s][k] = sent[s][m + k]
  BY OwnTypes DEF NothingMissing
<1> HIDE DEF n
<1>5. \A k \in Nat : k = n + 1 => MessagesAmong(s, k)' = m + 1
  BY <1>1, <1>2, <1>3
<1>6. MessagesAmong(s, Len(log[s]))' = m + 1
  BY <1>1, <1>5
<1> HIDE DEF m
<1>7. Head(chan[s]) = sent[s][m + 1] /\ m + 1 \in 1..Len(sent[s])
  BY <1>3, <1>4
<1>8. SentInOrder(s)'
  <2> SUFFICES ASSUME NEW i \in 1..(n + 1), log'[s][i].ev = "message"
      PROVE  /\ MessagesAmong(s, i)' \in 1..Len(sent'[s])
             /\ log'[s][i].d = sent'[s][MessagesAmong(s, i)']
    BY <1>1 DEF SentInOrder
  <2>1. CASE i \in 1..n
    <3>1. MessagesAmong(s, i)' = MessagesAmong(s, i) /\ log'[s][i] = log[s][i]
      BY <1>1, <1>2, <2>1
    <3> QED BY <2>1, <3>1 DEF SentInOrder, n
  <2>2. CASE i = n + 1
    <3>1. MessagesAmong(s, i)' = m + 1 /\ log'[s][i] = env
      BY <1>1, <1>5, <2>2
    <3> QED BY <1>7, <3>1
  <2> QED BY <1>1, <2>1, <2>2
<1>9. NothingMissing(s)'
  <2>1. /\ Len(Tail(chan[s])) = Len(chan[s]) - 1 /\ Len(chan[s]) \in Nat
        /\ \A k \in 1..Len(Tail(chan[s])) : Tail(chan[s])[k] = chan[s][k + 1]
    BY <1>4
  <2>2. (m + 1) + Len(chan'[s]) = Len(sent'[s])
    <3>1. Len(chan'[s]) = Len(chan[s]) - 1 /\ Len(sent'[s]) = Len(sent[s])
      BY <2>1
    <3>2. \A c, l \in Nat : m + c = l => (m + 1) + (c - 1) = l
      BY <1>3
    <3>3. (m + 1) + (Len(chan[s]) - 1) = Len(sent[s])
      BY <1>4, <2>1, <3>2
    <3> QED BY <3>1, <3>3
  <2>3. ASSUME NEW k \in 1..Len(chan'[s]) PROVE chan'[s][k] = sent'[s][(m + 1) + k]
    <3>1. k + 1 \in 1..Len(chan[s]) /\ chan'[s][k] = chan[s][k + 1]
      BY <1>4, <2>1
    <3>2. m + (k + 1) = (m + 1) + k
      BY <1>3, <1>4, <2>1
    <3> QED BY <1>4, <3>1, <3>2
  <2> QED BY <1>6, <2>2, <2>3 DEF NothingMissing
<1> QED BY <1>8, <1>9

\* persistAndWrite's INSERT of anything but a message.
LEMMA PersistedOwn ==
  ASSUME TypeOK, NEW s \in Sessions, Own(s), ~Ended(s), NEW env \in EnvelopeSet,
         env.ev # "message",
         log' = [log EXCEPT ![s] = Append(@, env)], sent'[s] = sent[s], chan'[s] = chan[s],
         (env.ev = "session_started") <=> (Len(log[s]) = 0),
         env.ev # "session_ended" => env.seq = Len(log[s]),
         env.seq >= Len(log[s]),
         env.ev = "error" => Len(log[s]) > 0 /\ LastKind(s) = "big",
         Len(log[s]) > 0 /\ LastKind(s) = "big" => env.ev \in {"error", "session_ended"}
  PROVE  /\ Rows(s)' /\ SentInOrder(s)' /\ (NothingMissing(s) => NothingMissing(s)')
         /\ Len(log[s]) \in Nat /\ Len(log'[s]) = Len(log[s]) + 1 /\ LastKind(s)' = env.d
<1>1. env.seq \in Nat
  BY DEF EnvelopeSet
<1>2. Rows(s)'
  BY <1>1, RowsAppend DEF Own
<1>3. SentInOrder(s)' /\ (NothingMissing(s) => NothingMissing(s)')
  BY KeepAppend DEF Own, Conserved
<1>4. Len(log[s]) \in Nat /\ Len(log'[s]) = Len(log[s]) + 1 /\ LastKind(s)' = env.d
  <2>1. Len(log[s]) \in Nat /\ Len(log'[s]) = Len(log[s]) + 1 /\ log'[s][Len(log[s]) + 1] = env
    BY AppendRow
  <2>2. log'[s][Len(log'[s])] = env
    BY <2>1
  <2> QED BY <2>1, <2>2 DEF LastKind
<1> QED BY <1>2, <1>3, <1>4

\* What persistAndWrite comes to, up to the Write.
LEMMA PersistSteps ==
  ASSUME TypeOK, NEW s \in Sessions, NEW env \in EnvelopeSet, NEW expired \in BOOLEAN,
         NEW spent \in {0, 1}, NEW next \in PcStates, NEW onFail \in PcStates,
         Persist(s, env, expired, spent, next, onFail)
  PROVE  /\ faults' >= faults /\ (faults' = 0 => faults = 0)
         /\ \/ /\ log' = [log EXCEPT ![s] = Append(@, env)] /\ pc'[s] = next /\ ~expired
               /\ faults' = 0 => spent = 0
            \/ /\ log' = log /\ pc'[s] = onFail
               /\ faults' = 0 => expired
<1>1. faults \in Nat /\ pc \in [Sessions -> PcStates]
  BY OwnTypes
<1>2. CASE ~expired /\ log' = [log EXCEPT ![s] = Append(@, env)] /\ pc' = [pc EXCEPT ![s] = next] /\ faults' = faults + spent
  BY <1>1, <1>2
<1>3. CASE pc' = [pc EXCEPT ![s] = onFail] /\ UNCHANGED log /\ faults' = faults + spent + (IF expired THEN 0 ELSE 1)
  <2>1. CASE expired
    <3>1. faults' = faults + spent + 0
      BY <1>3, <2>1
    <3> QED BY <1>1, <1>3, <2>1, <3>1
  <2>2. CASE ~expired
    <3>1. faults' = faults + spent + 1
      BY <1>3, <2>2
    <3> QED BY <1>1, <1>3, <3>1
  <2> QED BY <2>1, <2>2
<1> QED BY <1>2, <1>3 DEF Persist

\* The first row starts a transcript that is framed.
LEMMA StartedOwn ==
  ASSUME TypeOK, NEW s \in Sessions, Own(s), LifeInv(s), LifeInv(s)', PersistStarted(s)
  PROVE  Own(s)'
<1>1. PICK env \in EnvelopeSet : /\ env = Envelope(0, "session_started", "")
                                 /\ env.seq = 0 /\ env.ev = "session_started" /\ env.d = ""
  <2>1. Envelope(0, "session_started", "") \in EnvelopeSet
    BY DEF Envelope, EnvelopeSet
  <2> QED BY <2>1 DEF Envelope
<1>2. Rows(s) /\ Cursor(s) /\ Conserved(s) /\ Pinned(s) /\ Settled(s)
  BY DEF Own
<1>3. /\ loop'[s] = loop[s] /\ nextSeq'[s] = nextSeq[s] /\ seen'[s] = seen[s]
      /\ got'[s] = got[s] /\ ident'[s] = ident[s] /\ row'[s] = row[s] /\ wire'[s] = wire[s]
      /\ client'[s] = client[s] /\ sent'[s] = sent[s] /\ chan'[s] = chan[s]
      /\ pc[s] = "opened" /\ Up' = Up
  BY OwnTypes DEF PersistStarted, connVars, backendVars, procVars, Up
<1>4. /\ faults' >= faults /\ (faults' = 0 => faults = 0)
      /\ \/ log' = [log EXCEPT ![s] = Append(@, env)] /\ pc'[s] = "started"
         \/ log' = log /\ pc'[s] = "abort"
  <2>1. PICK expired \in BOOLEAN : Persist(s, env, expired, 0, "started", "abort")
    BY <1>1 DEF PersistStarted, TypeOK, ConnTypeOK
  <2>2. 0 \in {0, 1} /\ "started" \in PcStates /\ "abort" \in PcStates
    BY DEF PcStates, BeforePump, PumpStates, FinalStates
  <2>3. /\ faults' >= faults /\ (faults' = 0 => faults = 0)
        /\ \/ /\ log' = [log EXCEPT ![s] = Append(@, env)] /\ pc'[s] = "started" /\ ~expired
              /\ faults' = 0 => 0 = 0
           \/ /\ log' = log /\ pc'[s] = "abort"
              /\ faults' = 0 => expired
    BY <2>1, <2>2, PersistSteps
  <2> QED BY <2>3
<1>5. log[s] = <<>> /\ Len(log[s]) = 0 /\ ~Ended(s)
  <2>1. log[s] = <<>>
    BY <1>2, <1>3 DEF Cursor, Unstarted
  <2>2. Len(<<>>) = 0 /\ 1..0 = {}
    OBVIOUS
  <2> QED BY <2>1, <2>2 DEF Ended
<1>6. Pinned(s)'
  BY <1>2, <1>3, <1>4, <1>4, <1>5, OwnTypes DEF LifeInv, Pinned, After, Looping, Before,
       Unstarted, Open, PcStates, BeforePump, PumpStates, FinalStates
<1>7. CASE log' = [log EXCEPT ![s] = Append(@, env)] /\ pc'[s] = "started"
  <2>1. /\ Rows(s)' /\ SentInOrder(s)' /\ (NothingMissing(s) => NothingMissing(s)')
        /\ Len(log[s]) \in Nat /\ Len(log'[s]) = Len(log[s]) + 1 /\ LastKind(s)' = env.d
    <3>1. env.ev # "message" /\ env.ev # "error" /\ env.seq = Len(log[s]) /\ env.ev # "session_ended"
      BY <1>1, <1>5
    <3>2. Len(log[s]) = 0
      BY <1>5
    <3>3. env.seq = 0
      BY <1>1
    <3>4. ~(Len(log[s]) > 0)
      BY <3>2
    <3>5. env.seq >= Len(log[s])
      BY <3>2, <3>3
    <3> QED BY <1>3, <1>1, <1>5, <1>7, <3>1, <3>2, <3>4, <3>5, PersistedOwn
  <2>2. Len(log'[s]) = 1 /\ LastKind(s)' # "big"
    <3>1. LastKind(s)' # "big"
      BY <1>1, <2>1
    <3>2. Len(log'[s]) = 0 + 1
      BY <1>5, <2>1
    <3> QED BY <3>1, <3>2
  <2>3. Cursor(s)'
    BY <1>7, <2>2 DEF Cursor, Unstarted, Unopened, Pumping, DrainStates
  <2>4. Conserved(s)'
    BY <1>2, <1>3, <1>7, <2>1 DEF Conserved, Keeping, Unstarted, Unopened
  <2>5. Settled(s)'
    BY <1>2, <1>3, <1>4, <1>5, <1>7 DEF Settled, Unstarted, Unopened, LifeInv, Before,
         Open, PcStates, BeforePump
  <2> QED BY <1>6, <2>1, <2>3, <2>4, <2>5 DEF Own
<1>8. CASE log' = log /\ pc'[s] = "abort"
  <2>1. Rows(s)' /\ Cursor(s)'
    BY <1>2, <1>8, SameRows DEF Cursor, Unstarted, Unopened, Pumping, DrainStates
  <2>2. Conserved(s)'
    BY <1>2, <1>3, <1>8, SameRows DEF Conserved, Keeping, Unstarted, Unopened, DrainStates
  <2>3. Settled(s)'
    BY <1>2, <1>3, <1>4, <1>8, SameRows DEF Settled, Unstarted, Unopened
  <2> QED BY <1>6, <2>1, <2>2, <2>3 DEF Own
<1> QED BY <1>4, <1>7, <1>8

\* A heartbeat keeps the shape of a transcript and its messages.
LEMMA HeartbeatOwn ==
  ASSUME TypeOK, NEW s \in Sessions, Own(s), LifeInv(s), LifeInv(s)', Heartbeat(s)
  PROVE  Own(s)'
<1>1. Rows(s) /\ Cursor(s) /\ Conserved(s) /\ Pinned(s) /\ Settled(s) /\ ~Ended(s)
  BY DEF Own, Heartbeat, LifeInv, Before, Open, PcStates, PumpStates, FinalStates
<1>2. /\ loop'[s] = "select" /\ nextSeq'[s] = nextSeq[s] + 1 /\ seen'[s] = seen[s]
      /\ got'[s] = got[s] /\ ident'[s] = ident[s] /\ row'[s] = row[s] /\ wire'[s] = wire[s]
      /\ client'[s] = client[s] /\ sent'[s] = sent[s] /\ chan'[s] = chan[s]
      /\ pc[s] = "select" /\ Up' = Up
  BY OwnTypes DEF Heartbeat, connVars, backendVars, procVars, Up
<1>3. PICK env \in EnvelopeSet : /\ env = Envelope(nextSeq[s], "heartbeat", "")
                                 /\ env.seq = nextSeq[s] /\ env.ev = "heartbeat" /\ env.d = ""
  <2>1. Envelope(nextSeq[s], "heartbeat", "") \in EnvelopeSet
    BY OwnTypes DEF Envelope, EnvelopeSet
  <2> QED BY <2>1 DEF Envelope
<1>4. PICK expired \in BOOLEAN : Persist(s, env, expired, 0, "write", "abort")
  BY <1>3 DEF Heartbeat, TypeOK, ConnTypeOK
<1>5. /\ faults' >= faults /\ (faults' = 0 => faults = 0)
      /\ \/ /\ log' = [log EXCEPT ![s] = Append(@, env)] /\ pc'[s] = "write" /\ ~expired
            /\ faults' = 0 => 0 = 0
         \/ /\ log' = log /\ pc'[s] = "abort"
            /\ faults' = 0 => expired
  <2>1. 0 \in {0, 1} /\ "write" \in PcStates /\ "abort" \in PcStates
    BY DEF PcStates, PumpStates, FinalStates
  <2> QED BY <1>4, <2>1, PersistSteps
<1>6. /\ Len(log[s]) \in Nat /\ Len(log[s]) > 0 /\ nextSeq[s] = Len(log[s]) /\ LastKind(s) # "big"
      /\ NothingMissing(s) /\ loop[s] # "drainCtx"
  BY <1>1, <1>2, OwnTypes DEF Cursor, Conserved, Keeping, Pinned, Looping, Pumping
<1>7. Pinned(s)'
  BY <1>1, <1>2, <1>5, <1>6 DEF LifeInv, Pinned, After, Looping, Before, Unstarted,
       Unopened, Open, PcStates, PumpStates, FinalStates
<1>8. CASE log' = [log EXCEPT ![s] = Append(@, env)] /\ pc'[s] = "write"
  <2>1. /\ Rows(s)' /\ SentInOrder(s)' /\ (NothingMissing(s) => NothingMissing(s)')
        /\ Len(log[s]) \in Nat /\ Len(log'[s]) = Len(log[s]) + 1 /\ LastKind(s)' = env.d
    <3>1. /\ env.ev # "message" /\ env.ev # "error" /\ env.ev # "session_ended"
          /\ env.ev # "session_started"
      BY <1>3
    <3>2. env.seq = Len(log[s])
      BY <1>3, <1>6
    <3>3. Len(log[s]) # 0
      BY <1>6
    <3>4. \A k \in Nat : k >= k
      OBVIOUS
    <3>5. env.seq >= Len(log[s])
      BY <1>6, <3>2, <3>4
    <3> QED BY <1>1, <1>2, <1>3, <1>6, <1>8, <3>1, <3>2, <3>3, <3>5, PersistedOwn
  <2>2. Len(log'[s]) > 0 /\ nextSeq'[s] = Len(log'[s])
    BY <1>2, <1>6, <2>1
  <2>3. LastKind(s)' # "big"
    BY <1>3, <2>1
  <2>4. Cursor(s)'
    BY <1>8, <2>2, <2>3 DEF Cursor, Unstarted, Unopened, Pumping, DrainStates
  <2>5. Conserved(s)'
    BY <1>1, <1>2, <1>6, <1>8, <2>1 DEF Conserved, Keeping, Unstarted, Unopened
  <2>6. Settled(s)'
    BY <1>1, <1>2, <1>8 DEF Settled, Unstarted, Unopened, LifeInv, Before, Open, PcStates,
         PumpStates, FinalStates
  <2> QED BY <1>7, <2>1, <2>4, <2>5, <2>6 DEF Own
<1>9. CASE log' = log /\ pc'[s] = "abort"
  <2>1. Rows(s)' /\ Cursor(s)'
    BY <1>1, <1>9, SameRows DEF Cursor, Unstarted, Unopened, Pumping, DrainStates
  <2>2. Conserved(s)'
    BY <1>1, <1>2, <1>9, SameRows DEF Conserved, Keeping, Unstarted, Unopened, DrainStates
  <2>3. Settled(s)'
    BY <1>1, <1>2, <1>5, <1>9, SameRows DEF Settled, Unstarted, Unopened
  <2> QED BY <1>7, <2>1, <2>2, <2>3 DEF Own
<1> QED BY <1>5, <1>8, <1>9

\* So does the row that announces a truncation.
LEMMA TruncationOwn ==
  ASSUME TypeOK, NEW s \in Sessions, Own(s), LifeInv(s), LifeInv(s)', EmitTruncation(s)
  PROVE  Own(s)'
<1>1. Rows(s) /\ Cursor(s) /\ Conserved(s) /\ Pinned(s) /\ Settled(s) /\ ~Ended(s)
  BY DEF Own, EmitTruncation, LifeInv, Before, Open, PcStates, PumpStates, FinalStates
<1>2. /\ loop'[s] = loop[s] /\ nextSeq'[s] = nextSeq[s] + 1 /\ seen'[s] = seen[s]
      /\ got'[s] = got[s] /\ ident'[s] = ident[s] /\ row'[s] = row[s] /\ wire'[s] = wire[s]
      /\ client'[s] = client[s] /\ sent'[s] = sent[s] /\ chan'[s] = chan[s]
      /\ pc[s] = "trunc" /\ Up' = Up
  BY OwnTypes DEF EmitTruncation, connVars, backendVars, procVars, Up
<1>3. PICK env \in EnvelopeSet : /\ env = Envelope(nextSeq[s], "error", "message_truncated")
                                 /\ env.seq = nextSeq[s] /\ env.ev = "error" /\ env.d = "message_truncated"
  <2>1. Envelope(nextSeq[s], "error", "message_truncated") \in EnvelopeSet
    BY OwnTypes DEF Envelope, EnvelopeSet
  <2> QED BY <2>1 DEF Envelope
<1>4. PICK expired \in BOOLEAN : Persist(s, env, expired, 0, "write", OnPersistFailure(loop[s]))
  BY <1>3, StatementExpiredType DEF EmitTruncation
<1>5. /\ faults' >= faults /\ (faults' = 0 => faults = 0)
      /\ \/ /\ log' = [log EXCEPT ![s] = Append(@, env)] /\ pc'[s] = "write" /\ ~expired
            /\ faults' = 0 => 0 = 0
         \/ /\ log' = log /\ pc'[s] = OnPersistFailure(loop[s])
            /\ faults' = 0 => expired
  <2>1. 0 \in {0, 1} /\ "write" \in PcStates /\ OnPersistFailure(loop[s]) \in PcStates
    BY DEF OnPersistFailure, PcStates, PumpStates, FinalStates, WaitStates
  <2> QED BY <1>4, <2>1, PersistSteps
<1>6. /\ Len(log[s]) \in Nat /\ Len(log[s]) > 0 /\ nextSeq[s] = Len(log[s]) /\ LastKind(s) = "big"
      /\ NothingMissing(s)
  BY <1>1, <1>2, OwnTypes DEF Cursor, Conserved, Keeping, Pinned, Looping, Pumping
<1>7. \/ OnPersistFailure(loop[s]) = "awaitCtx" /\ loop[s] = "drainCtx"
      \/ OnPersistFailure(loop[s]) = "abort" /\ loop[s] # "drainCtx"
  BY DEF OnPersistFailure
<1>8. Pinned(s)'
  BY <1>1, <1>2, <1>5, <1>7 DEF LifeInv, Pinned, After, Looping, Before, Unstarted,
       Unopened, Open,
     PcStates, PumpStates, FinalStates, WaitStates
<1>9. CASE log' = [log EXCEPT ![s] = Append(@, env)] /\ pc'[s] = "write"
  <2>1. /\ Rows(s)' /\ SentInOrder(s)' /\ (NothingMissing(s) => NothingMissing(s)')
        /\ Len(log[s]) \in Nat /\ Len(log'[s]) = Len(log[s]) + 1 /\ LastKind(s)' = env.d
    <3>1. /\ env.ev # "message" /\ env.ev # "session_ended" /\ env.ev # "session_started"
      BY <1>3
    <3>2. env.seq = Len(log[s]) /\ env.seq >= Len(log[s]) /\ Len(log[s]) # 0
      BY <1>3, <1>6
    <3> QED BY <1>1, <1>2, <1>3, <1>6, <1>9, <3>1, <3>2, PersistedOwn
  <2>2. Len(log'[s]) > 0 /\ nextSeq'[s] = Len(log'[s])
    BY <1>2, <1>6, <2>1
  <2>3. LastKind(s)' # "big"
    BY <1>3, <2>1
  <2>4. Cursor(s)'
    BY <1>9, <2>2, <2>3 DEF Cursor, Unstarted, Unopened, Pumping, DrainStates
  <2>5. Conserved(s)'
    BY <1>1, <1>2, <1>6, <1>9, <2>1 DEF Conserved, Keeping, Unstarted, Unopened
  <2>6. Settled(s)'
    BY <1>1, <1>2, <1>9 DEF Settled, Unstarted, Unopened, LifeInv, Before, Open, PcStates,
         PumpStates, FinalStates
  <2> QED BY <1>8, <2>1, <2>4, <2>5, <2>6 DEF Own
<1>10. CASE log' = log /\ pc'[s] = OnPersistFailure(loop[s])
  <2>1. Rows(s)' /\ Cursor(s)'
    BY <1>1, <1>2, <1>6, <1>7, <1>10, SameRows DEF Cursor, Unstarted, Unopened, Pumping,
         DrainStates
  <2>2. Conserved(s)'
    BY <1>1, <1>2, <1>7, <1>10, SameRows DEF Conserved, Keeping, Unstarted, Unopened,
         DrainStates
  <2>3. Settled(s)'
    BY <1>1, <1>2, <1>5, <1>7, <1>10, SameRows DEF Settled, Unstarted, Unopened
  <2> QED BY <1>8, <2>1, <2>2, <2>3 DEF Own
<1> QED BY <1>5, <1>9, <1>10

\* A message that is received is the next of those sent.
LEMMA TakenOwn ==
  ASSUME TypeOK, NEW s \in Sessions, Own(s), LifeInv(s), LifeInv(s)', TakeMessage(s)
  PROVE  Own(s)'
<1> DEFINE m    == Head(chan[s])
           pins == m = "ident" /\ ~seen[s]
           next == IF m = "big" THEN "writeBig" ELSE "write"
<1>1. Rows(s) /\ Cursor(s) /\ Conserved(s) /\ Pinned(s) /\ Settled(s) /\ ~Ended(s)
  BY DEF Own, TakeMessage, LifeInv, Before, Open, PcStates, PumpStates, FinalStates,
       DrainStates
<1>2. /\ loop'[s] = pc[s] /\ nextSeq'[s] = nextSeq[s] + 1 /\ seen'[s] = (seen[s] \/ pins)
      /\ got'[s] = got[s] /\ row'[s] = row[s] /\ wire'[s] = wire[s]
      /\ client'[s] = client[s] /\ sent'[s] = sent[s] /\ chan'[s] = Tail(chan[s])
      /\ chan[s] # <<>> /\ pc[s] \in {"select", "drainCtx", "drainRes"} /\ Up' = Up
  BY OwnTypes DEF TakeMessage, connVars, procVars, Up, DrainStates
<1>3. m \in MessageKinds
  BY <1>2, OwnTypes, SeqType
<1>4. PICK env \in EnvelopeSet : /\ env = Envelope(nextSeq[s], "message", m)
                                 /\ env.seq = nextSeq[s] /\ env.ev = "message" /\ env.d = m
  <2> HIDE DEF m
  <2>1. Envelope(nextSeq[s], "message", m) \in EnvelopeSet
    BY <1>3, OwnTypes DEF Envelope, EnvelopeSet
  <2> QED BY <2>1 DEF Envelope
<1>5. PICK expired \in StatementExpired(s, pc[s]) :
        \E spent \in PinFaults(pins, expired) :
          /\ PinIdent(s, "message", pins, expired, spent)
          /\ Persist(s, env, expired, spent, next, OnPersistFailure(pc[s]))
  BY <1>4 DEF TakeMessage
<1>6. PICK spent \in PinFaults(pins, expired) :
        /\ PinIdent(s, "message", pins, expired, spent)
        /\ Persist(s, env, expired, spent, next, OnPersistFailure(pc[s]))
  BY <1>5
<1>7. expired \in BOOLEAN /\ spent \in {0, 1}
  <2>1. expired \in BOOLEAN
    BY StatementExpiredType
  <2> QED BY <2>1 DEF PinFaults
<1>8. ident'[s] = IF pins /\ ~expired /\ spent = 0 THEN "message" ELSE ident[s]
  <2> HIDE DEF pins
  <2> QED BY <1>6, OwnTypes DEF PinIdent
<1>9. /\ faults' >= faults /\ (faults' = 0 => faults = 0)
      /\ \/ /\ log' = [log EXCEPT ![s] = Append(@, env)] /\ pc'[s] = next /\ ~expired
            /\ faults' = 0 => spent = 0
         \/ /\ log' = log /\ pc'[s] = OnPersistFailure(pc[s])
            /\ faults' = 0 => expired
  <2>1. next \in PcStates /\ OnPersistFailure(pc[s]) \in PcStates
    BY DEF OnPersistFailure, PcStates, PumpStates, FinalStates, WaitStates
  <2> HIDE DEF next
  <2> QED BY <1>6, <1>7, <2>1, PersistSteps
<1>10. /\ Len(log[s]) \in Nat /\ Len(log[s]) > 0 /\ nextSeq[s] = Len(log[s]) /\ LastKind(s) # "big"
       /\ NothingMissing(s) /\ SentInOrder(s)
  BY <1>1, <1>2, OwnTypes DEF Cursor, Conserved, Keeping, Pumping, DrainStates
<1>11. /\ next \in {"write", "writeBig"} /\ (next = "writeBig" <=> m = "big")
       /\ \/ OnPersistFailure(pc[s]) = "awaitCtx" /\ pc[s] = "drainCtx"
          \/ OnPersistFailure(pc[s]) = "abort" /\ pc[s] # "drainCtx"
  BY DEF OnPersistFailure
<1> HIDE DEF m, pins, next
<1>12. ~Ended(s)'
  BY <1>9, <1>11 DEF LifeInv, Before, Open, PcStates, PumpStates, FinalStates, WaitStates
<1>13. Pinned(s)'
  <2>1. Looping(s)'
    BY <1>2, <1>9, <1>11 DEF Looping, Unstarted, Unopened
  <2>2. ident'[s] # "result" /\ (ident'[s] = "message" => seen'[s])
    BY <1>1, <1>2, <1>8 DEF Pinned, After
  <2>3. ASSUME faults' = 0, loop'[s] # "drainCtx", seen'[s], ident'[s] # "message"
        PROVE  pc'[s] = "abort"
    <3>1. ~(seen[s] /\ ident[s] # "message")
      BY <1>1, <1>2, <1>8, <1>9, <2>3 DEF Pinned, Looping
    <3>2. pins /\ (expired \/ spent # 0)
      BY <1>2, <1>8, <2>3, <3>1
    <3> QED BY <1>2, <1>9, <1>11, <2>3, <3>2
  <2>4. pc'[s] \notin {"pin", "emit"}
    BY <1>9, <1>11
  <2> QED BY <1>12, <2>1, <2>2, <2>3, <2>4 DEF Pinned
<1>14. CASE log' = [log EXCEPT ![s] = Append(@, env)] /\ pc'[s] = next
  <2>1. Rows(s)'
    <3>1. env.seq \in Nat /\ env.ev # "error" /\ env.ev # "session_ended" /\ env.ev # "session_started"
      BY <1>4, <1>10
    <3>2. env.seq = Len(log[s])
      BY <1>4, <1>10
    <3>3. Len(log[s]) # 0
      BY <1>10
    <3>4. \A k \in Nat : k >= k
      OBVIOUS
    <3>5. env.seq >= Len(log[s])
      BY <1>10, <3>2, <3>4
    <3> QED BY <1>1, <1>10, <1>14, <3>1, <3>2, <3>3, <3>5, RowsAppend
  <2>2. SentInOrder(s)' /\ NothingMissing(s)'
    <3>1. env.ev = "message" /\ env.d = Head(chan[s])
      BY <1>4 DEF m
    <3> QED BY <1>2, <1>10, <1>14, <3>1, TakeAppend
  <2>3. Len(log'[s]) = Len(log[s]) + 1 /\ LastKind(s)' = m
    <3>1. Len(log'[s]) = Len(log[s]) + 1 /\ log'[s][Len(log[s]) + 1] = env
      BY <1>14, AppendRow
    <3>2. log'[s][Len(log'[s])] = env
      BY <3>1
    <3> QED BY <1>4, <3>1, <3>2 DEF LastKind
  <2>4. Len(log'[s]) > 0 /\ nextSeq'[s] = Len(log'[s])
    BY <1>2, <1>10, <2>3
  <2>5. Cursor(s)'
    BY <1>11, <1>14, <2>3, <2>4 DEF Cursor, Unstarted, Unopened, Pumping, DrainStates
  <2>6. Conserved(s)'
    BY <1>11, <1>14, <2>2 DEF Conserved, Unopened
  <2>7. Settled(s)'
    BY <1>1, <1>2, <1>9, <1>11, <1>14 DEF Settled, Unstarted, Unopened, LifeInv, Before,
         Open, PcStates, PumpStates, FinalStates
  <2> QED BY <1>13, <2>1, <2>5, <2>6, <2>7 DEF Own
<1>15. CASE log' = log /\ pc'[s] = OnPersistFailure(pc[s])
  <2>1. Rows(s)' /\ Cursor(s)'
    <3>1. Len(log'[s]) > 0 /\ nextSeq'[s] >= Len(log'[s])
      BY <1>2, <1>10, <1>15
    <3> QED BY <1>1, <1>11, <1>15, <3>1, SameRows DEF Cursor, Unstarted, Unopened, Pumping,
         DrainStates
  <2>2. Conserved(s)'
    BY <1>10, <1>2, <1>11, <1>15, SameRows DEF Conserved, Keeping, Unstarted, Unopened,
         DrainStates
  <2>3. Settled(s)'
    BY <1>1, <1>2, <1>9, <1>11, <1>15, SameRows DEF Settled, Unstarted, Unopened
  <2> QED BY <1>13, <2>1, <2>2, <2>3 DEF Own
<1> QED BY <1>9, <1>14, <1>15

\* The row session_ended is the last, and nothing is missing before it.
LEMMA EndedOwn ==
  ASSUME TypeOK, NEW s \in Sessions, Own(s), LifeInv(s), LifeInv(s)', EmitEnded(s)
  PROVE  Own(s)'
<1>1. Rows(s) /\ Cursor(s) /\ Conserved(s) /\ Pinned(s) /\ Settled(s) /\ ~Ended(s)
  BY DEF Own, EmitEnded, LifeInv, Before, Open, PcStates, PumpStates, FinalStates
<1>2. /\ loop'[s] = loop[s] /\ nextSeq'[s] = nextSeq[s] + 1 /\ seen'[s] = seen[s]
      /\ got'[s] = got[s] /\ row'[s] = row[s] /\ wire'[s] = wire[s]
      /\ ident'[s] = ident[s]
      /\ client'[s] = client[s] /\ sent'[s] = sent[s] /\ chan'[s] = chan[s]
      /\ pc[s] = "emit" /\ Up' = Up
  BY OwnTypes DEF EmitEnded, connVars, backendVars, procVars, Up
<1>3. PICK env \in EnvelopeSet : /\ env = Envelope(nextSeq[s], "session_ended", got[s].status)
                                 /\ env.seq = nextSeq[s] /\ env.ev = "session_ended"
                                 /\ env.d = got[s].status
  <2>1. Envelope(nextSeq[s], "session_ended", got[s].status) \in EnvelopeSet
    BY OwnTypes DEF Envelope, EnvelopeSet, RawStatus, RowStatus
  <2> QED BY <2>1 DEF Envelope
<1>4. Persist(s, env, FALSE, 0, "writeEnd", "abort")
  BY <1>3 DEF EmitEnded
<1>5. /\ faults' >= faults /\ (faults' = 0 => faults = 0)
      /\ \/ log' = [log EXCEPT ![s] = Append(@, env)] /\ pc'[s] = "writeEnd"
         \/ log' = log /\ pc'[s] = "abort" /\ faults' # 0
  <2>1. /\ "writeEnd" \in PcStates /\ "abort" \in PcStates /\ FALSE \in BOOLEAN
        /\ 0 \in {0, 1}
    BY DEF PcStates, PumpStates, FinalStates
  <2>2. /\ faults' >= faults /\ (faults' = 0 => faults = 0)
        /\ \/ /\ log' = [log EXCEPT ![s] = Append(@, env)] /\ pc'[s] = "writeEnd" /\ ~FALSE
              /\ faults' = 0 => 0 = 0
           \/ /\ log' = log /\ pc'[s] = "abort"
              /\ faults' = 0 => FALSE
    BY <1>4, <2>1, PersistSteps
  <2> QED BY <2>2
<1>6. /\ Len(log[s]) \in Nat /\ Len(log[s]) > 0 /\ nextSeq[s] \in Nat /\ nextSeq[s] >= Len(log[s])
      /\ (loop[s] # "drainCtx" => NothingMissing(s))
  BY <1>1, <1>2, OwnTypes DEF Cursor, Conserved, Keeping
<1>7. CASE log' = [log EXCEPT ![s] = Append(@, env)] /\ pc'[s] = "writeEnd"
  <2>1. /\ Rows(s)' /\ SentInOrder(s)' /\ (NothingMissing(s) => NothingMissing(s)')
        /\ Len(log[s]) \in Nat /\ Len(log'[s]) = Len(log[s]) + 1 /\ LastKind(s)' = env.d
    <3>1. env.ev # "message" /\ env.ev # "error" /\ env.ev # "session_started"
      BY <1>3
    <3>2. Len(log[s]) # 0
      BY <1>6
    <3>3. env.seq >= Len(log[s])
      BY <1>3, <1>6
    <3> QED BY <1>1, <1>2, <1>3, <1>6, <1>7, <3>1, <3>2, <3>3, PersistedOwn
  <2>2. Cursor(s)'
    BY <1>7 DEF Cursor, Unstarted, Unopened, Pumping, DrainStates
  <2>3. Conserved(s)'
    BY <1>1, <1>2, <1>6, <1>7, <2>1 DEF Conserved, Keeping, Unstarted, Unopened, DrainStates
  <2>4. Pinned(s)'
    <3>1. Looping(s)'
      BY <1>7 DEF Looping, Unstarted, Unopened
    <3>2. faults' = 0 /\ loop'[s] # "drainCtx" /\ seen'[s] => ident'[s] = "message"
      BY <1>1, <1>2, <1>5 DEF Pinned
    <3>3. faults' = 0 /\ ~seen'[s] /\ got'[s].id => ident'[s] = "result"
      BY <1>1, <1>2, <1>5 DEF Pinned
    <3>4. /\ ident'[s] = "message" => seen'[s]
          /\ ident'[s] = "result" => ~seen'[s] /\ got'[s].id /\ pc'[s] \in After
      BY <1>1, <1>2, <1>7 DEF Pinned, After
    <3> QED BY <1>7, <3>1, <3>2, <3>3, <3>4 DEF Pinned
  <2>5. Settled(s)'
    BY <1>1, <1>2, <1>7 DEF Settled, Unstarted, Unopened, LifeInv, Before, Open, PcStates,
         PumpStates, FinalStates
  <2> QED BY <2>1, <2>2, <2>3, <2>4, <2>5 DEF Own
<1>8. CASE log' = log /\ pc'[s] = "abort" /\ faults' # 0
  <2>1. Rows(s)' /\ Cursor(s)'
    BY <1>1, <1>8, SameRows DEF Cursor, Unstarted, Unopened, Pumping, DrainStates
  <2>2. Conserved(s)'
    BY <1>1, <1>2, <1>8, SameRows DEF Conserved, Keeping, Unstarted, Unopened, DrainStates
  <2>3. Settled(s)'
    BY <1>1, <1>2, <1>5, <1>8, SameRows DEF Settled, Unstarted, Unopened
  <2>4. Pinned(s)'
    BY <1>1, <1>2, <1>8 DEF Pinned, After, Looping, Unstarted, Unopened
  <2> QED BY <2>1, <2>2, <2>3, <2>4 DEF Own
<1> QED BY <1>5, <1>7, <1>8

-----------------------------------------------------------------------------
(* The other sessions, and the daemon.                                     *)

\* What session q has is as it was.
Untouched(q) ==
  /\ row'[q] = row[q] /\ ident'[q] = ident[q] /\ log'[q] = log[q] /\ pc'[q] = pc[q]
  /\ loop'[q] = loop[q] /\ nextSeq'[q] = nextSeq[q] /\ seen'[q] = seen[q]
  /\ got'[q] = got[q] /\ client'[q] = client[q] /\ wire'[q] = wire[q]
  /\ sent'[q] = sent[q] /\ chan'[q] = chan[q]

\* A step of session s is its own; only the INSERT of a request that has
\* arrived makes a row `running`, and no step marks a session.
LEMMA SessionStays ==
  ASSUME TypeOK, TypeOK', NEW s \in Sessions, LifeInv(s), SessionStep(s)
  PROVE  /\ \A q \in Sessions : q # s => Untouched(q)
         /\ faults' >= faults /\ UNCHANGED daemon
         /\ row'[s] = "running" => row[s] = "running" \/ pc[s] = "arrived"
         /\ shutdownIDs' \subseteq shutdownIDs
<1>1. /\ faults \in Nat /\ faults' \in Nat
  BY DEF TypeOK, DbTypeOK
<1>2. CASE Begin(s)
  BY <1>2, <1>1, OwnTypes DEF Begin, Untouched, Goto, Fault, connVars, backendVars,
       regVars, procVars
<1>3. CASE Register(s)
  BY <1>3, <1>1, OwnTypes DEF Register, Untouched, Goto, Deliver, SetRow, Fault, dbVars,
       pumpVars, connVars, backendVars, regVars, procVars
<1>4. CASE Execute(s)
  BY <1>4, <1>1, OwnTypes DEF Execute, Untouched, Goto, Deliver, SetRow, Fault, dbVars,
       pumpVars, connVars, backendVars, regVars, procVars
<1>5. CASE PersistStarted(s)
  <2>1. UNCHANGED <<row, got, client, wire, sent, daemon, shutdownIDs>> /\ \A q \in Sessions : q # s =>
          /\ ident'[q] = ident[q] /\ loop'[q] = loop[q] /\ nextSeq'[q] = nextSeq[q]
          /\ seen'[q] = seen[q] /\ chan'[q] = chan[q]
    BY <1>5, OwnTypes DEF PersistStarted, PinIdent, connVars, backendVars, regVars, procVars
  <2>2. \A q \in Sessions : q # s => log'[q] = log[q] /\ pc'[q] = pc[q]
    BY <1>5, OwnTypes DEF PersistStarted, Persist
  <2>3. faults' = faults + 0 \/ faults' = faults + 0 + 0 \/ faults' = faults + 0 + 1
    BY <1>5 DEF PersistStarted, Persist
  <2>4. faults' >= faults
    BY <1>1, <2>3
  <2> QED BY <2>1, <2>2, <2>4 DEF Untouched
<1>6. CASE WriteStarted(s)
  BY <1>6, <1>1, OwnTypes DEF WriteStarted, Untouched, Goto, Deliver, SetRow, Fault,
       dbVars, pumpVars, connVars, backendVars, regVars, procVars
<1>7. CASE Heartbeat(s)
  <2>1. UNCHANGED <<row, got, client, wire, sent, daemon, shutdownIDs>> /\ \A q \in Sessions : q # s =>
          /\ ident'[q] = ident[q] /\ loop'[q] = loop[q] /\ nextSeq'[q] = nextSeq[q]
          /\ seen'[q] = seen[q] /\ chan'[q] = chan[q]
    BY <1>7, OwnTypes DEF Heartbeat, PinIdent, connVars, backendVars, regVars, procVars
  <2>2. \A q \in Sessions : q # s => log'[q] = log[q] /\ pc'[q] = pc[q]
    BY <1>7, OwnTypes DEF Heartbeat, Persist
  <2>3. faults' = faults + 0 \/ faults' = faults + 0 + 0 \/ faults' = faults + 0 + 1
    BY <1>7 DEF Heartbeat, Persist
  <2>4. faults' >= faults
    BY <1>1, <2>3
  <2> QED BY <2>1, <2>2, <2>4 DEF Untouched
<1>8. CASE TakeMessage(s)
  <2>1. UNCHANGED <<row, got, client, wire, sent, daemon, shutdownIDs>> /\ \A q \in Sessions : q # s =>
          /\ ident'[q] = ident[q] /\ loop'[q] = loop[q] /\ nextSeq'[q] = nextSeq[q]
          /\ seen'[q] = seen[q] /\ chan'[q] = chan[q]
    BY <1>8, OwnTypes DEF TakeMessage, PinIdent, connVars, backendVars, regVars, procVars
  <2>2. (\A q \in Sessions : q # s => log'[q] = log[q] /\ pc'[q] = pc[q]) /\ faults' >= faults
    BY <1>8, <1>1, OwnTypes DEF TakeMessage, Persist, PinFaults
  <2> QED BY <2>1, <2>2 DEF Untouched
<1>9. CASE EmitTruncation(s)
  <2>1. UNCHANGED <<row, got, client, wire, sent, daemon, shutdownIDs>> /\ \A q \in Sessions : q # s =>
          /\ ident'[q] = ident[q] /\ loop'[q] = loop[q] /\ nextSeq'[q] = nextSeq[q]
          /\ seen'[q] = seen[q] /\ chan'[q] = chan[q]
    BY <1>9, OwnTypes DEF EmitTruncation, PinIdent, connVars, backendVars, regVars, procVars
  <2>2. (\A q \in Sessions : q # s => log'[q] = log[q] /\ pc'[q] = pc[q]) /\ faults' >= faults
    BY <1>9, <1>1, OwnTypes DEF EmitTruncation, Persist, PinFaults
  <2> QED BY <2>1, <2>2 DEF Untouched
<1>10. CASE WriteEnvelope(s)
  BY <1>10, <1>1, OwnTypes DEF WriteEnvelope, Untouched, Goto, Deliver, SetRow, Fault,
       dbVars, pumpVars, connVars, backendVars, regVars, procVars
<1>11. CASE PumpCancelled(s)
  BY <1>11, <1>1, OwnTypes DEF PumpCancelled, Untouched, Goto, Deliver, SetRow, Fault,
       dbVars, pumpVars, connVars, backendVars, regVars, procVars
<1>12. CASE PumpClosed(s)
  BY <1>12, <1>1, OwnTypes DEF PumpClosed, Untouched, Goto, Deliver, SetRow, Fault, dbVars,
       pumpVars, connVars, backendVars, regVars, procVars
<1>13. CASE PumpResult(s)
  BY <1>13, <1>1, OwnTypes DEF PumpResult, Untouched, Goto, Deliver, SetRow, Fault, dbVars,
       pumpVars, connVars, backendVars, regVars, procVars
<1>14. CASE DrainEnd(s)
  BY <1>14, <1>1, OwnTypes DEF DrainEnd, Untouched, Goto, Deliver, SetRow, Fault, dbVars,
       pumpVars, connVars, backendVars, regVars, procVars
<1>15. CASE TakeResult(s)
  BY <1>15, <1>1, OwnTypes DEF TakeResult, Untouched, Goto, Deliver, SetRow, Fault, dbVars,
       pumpVars, connVars, backendVars, regVars, procVars
<1>16. CASE EmitEnded(s)
  <2>1. UNCHANGED <<row, got, client, wire, sent, daemon, shutdownIDs>> /\ \A q \in Sessions : q # s =>
          /\ ident'[q] = ident[q] /\ loop'[q] = loop[q] /\ nextSeq'[q] = nextSeq[q]
          /\ seen'[q] = seen[q] /\ chan'[q] = chan[q]
    BY <1>16, OwnTypes DEF EmitEnded, PinIdent, connVars, backendVars, regVars, procVars
  <2>2. (\A q \in Sessions : q # s => log'[q] = log[q] /\ pc'[q] = pc[q]) /\ faults' >= faults
    BY <1>16, <1>1, OwnTypes DEF EmitEnded, Persist, PinFaults
  <2> QED BY <2>1, <2>2 DEF Untouched
<1>17. CASE WriteEnded(s)
  BY <1>17, <1>1, OwnTypes DEF WriteEnded, Untouched, Goto, Deliver, SetRow, Fault, dbVars,
       pumpVars, connVars, backendVars, regVars, procVars
<1>18. CASE UpdateRow(s)
  <2>1. EndedStatus(s) # "running"
    BY <1>18 DEF UpdateRow, LifeInv, Closed, Terminal
  <2> QED BY <1>18, <1>1, <2>1, OwnTypes DEF UpdateRow, Untouched, EndedStatus, Goto,
       SetRow, Fault,
         connVars, backendVars, regVars, procVars
<1>19. CASE AbortStream(s)
  BY <1>19, <1>1, OwnTypes DEF AbortStream, Untouched, Goto, Deliver, SetRow, Fault,
       dbVars, pumpVars, connVars, backendVars, regVars, procVars
<1>20. CASE Exit(s)
  BY <1>20, <1>1, OwnTypes DEF Exit, Untouched, Goto, Deliver, SetRow, Fault, dbVars,
       pumpVars, connVars, backendVars, regVars, procVars
<1>21. CASE Discard(s)
  BY <1>21, <1>1, OwnTypes DEF Discard, Untouched, Goto, Deliver, SetRow, Fault, dbVars,
       pumpVars, connVars, backendVars, regVars, procVars
<1>22. CASE Send(s)
  BY <1>22, <1>1, OwnTypes DEF Send, Untouched, Goto, Deliver, SetRow, Fault, dbVars,
       pumpVars, connVars, backendVars, regVars, procVars
<1>23. CASE Finish(s)
  BY <1>23, <1>1, OwnTypes DEF Finish, Untouched, Goto, Deliver, SetRow, Fault, dbVars,
       pumpVars, connVars, backendVars, regVars, procVars
<1>24. CASE CloseMessages(s)
  BY <1>24, <1>1, OwnTypes DEF CloseMessages, Untouched, Goto, Deliver, SetRow, Fault,
       dbVars, pumpVars, connVars, backendVars, regVars, procVars
<1>25. CASE ClientGone(s)
  BY <1>25, <1>1, OwnTypes DEF ClientGone, Untouched, Goto, Deliver, SetRow, Fault, dbVars,
       pumpVars, connVars, backendVars, regVars, procVars
<1>26. CASE NoticeGone(s)
  BY <1>26, <1>1, OwnTypes DEF NoticeGone, Untouched, Goto, Deliver, SetRow, Fault, dbVars,
       pumpVars, connVars, backendVars, regVars, procVars
<1>27. CASE Arrive(s)
  BY <1>27, <1>1, OwnTypes DEF Arrive, Untouched, Goto, dbVars, connVars, backendVars,
       regVars, procVars
<1>28. CASE Decide(s)
  BY <1>28, <1>1, OwnTypes DEF Decide, Untouched, Goto, dbVars, connVars, backendVars,
       regVars, procVars
<1>29. CASE PinFinal(s)
  <2>1. UNCHANGED <<row, log, got, client, wire, sent, daemon, shutdownIDs>> /\ \A q \in Sessions : q # s =>
          /\ ident'[q] = ident[q] /\ loop'[q] = loop[q] /\ nextSeq'[q] = nextSeq[q]
          /\ seen'[q] = seen[q] /\ chan'[q] = chan[q] /\ pc'[q] = pc[q]
    BY <1>29, OwnTypes DEF PinFinal, PinIdent, Goto, connVars, backendVars, regVars,
         procVars
  <2>2. faults' >= faults
    BY <1>29, <1>1 DEF PinFinal, PinFaults
  <2> QED BY <2>1, <2>2 DEF Untouched
<1> QED BY <1>2, <1>3, <1>4, <1>5, <1>6, <1>7, <1>8, <1>9, <1>10, <1>11, <1>12, <1>13,
     <1>14, <1>15, <1>16, <1>17, <1>18, <1>19, <1>20, <1>21, <1>22, <1>23, <1>24, <1>25,
     <1>26,
           <1>27, <1>28, <1>29
  DEF SessionStep, HandlerStep, BackendStep

\* A session that a step leaves alone, its row swept or not.
LEMMA UntouchedOwn ==
  ASSUME TypeOK, TypeOK', NEW s \in Sessions, Own(s), Untouched(s), faults' >= faults,
         Up' = Up
  PROVE  Own(s)'
<1>1. faults \in Nat /\ faults' \in Nat
  BY DEF TypeOK, DbTypeOK
<1>2. Rows(s)' /\ Conserved(s)'
  BY SameRows DEF Own, Untouched, Conserved, Keeping
<1>3. Cursor(s)' /\ Pinned(s)' /\ Settled(s)'
  BY <1>1, SameRows DEF Own, Untouched, Cursor, Pinned, After, Looping, Settled
<1> QED BY <1>2, <1>3 DEF Own

\* A sweep leaves the transcript, and no running row.
LEMMA SweptOwn ==
  ASSUME TypeOK, NEW s \in Sessions, Own(s), row' = Swept,
         UNCHANGED <<ident, log, faults, pumpVars, client, wire, sent, chan>>
  PROVE  Own(s)' /\ row'[s] # "running"
<1>1. \/ row[s] = "running" /\ row'[s] = "aborted"
      \/ row[s] # "running" /\ row'[s] = row[s]
  BY DEF Swept
<1>2. Rows(s)' /\ Conserved(s)'
  BY SameRows DEF Own, Conserved, Keeping, pumpVars
<1>3. Cursor(s)' /\ Pinned(s)'
  BY SameRows DEF Own, Cursor, Pinned, After, Looping, pumpVars
<1>4. Settled(s)'
  BY <1>1, SameRows DEF Own, Settled, pumpVars
<1> QED BY <1>1, <1>2, <1>3, <1>4 DEF Own

\* The process is gone, and with it what was queued.
LEMMA LostOwn ==
  ASSUME TypeOK, NEW s \in Sessions, Own(s), LifeInv(s), ProcessGone
  PROVE  Own(s)'
<1>1. /\ UNCHANGED <<row, ident, log, faults, loop, nextSeq, seen, got, client, wire, sent>>
      /\ ~Up' /\ chan'[s] = <<>>
      /\ \/ Live(s) /\ pc'[s] = "lost"
         \/ pc[s] \in {"idle", "done", "lost"} /\ pc'[s] = pc[s]
         \/ pc[s] = "arrived" /\ pc'[s] = "idle"
  BY DEF ProcessGone, dbVars, connVars, Up, Live
<1>2. Rows(s)' /\ Cursor(s)'
  BY <1>1, SameRows DEF Own, Cursor, Unstarted, Unopened, Pumping, DrainStates
<1>3. Conserved(s)'
  <2>1. SentInOrder(s)'
    BY <1>1, SameRows DEF Own, Conserved
  <2>2. CASE pc[s] \in {"idle", "arrived"}
    <3>1. sent[s] = <<>> /\ NothingMissing(s)
      BY <2>2 DEF Own, Conserved, Keeping, Unstarted, Unopened
    <3>2. /\ MessagesAmong(s, Len(log[s])) \in Nat /\ Len(chan[s]) \in Nat /\ Len(sent[s]) = 0
          /\ MessagesAmong(s, Len(log[s])) + Len(chan[s]) = Len(sent[s])
      BY <3>1, OwnTypes, AmongType DEF NothingMissing
    <3>3. MessagesAmong(s, Len(log[s])) = 0
      <4>1. \A m, c \in Nat : m + c = 0 => m = 0
        OBVIOUS
      <4> QED BY <3>2, <4>1
    <3>4. MessagesAmong(s, Len(log[s]))' = 0
      BY <1>1, <3>3 DEF MessagesAmong
    <3>5. Len(chan'[s]) = 0 /\ Len(sent'[s]) = 0
      BY <1>1, <3>2
    <3>6. NothingMissing(s)'
      BY <3>4, <3>5 DEF NothingMissing
    <3> QED BY <1>1, <2>1, <3>1, <3>6 DEF Conserved
  <2>3. CASE pc[s] \notin {"idle", "arrived"}
    BY <1>1, <2>1, <2>3 DEF Conserved, Keeping, Unstarted, Unopened, DrainStates
  <2> QED BY <2>2, <2>3
<1>4. Pinned(s)'
  BY <1>1, SameRows DEF Own, Pinned, After, Looping, Unstarted, Unopened
<1>5. Settled(s)'
  BY <1>1, SameRows DEF Own, Settled, Unstarted, Unopened
<1> QED BY <1>2, <1>3, <1>4, <1>5 DEF Own

\* Every step keeps what the invariant says of a session.
LEMMA OwnStep ==
  ASSUME TypeOK, TypeOK', LifeOK, LifeOK', NEW s \in Sessions, Own(s), [Next]_vars
  PROVE  Own(s)'
<1>1. LifeInv(s) /\ LifeInv(s)'
  BY DEF LifeOK
<1>2. ASSUME SessionStep(s) PROVE Own(s)'
  <2>1. UNCHANGED daemon
    BY <1>1, <1>2, SessionStays
  <2> QED BY <1>1, <1>2, <2>1, QuietOwn, StartedOwn, HeartbeatOwn, TakenOwn, TruncationOwn,
            EndedOwn, SendOwn
       DEF SessionStep, HandlerStep, BackendStep
<1>3. ASSUME NEW q \in Sessions, q # s, SessionStep(q) PROVE Own(s)'
  <2>1. Untouched(s) /\ faults' >= faults /\ Up' = Up
    BY <1>3, SessionStays DEF LifeOK, Up
  <2> QED BY <2>1, UntouchedOwn
<1>4. faults \in Nat /\ \A n \in Nat : n >= n /\ n + 1 >= n
  BY DEF TypeOK, DbTypeOK
<1>5. ASSUME UNCHANGED <<row, ident, log, pumpVars, client, wire, sent, chan>>,
             faults' >= faults, Up' = Up
      PROVE  Own(s)'
  BY <1>5, UntouchedOwn DEF Untouched, pumpVars
<1>6. ASSUME UNCHANGED <<dbVars, pumpVars, client, wire, sent, chan>>, Up' = Up
      PROVE  Own(s)'
  BY <1>4, <1>5, <1>6 DEF dbVars
<1>7. ASSUME NEW c \in Cancels, NEW q \in Sessions, CancelArrive(c, q) \/ CancelRead(c) PROVE Own(s)'
  BY <1>6, <1>7 DEF CancelArrive, CancelRead, connVars, backendVars, procVars, Up
<1>8. ASSUME NEW c \in Cancels, CancelFire(c) PROVE Own(s)'
  BY <1>6, <1>8 DEF CancelFire, backendVars, procVars, Up
<1>9. CASE Signal \/ CancelAll \/ ServeReturns
  BY <1>6, <1>9 DEF Signal, CancelAll, ServeReturns, connVars, backendVars, Up
<1>10. CASE ExitSweep
  <2>1. UNCHANGED <<ident, log, pumpVars, client, wire, sent, chan>> /\ Up' = Up
    BY <1>10 DEF ExitSweep, connVars, backendVars, Up
  <2>2. CASE row' = Swept /\ UNCHANGED faults
    BY <2>1, <2>2, SweptOwn
  <2>3. CASE Fault /\ UNCHANGED row
    BY <1>4, <1>5, <2>1, <2>3 DEF Fault
  <2> QED BY <1>10, <2>2, <2>3 DEF ExitSweep
<1>11. CASE Restart \/ SecondServe
  BY <1>11, SweptOwn DEF Restart, SecondServe, connVars, backendVars
<1>12. CASE Quit \/ Crash
  BY <1>1, <1>12, LostOwn DEF Quit, Crash
<1>13. CASE UNCHANGED vars
  BY <1>6, <1>13 DEF vars, connVars, backendVars, procVars, Up
<1> QED BY <1>2, <1>3, <1>7, <1>8, <1>9, <1>10, <1>11, <1>12, <1>13 DEF Next, DaemonStep

\* Only the sweep of a clean exit makes the daemon `swept`; a row inserted
\* after it is of a session that CancelAll has not marked.
LEMMA SweptStep ==
  ASSUME TypeOK, TypeOK', LifeOK, CInv, SweptOK, [Next]_vars
  PROVE  SweptOK'
<1> SUFFICES ASSUME daemon' = "swept", faults' = 0, NEW q \in Sessions, q \in shutdownIDs'
             PROVE  row'[q] # "running"
  BY DEF SweptOK, TypeOK, DaemonTypeOK
<1>1. faults \in Nat
  BY DEF TypeOK, DbTypeOK
<1>2. ASSUME NEW s \in Sessions, SessionStep(s) PROVE row'[q] # "running"
  <2>1. /\ q # s => Untouched(q)
        /\ faults' >= faults /\ UNCHANGED daemon
        /\ row'[s] = "running" => row[s] = "running" \/ pc[s] = "arrived"
        /\ shutdownIDs' \subseteq shutdownIDs
    BY <1>2, SessionStays DEF LifeOK
  <2>2. faults = 0 /\ daemon = "swept"
    BY <1>1, <2>1
  <2>3. q \in shutdownIDs /\ pc[q] # "arrived"
    BY <2>1 DEF CInv, Registered, Marked, Unregistered
  <2> QED BY <2>1, <2>2, <2>3 DEF SweptOK, Untouched
<1>3. ASSUME NEW s \in Sessions, NEW c \in Cancels, CancelArrive(c, s) \/ CancelRead(c)
      PROVE  row'[q] # "running"
  BY <1>3 DEF CancelArrive, CancelRead, SweptOK, dbVars, regVars, procVars
<1>4. ASSUME NEW c \in Cancels, CancelFire(c) PROVE row'[q] # "running"
  BY <1>4 DEF CancelFire, SweptOK, dbVars, procVars
<1>5. CASE Signal \/ CancelAll \/ ServeReturns \/ Quit \/ Crash \/ Restart
  BY <1>5 DEF Signal, CancelAll, ServeReturns, Quit, Crash, ProcessGone, Restart
<1>6. CASE ExitSweep
  <2>1. ~Fault
    BY <1>1 DEF Fault
  <2> QED BY <1>6, <2>1 DEF ExitSweep, Swept
<1>7. CASE SecondServe
  BY <1>7 DEF SecondServe, Swept
<1>8. CASE UNCHANGED vars
  BY <1>8 DEF vars, dbVars, regVars, procVars, SweptOK
<1> QED BY <1>2, <1>3, <1>4, <1>5, <1>6, <1>7, <1>8 DEF Next, DaemonStep

\* There are no transcripts at the start.
LEMMA TranscriptInit == ASSUME Init PROVE TInv
<1>1. ASSUME NEW s \in Sessions PROVE Own(s)
  <2>1. /\ row[s] = "none" /\ ident[s] = "none" /\ log[s] = <<>> /\ faults = 0 /\ pc[s] = "idle"
        /\ loop[s] = "select" /\ nextSeq[s] = 0 /\ ~seen[s] /\ got[s] = NoResult
        /\ wire[s] = <<>> /\ sent[s] = <<>> /\ chan[s] = <<>>
    BY DEF Init
  <2>2. Len(<<>>) = 0 /\ 1..0 = {} /\ 1..(0 - 1) = {}
    OBVIOUS
  <2>3. Len(log[s]) = 0 /\ ~Ended(s)
    BY <2>1, <2>2 DEF Ended
  <2>4. Rows(s) /\ Cursor(s)
    BY <2>1, <2>2 DEF Rows, SeqsAreRowNumbers, TruncationAnnounced, Cursor, Unstarted,
         Unopened,
         Pumping, DrainStates
  <2>5. MessagesAmong(s, 0) = 0
    <3>1. {j \in 1..0 : log[s][j].ev = "message"} = {}
      BY <2>2
    <3> QED BY <3>1, FS_EmptySet DEF MessagesAmong
  <2>6. SentInOrder(s)
    BY <2>1, <2>2 DEF SentInOrder
  <2>7. NothingMissing(s)
    BY <2>1, <2>2, <2>5 DEF NothingMissing
  <2>8. Conserved(s)
    BY <2>1, <2>6, <2>7 DEF Conserved
  <2>9. Pinned(s) /\ Settled(s)
    BY <2>1, <2>3 DEF Pinned, After, Looping, Settled, Unstarted, Unopened, NoResult
  <2> QED BY <2>4, <2>8, <2>9 DEF Own
<1>2. SweptOK
  BY DEF Init, SweptOK
<1> QED BY <1>1, <1>2 DEF TInv, FrameOK, KeepOK, PinOK, SettleOK, Own

-----------------------------------------------------------------------------

\* The invariant of transcripts and rows: the shape of a log by control state,
\* its messages against those sent and buffered, and the row against both.
THEOREM TranscriptInductive == Spec => [](IInv /\ CInv /\ LifeOK /\ TInv)
<1>1. Init => LifeOK /\ TInv
  BY LifeInit, TranscriptInit
<1>2. IInv /\ IInv' /\ CInv /\ LifeOK /\ TInv /\ [Next]_vars => LifeOK' /\ TInv'
  <2> SUFFICES ASSUME IInv, IInv', CInv, LifeOK, TInv, [Next]_vars PROVE LifeOK' /\ TInv'
    OBVIOUS
  <2>1. TypeOK /\ TypeOK' /\ LifeOK'
    BY StepSimulated DEF Simulated, IInv
  <2>2. \A s \in Sessions : Own(s)
    BY DEF TInv, FrameOK, KeepOK, PinOK, SettleOK, Own
  <2>3. \A s \in Sessions : Own(s)'
    BY <2>1, <2>2, OwnStep
  <2>4. SweptOK'
    BY <2>1, SweptStep DEF TInv
  <2> QED BY <2>1, <2>3, <2>4 DEF TInv, FrameOK, KeepOK, PinOK, SettleOK, Own
<1> QED BY <1>1, <1>2, Inductive, CancelInductive, PTL DEF Spec

\* TranscriptIsFramed (exec_pump.go, the envelope builder and
\* persistAndWrite): every transcript starts with session_started, ends with
\* its only session_ended if it has one, has the row numbers as its seqs up
\* to there, and announces each truncation where it happened.
THEOREM TranscriptFramed == Spec => []TranscriptIsFramed
<1>1. TInv => TranscriptIsFramed
  BY DEF TInv, FrameOK, Rows, TranscriptIsFramed
<1> QED BY <1>1, TranscriptInductive, PTL

\* MessagesConserved (exec_pump.go, message_pipe.go): the message rows are
\* what the backend sent, in its order and without a hole, and together with
\* what is still queued they are all of it, until the stream is aborted or
\* the drain of a cancelled one is over.  What a drain that ran out of time
\* leaves queued counts as queued: no row and no line is promised for it.
THEOREM MessagesKept == Spec => []MessagesConserved
<1>1. TInv => MessagesConserved
  BY DEF TInv, KeepOK, Conserved, Keeping, MessagesConserved, FinalStates
<1> QED BY <1>1, TranscriptInductive, PTL

\* ResumePointerKept (exec_pump.go, the two writers of backend_session_id):
\* whatever order the ids and the Result came in, the row of an ended stream
\* has the id of the first message that carried one, or else the Result's,
\* and never the other of the two; it has none only after a failed statement
\* or the drain of a cancelled stream.
THEOREM ResumePointer == Spec => []ResumePointerKept
<1>1. IInv /\ TInv => ResumePointerKept
  <2> SUFFICES ASSUME IInv, TInv, NEW s \in Sessions, Ended(s)
               PROVE  \/ ident[s] = Resumable(s)
                      \/ ident[s] = "none" /\ (faults > 0 \/ loop[s] = "drainCtx")
    BY DEF ResumePointerKept
  <2>1. ident[s] \in {"none", "message", "result"} /\ faults \in Nat
    BY OwnTypes DEF IInv, Idents
  <2>2. Pinned(s)
    BY DEF TInv, PinOK
  <2>3. CASE seen[s]
    BY <2>1, <2>2, <2>3 DEF Pinned, Resumable
  <2>4. CASE ~seen[s]
    BY <2>1, <2>2, <2>4 DEF Pinned, Resumable
  <2> QED BY <2>3, <2>4
<1> QED BY <1>1, TranscriptInductive, PTL

\* RowsAreSettled (exec.go, exec_pump.go, cmd/meowthd's sweeps): a row says
\* completed, timeout or cancelled only with its transcript, and no handler,
\* restart or clean exit leaves one running but in the cases named there; a
\* clean exit answers only for the streams that CancelAll stopped, as a
\* request still arriving may insert a running row after the last sweep.
THEOREM RowsSettled == Spec => []RowsAreSettled
<1>1. TInv => RowsAreSettled
  BY DEF TInv, SettleOK, Settled, SweptOK, RowsAreSettled
<1> QED BY <1>1, TranscriptInductive, PTL

-----------------------------------------------------------------------------
(***************************************************************************)
(* Who a verdict blames.  finalizeStream asks IsShutdown once and acts on  *)
(* the answer two statements later; CancelAll may mark the session in      *)
(* between.  What holds nevertheless rests on where a cancelled context    *)
(* can come from: every mark has a 202 or CancelAll behind it, and every   *)
(* context a mark or a client that left.                                   *)
(***************************************************************************)

\* The client of the stream left it, or a cancel of it was answered 202.
UserStop(s) == ~client[s] \/ \E c \in Cancels : creq[c] = [s |-> s, st |-> "fired"]
Stopped(s)  == s \in shutdownIDs \/ UserStop(s)

\* finalizeStream has settled on a status, or will not be reached.
Past == After \cup {"pin"}

\* The handler is in the drain of a cancelled stream, or returns to it.
InDrain(s) == pc[s] \in {"drainCtx", "awaitCtx"} \/ loop[s] = "drainCtx"

Told(s) ==
  /\ s \in requested => Stopped(s)
  /\ ctxDone[s] /\ ~Gone(s) => Stopped(s)
  /\ InDrain(s) => ctxDone[s]
  /\ res[s].status = "cancelled" /\ ~Gone(s) => Stopped(s)
  /\ res[s].state = "none" => res[s].status = ""
  /\ got[s].status = "cancelled" /\ pc[s] \notin Past => Stopped(s)
  /\ got[s].status = "cancelled" /\ pc[s] \in {"pin", "emit"} => UserStop(s)
  /\ got[s].status = "aborted" => res[s].status = "aborted" \/ stops > 0
  /\ Ended(s) /\ EndedStatus(s) = "cancelled" => UserStop(s)
  /\ Ended(s) /\ EndedStatus(s) = "aborted" =>
       res[s].status = "aborted" \/ stops > 0

Signalled ==
  shutdownIDs # {} \/ daemon \in {"closing", "draining", "served", "swept"} => stops > 0

VInv == Signalled /\ \A s \in Sessions : Told(s)

\* A step that finalizes nothing, and cancels nothing without a cause.
Calm(s) ==
  /\ UserStop(s) => UserStop(s)'
  /\ stops > 0 => stops' > 0
  /\ res'[s] = res[s] /\ got'[s] = got[s]
  /\ Ended(s)' => Ended(s) /\ EndedStatus(s)' = EndedStatus(s)
  /\ s \in requested' => Stopped(s)' \/ (s \in requested /\ s \notin shutdownIDs)
  /\ s \in shutdownIDs => s \in shutdownIDs' \/ Gone(s)'
  /\ ctxDone[s] => ctxDone'[s]
  /\ ctxDone'[s] => ctxDone[s] \/ Gone(s)' \/ Stopped(s)'
  /\ Gone(s) => Gone(s)'
  /\ pc[s] \in Past => pc'[s] \in Past
  /\ pc'[s] \in {"pin", "emit"} => pc[s] \in {"pin", "emit"}
  /\ InDrain(s)' => InDrain(s) \/ ctxDone[s]

\* Such a step keeps what is told of a session.
LEMMA CalmTold == ASSUME NEW s \in Sessions, Told(s), Calm(s) PROVE Told(s)'
<1>1. Stopped(s) => Stopped(s)' \/ Gone(s)'
  BY DEF Calm, Stopped
<1>2. Gone(s)' => pc'[s] \in Past
  BY DEF Gone, Past, After
<1>3. /\ s \in requested' => Stopped(s)'
      /\ ctxDone'[s] /\ ~Gone(s)' => Stopped(s)'
      /\ InDrain(s)' => ctxDone'[s]
  BY <1>1 DEF Told, Calm, Stopped
<1>4. /\ res'[s].status = "cancelled" /\ ~Gone(s)' => Stopped(s)'
      /\ res'[s].state = "none" => res'[s].status = ""
      /\ got'[s].status = "cancelled" /\ pc'[s] \notin Past => Stopped(s)'
      /\ got'[s].status = "cancelled" /\ pc'[s] \in {"pin", "emit"} => UserStop(s)'
  BY <1>1, <1>2 DEF Told, Calm
<1>5. /\ got'[s].status = "aborted" => res'[s].status = "aborted" \/ stops' > 0
      /\ Ended(s)' /\ EndedStatus(s)' = "cancelled" => UserStop(s)'
      /\ Ended(s)' /\ EndedStatus(s)' = "aborted" =>
           res'[s].status = "aborted" \/ stops' > 0
  BY DEF Told, Calm
<1> QED BY <1>3, <1>4, <1>5 DEF Told

\* A step that leaves the session's Result, context and marks, and the causes
\* of a cancel, alone.
Steady(s) ==
  /\ creq' = creq /\ stops' = stops /\ (client'[s] => client[s])
  /\ res'[s] = res[s] /\ got'[s] = got[s] /\ ctxDone'[s] = ctxDone[s]
  /\ s \in requested' <=> s \in requested
  /\ s \in shutdownIDs' <=> s \in shutdownIDs

Onward(s) ==
  /\ Gone(s) => Gone(s)'
  /\ pc[s] \in Past => pc'[s] \in Past
  /\ pc'[s] \in {"pin", "emit"} => pc[s] \in {"pin", "emit"}
  /\ InDrain(s)' => InDrain(s) \/ ctxDone[s]

\* With no end appended, it is calm.
LEMMA SteadyCalm ==
  ASSUME NEW s \in Sessions, Steady(s), Onward(s),
         Ended(s)' => Ended(s) /\ EndedStatus(s)' = EndedStatus(s)
  PROVE  Calm(s)
<1>1. UserStop(s) => UserStop(s)'
  BY DEF UserStop, Steady
<1> QED BY <1>1 DEF Calm, Steady, Onward, Stopped

\* The types these steps rest on.
LEMMA VerdictTypes ==
  ASSUME TypeOK
  PROVE  /\ ctxDone \in [Sessions -> BOOLEAN]
         /\ res \in [Sessions -> [state : {"none", "ready", "closed"},
                                  status : RawStatus, id : BOOLEAN]]
         /\ stops \in Nat
         /\ creq \in [Cancels -> [s : Sessions \cup {"none"}, st : ReplyStates]]
  BY DEF TypeOK, ConnTypeOK, BackendTypeOK, DaemonTypeOK

\* The steps of another session's handler, backend or client.
LEMMA ElsewhereCalm ==
  ASSUME TypeOK, TypeOK', NEW s \in Sessions, LifeInv(s), SessionStep(s),
         NEW q \in Sessions, q # s
  PROVE  Calm(q)
<1>1. Untouched(q)
  BY SessionStays
<1>2. Steady(q)
  <2>1. ASSUME \/ Arrive(s) \/ Begin(s) \/ Register(s) \/ Execute(s)
               \/ WriteStarted(s) \/ WriteEnvelope(s) \/ PumpCancelled(s)
               \/ PumpClosed(s) \/ PumpResult(s) \/ DrainEnd(s) \/ TakeResult(s)
        PROVE  Steady(q)
    BY <1>1, <2>1, VerdictTypes
    DEF Steady, Untouched, Arrive, Begin, Register, Execute, WriteStarted,
        WriteEnvelope, PumpCancelled, PumpClosed, PumpResult, DrainEnd,
        TakeResult, connVars, backendVars, regVars, procVars
  <2>2. ASSUME \/ PersistStarted(s) \/ Heartbeat(s) \/ TakeMessage(s)
               \/ EmitTruncation(s) \/ Decide(s) \/ PinFinal(s) \/ EmitEnded(s)
               \/ WriteEnded(s) \/ UpdateRow(s) \/ AbortStream(s) \/ Exit(s)
        PROVE  Steady(q)
    BY <1>1, <2>2, VerdictTypes
    DEF Steady, Untouched, PersistStarted, Heartbeat, TakeMessage,
        EmitTruncation, Decide, PinFinal, EmitEnded, WriteEnded, UpdateRow,
        AbortStream, Exit, connVars, backendVars, regVars, procVars
  <2>3. ASSUME \/ Discard(s) \/ BackendStep(s) \/ ClientGone(s) \/ NoticeGone(s)
        PROVE  Steady(q)
    BY <1>1, <2>3, VerdictTypes
    DEF Steady, Untouched, Discard, BackendStep, Send, Finish, CloseMessages,
        ClientGone, NoticeGone, connVars, backendVars, regVars, procVars
  <2> QED BY <2>1, <2>2, <2>3 DEF SessionStep, HandlerStep
<1>3. Onward(q)
  BY <1>1, <1>2 DEF Untouched, Steady, Onward, Gone, InDrain
<1>4. Ended(q)' = Ended(q) /\ EndedStatus(q)' = EndedStatus(q)
  BY <1>1, SameRows DEF Untouched
<1> QED BY <1>2, <1>3, <1>4, SteadyCalm

\* The calm steps of a session's own.
LEMMA OwnCalm ==
  ASSUME TypeOK, NEW s \in Sessions, LifeInv(s), LifeInv(s)', CInv,
         \/ Arrive(s) \/ Begin(s) \/ Register(s) \/ Execute(s)
         \/ PersistStarted(s) \/ WriteStarted(s) \/ Heartbeat(s)
         \/ TakeMessage(s) \/ EmitTruncation(s) \/ WriteEnvelope(s)
         \/ PumpCancelled(s) \/ PumpClosed(s) \/ DrainEnd(s) \/ PinFinal(s)
         \/ WriteEnded(s) \/ UpdateRow(s) \/ AbortStream(s) \/ Exit(s)
         \/ Discard(s) \/ Send(s) \/ CloseMessages(s)
         \/ ClientGone(s) \/ NoticeGone(s)
  PROVE  Calm(s)
<1>1. ASSUME log' = log PROVE Ended(s)' = Ended(s) /\ EndedStatus(s)' = EndedStatus(s)
  BY <1>1, SameRows
<1>2. CASE Arrive(s) \/ Begin(s) \/ Execute(s) \/ PumpCancelled(s) \/ PumpClosed(s)
  <2>1. Steady(s) /\ log' = log
    BY <1>2 DEF Arrive, Begin, Execute, PumpCancelled, PumpClosed, Steady,
           dbVars, connVars, backendVars, regVars, procVars
  <2>2. Onward(s)
    BY <1>2, OwnTypes DEF Arrive, Begin, Execute, PumpCancelled, PumpClosed, Goto,
           Onward, Gone, InDrain, Past, After
  <2> QED BY <1>1, <2>1, <2>2, SteadyCalm
<1>3. CASE WriteStarted(s) \/ WriteEnvelope(s) \/ DrainEnd(s) \/ PinFinal(s)
  <2>1. Steady(s) /\ log' = log
    BY <1>3 DEF WriteStarted, WriteEnvelope, DrainEnd, PinFinal, Steady,
           dbVars, connVars, backendVars, regVars, procVars
  <2>2. Onward(s)
    BY <1>3, OwnTypes DEF WriteStarted, WriteEnvelope, DrainEnd, PinFinal, Goto,
           Onward, Gone, InDrain, Past, After, DrainStates
  <2> QED BY <1>1, <2>1, <2>2, SteadyCalm
<1>4. CASE WriteEnded(s) \/ UpdateRow(s) \/ AbortStream(s)
  <2>1. Steady(s) /\ log' = log
    BY <1>4 DEF WriteEnded, UpdateRow, AbortStream, Steady,
           dbVars, connVars, backendVars, regVars, procVars
  <2>2. Onward(s)
    BY <1>4, OwnTypes DEF WriteEnded, UpdateRow, AbortStream, Goto,
           Onward, Gone, InDrain, Past, After
  <2> QED BY <1>1, <2>1, <2>2, SteadyCalm
<1>5. CASE Discard(s) \/ Send(s) \/ CloseMessages(s) \/ ClientGone(s)
  <2>1. Steady(s) /\ log' = log
    BY <1>5, OwnTypes DEF Discard, Send, CloseMessages, ClientGone, Steady,
           dbVars, pumpVars, connVars, backendVars, regVars, procVars
  <2>2. Onward(s)
    BY <1>5 DEF Discard, Send, CloseMessages, ClientGone, pumpVars,
           Onward, Gone, InDrain
  <2> QED BY <1>1, <2>1, <2>2, SteadyCalm
<1>6. CASE PersistStarted(s) \/ Heartbeat(s) \/ TakeMessage(s) \/ EmitTruncation(s)
  <2>1. Steady(s)
    BY <1>6 DEF PersistStarted, Heartbeat, TakeMessage, EmitTruncation, Steady,
           connVars, backendVars, regVars, procVars
  <2>2. /\ pc[s] \in {"opened", "select", "drainCtx", "drainRes", "trunc"}
        /\ pc'[s] \in {"started", "write", "writeBig", "awaitCtx", "abort"}
        /\ pc'[s] = "awaitCtx" => pc[s] = "drainCtx" \/ loop[s] = "drainCtx"
        /\ loop'[s] = "drainCtx" => pc[s] = "drainCtx" \/ loop[s] = "drainCtx"
    BY <1>6, OwnTypes DEF PersistStarted, Heartbeat, TakeMessage,
           EmitTruncation, Persist, OnPersistFailure, DrainStates
  <2>3. Onward(s)
    BY <2>2 DEF Onward, Gone, InDrain, Past, After
  <2>4. ~Ended(s)'
    BY <2>2 DEF LifeInv, Open, Before, PcStates, PumpStates, FinalStates,
           BeforePump, WaitStates
  <2> QED BY <2>1, <2>3, <2>4, SteadyCalm
<1>7. CASE Register(s)
  <2>1. s \notin requested /\ s \notin shutdownIDs
    BY <1>7 DEF Register, CInv, Registered, Marked, Unregistered
  <2>2. Steady(s) /\ log' = log
    BY <1>7, <2>1 DEF Register, Steady, dbVars, connVars, backendVars, procVars
  <2>3. Onward(s)
    BY <1>7, OwnTypes DEF Register, Goto, Onward, Gone, InDrain, Past, After
  <2> QED BY <1>1, <2>2, <2>3, SteadyCalm
<1>8. CASE Exit(s)
  <2>1. /\ UNCHANGED <<log, loop, got, client, res, creq, stops>>
        /\ pc[s] = "exit" /\ pc'[s] = "done" /\ s \notin requested' /\ ctxDone'[s]
    BY <1>8, OwnTypes, VerdictTypes DEF Exit, Goto, dbVars, backendVars, procVars
  <2>2. UserStop(s) => UserStop(s)'
    BY <2>1 DEF UserStop
  <2>3. InDrain(s)' => InDrain(s)
    BY <2>1 DEF InDrain
  <2> QED BY <1>1, <2>1, <2>2, <2>3 DEF Calm, Gone, Past, After
<1>9. CASE NoticeGone(s)
  <2>1. /\ UNCHANGED <<log, loop, pc, got, client, res, creq, stops>>
        /\ UNCHANGED regVars /\ ~client[s] /\ ctxDone'[s]
    BY <1>9, VerdictTypes DEF NoticeGone, dbVars, pumpVars, backendVars, procVars
  <2>2. (UserStop(s) => UserStop(s)') /\ UserStop(s)'
    BY <2>1 DEF UserStop
  <2>3. InDrain(s)' => InDrain(s)
    BY <2>1 DEF InDrain
  <2> QED BY <1>1, <2>1, <2>2, <2>3 DEF Calm, Gone, Stopped, regVars
<1> QED BY <1>2, <1>3, <1>4, <1>5, <1>6, <1>7, <1>8, <1>9

\* The backend's Result: it says cancelled only of a cancelled context.
LEMMA FinishTold ==
  ASSUME TypeOK, NEW s \in Sessions, Told(s), Finish(s) PROVE Told(s)'
<1>1. UNCHANGED <<log, pc, loop, got, client, ctxDone, requested, shutdownIDs, creq, stops>>
  BY DEF Finish, dbVars, pumpVars, connVars, regVars, procVars
<1>2. /\ UserStop(s)' = UserStop(s) /\ Stopped(s)' = Stopped(s)
      /\ InDrain(s)' = InDrain(s) /\ Gone(s)' = Gone(s)
      /\ Ended(s)' = Ended(s) /\ EndedStatus(s)' = EndedStatus(s)
  BY <1>1 DEF UserStop, Stopped, InDrain, Gone, Ended, EndedStatus
<1>3. /\ res[s].state = "none" /\ res[s].status = ""
      /\ res'[s].state # "none"
      /\ res'[s].status = "cancelled" => ctxDone[s]
  <2>1. res[s].state = "none" /\ res[s].status = "" /\ ctxDone[s] \in BOOLEAN
    BY VerdictTypes DEF Finish, Told
  <2>2. "cancelled" \notin NaturalStatus
    BY ConstantsAssumption
  <2>3. CASE \E st \in NaturalStatus \cup (IF ctxDone[s] THEN CancelStatus ELSE {}), id \in ResultIds :
               res' = [res EXCEPT ![s] = [state |-> "ready", status |-> st, id |-> id]]
    <3>1. PICK st \in NaturalStatus \cup (IF ctxDone[s] THEN CancelStatus ELSE {}), id \in ResultIds :
            res'[s] = [state |-> "ready", status |-> st, id |-> id]
      BY <2>3, VerdictTypes
    <3>2. st = "cancelled" => ctxDone[s]
      BY <2>2
    <3>3. res'[s].state = "ready" /\ res'[s].status = st
      BY <3>1
    <3> QED BY <2>1, <3>2, <3>3
  <2>4. CASE res' = [res EXCEPT ![s].state = "closed"]
    BY <2>1, <2>4, VerdictTypes
  <2> QED BY <2>3, <2>4 DEF Finish
<1>4. /\ s \in requested => Stopped(s)
      /\ ctxDone[s] /\ ~Gone(s) => Stopped(s)
      /\ got[s].status # "aborted" \/ stops > 0
      /\ Ended(s) /\ EndedStatus(s) = "aborted" => stops > 0
  BY <1>3 DEF Told
<1> QED BY <1>1, <1>2, <1>3, <1>4 DEF Told

\* The pump takes the Result, or the default for its path: cancelled only
\* after the drain of a cancelled context.
LEMMA ResultTold ==
  ASSUME TypeOK, NEW s \in Sessions, Told(s), LifeInv(s),
         PumpResult(s) \/ TakeResult(s)
  PROVE  Told(s)'
<1>1. /\ UNCHANGED <<log, loop, client, ctxDone, requested, shutdownIDs, creq, stops>>
      /\ pc[s] \in {"select", "awaitCtx", "awaitClosed"}
      /\ pc'[s] \in {"drainRes", "final"}
      /\ res'[s].status = res[s].status
      /\ res'[s].state = "none" => res[s].state = "none"
      /\ \/ got'[s].status = res[s].status
         \/ got'[s].status = "failed"
         \/ got'[s].status = "cancelled" /\ pc[s] = "awaitCtx"
  BY OwnTypes, VerdictTypes DEF PumpResult, TakeResult, Goto, DefaultResult,
     WaitStates, dbVars, connVars, regVars, procVars
<1>2. /\ UserStop(s)' = UserStop(s) /\ Stopped(s)' = Stopped(s)
      /\ Ended(s)' = Ended(s) /\ EndedStatus(s)' = EndedStatus(s)
  BY <1>1 DEF UserStop, Stopped, Ended, EndedStatus
<1>3. ~Gone(s) /\ (InDrain(s)' => InDrain(s))
  BY <1>1 DEF Gone, InDrain
<1>4. got'[s].status = "cancelled" => Stopped(s)
  BY <1>1, <1>3 DEF Told, InDrain
<1>5. got'[s].status = "aborted" => res[s].status = "aborted"
  BY <1>1
<1> QED BY <1>1, <1>2, <1>3, <1>4, <1>5 DEF Told

\* The override: what is left of cancelled was a user's doing, and what
\* becomes aborted was the daemon's.
LEMMA DecideTold ==
  ASSUME TypeOK, NEW s \in Sessions, Told(s), Signalled, Decide(s) PROVE Told(s)'
<1>1. /\ UNCHANGED <<log, loop, client, ctxDone, res, requested, shutdownIDs, creq, stops>>
      /\ pc[s] = "final" /\ pc'[s] \in {"pin", "emit"}
      /\ got'[s].status = FinalStatus(s)
  BY OwnTypes DEF Decide, Goto, dbVars, connVars, backendVars, regVars, procVars
<1>2. /\ UserStop(s)' = UserStop(s) /\ Stopped(s)' = Stopped(s)
      /\ Ended(s)' = Ended(s) /\ EndedStatus(s)' = EndedStatus(s)
  BY <1>1 DEF UserStop, Stopped, Ended, EndedStatus
<1>3. ~Gone(s) /\ pc[s] \notin Past /\ pc'[s] \in Past /\ (InDrain(s)' => InDrain(s))
  BY <1>1 DEF Gone, InDrain, Past, After
<1>4. FinalStatus(s) = "cancelled" => got[s].status = "cancelled" /\ s \notin shutdownIDs
  BY DEF FinalStatus, StatusFromAgentResult
<1>5. FinalStatus(s) = "aborted" => got[s].status = "aborted" \/ s \in shutdownIDs
  BY DEF FinalStatus, StatusFromAgentResult
<1>6. s \in shutdownIDs => stops > 0
  BY DEF Signalled
<1>7. FinalStatus(s) = "cancelled" => UserStop(s)
  BY <1>3, <1>4 DEF Told, Stopped
<1> QED BY <1>1, <1>2, <1>3, <1>5, <1>6, <1>7 DEF Told

\* session_ended announces what was settled on.
LEMMA EndTold ==
  ASSUME TypeOK, NEW s \in Sessions, LifeInv(s), Told(s), EmitEnded(s) PROVE Told(s)'
<1>1. /\ UNCHANGED <<loop, got, client, ctxDone, res, requested, shutdownIDs, creq, stops>>
      /\ pc[s] = "emit" /\ pc'[s] \in {"writeEnd", "abort"}
  BY OwnTypes DEF EmitEnded, Persist, connVars, backendVars, regVars, procVars
<1>2. /\ UserStop(s)' = UserStop(s) /\ Stopped(s)' = Stopped(s)
      /\ (InDrain(s)' => InDrain(s)) /\ ~Gone(s)
  BY <1>1 DEF UserStop, Stopped, InDrain, Gone
<1>3. PICK env \in EnvelopeSet : /\ env = Envelope(nextSeq[s], "session_ended", got[s].status)
                                 /\ env.ev = "session_ended" /\ env.d = got[s].status
  <2>1. Envelope(nextSeq[s], "session_ended", got[s].status) \in EnvelopeSet
    BY OwnTypes DEF Envelope, EnvelopeSet, RawStatus, RowStatus
  <2> QED BY <2>1 DEF Envelope
<1>4. \/ log' = [log EXCEPT ![s] = Append(@, env)]
      \/ log' = log
  BY <1>3 DEF EmitEnded, Persist
<1>5. Ended(s)' => \/ EndedStatus(s)' = got[s].status
                   \/ Ended(s) /\ EndedStatus(s)' = EndedStatus(s)
  <2>1. CASE log' = [log EXCEPT ![s] = Append(@, env)]
    BY <1>3, <2>1, AppendEnded
  <2>2. CASE log' = log
    BY <2>2, SameRows
  <2> QED BY <1>4, <2>1, <2>2
<1>6. pc'[s] \in Past /\ pc'[s] \notin {"pin", "emit"}
  BY <1>1 DEF Past, After
<1> QED BY <1>1, <1>2, <1>5, <1>6 DEF Told

\* The steps of the cancel endpoint and of the daemon.
LEMMA DaemonCalm ==
  ASSUME TypeOK, TypeOK', CInv, NEW s \in Sessions,
         \/ \E c \in Cancels :
              (\E q \in Sessions : CancelArrive(c, q)) \/ CancelRead(c) \/ CancelFire(c)
         \/ DaemonStep
  PROVE  Calm(s)
<1>1. ASSUME log' = log PROVE Ended(s)' = Ended(s) /\ EndedStatus(s)' = EndedStatus(s)
  BY <1>1, SameRows
<1>2. ASSUME NEW c \in Cancels, creq[c].st # "fired", client' = client,
             \A e \in Cancels : e # c => creq'[e] = creq[e]
      PROVE  UserStop(s) => UserStop(s)'
  BY <1>2 DEF UserStop
<1>3. ASSUME UNCHANGED <<pc, loop>> PROVE Onward(s)
  BY <1>3 DEF Onward, Gone, InDrain
<1>4. ASSUME NEW c \in Cancels, NEW q \in Sessions, CancelArrive(c, q) \/ CancelRead(c)
      PROVE  Calm(s)
  <2>1. /\ UNCHANGED <<log, pc, loop, got, client, ctxDone, res, requested, shutdownIDs, stops>>
        /\ creq[c].st # "fired" /\ \A e \in Cancels : e # c => creq'[e] = creq[e]
    BY <1>4, VerdictTypes DEF CancelArrive, CancelRead, dbVars, pumpVars,
           connVars, backendVars, regVars, procVars
  <2>2. UserStop(s) => UserStop(s)'
    BY <1>2, <2>1
  <2> QED BY <1>1, <1>3, <2>1, <2>2 DEF Calm, Onward, Stopped
<1>5. ASSUME NEW c \in Cancels, CancelFire(c) PROVE Calm(s)
  <2>1. /\ UNCHANGED <<log, pc, loop, got, client, res, shutdownIDs, stops>>
        /\ creq[c].st # "fired" /\ \A e \in Cancels : e # c => creq'[e] = creq[e]
    BY <1>5, VerdictTypes DEF CancelFire, dbVars, pumpVars, backendVars, procVars
  <2>2. UserStop(s) => UserStop(s)'
    BY <1>2, <2>1
  <2>3. \/ /\ s \in requested' => s \in requested
           /\ ctxDone'[s] = ctxDone[s]
        \/ creq'[c] = [s |-> s, st |-> "fired"] /\ ctxDone'[s]
    BY <1>5, VerdictTypes DEF CancelFire
  <2>4. \/ /\ s \in requested' => s \in requested
           /\ ctxDone'[s] = ctxDone[s]
        \/ UserStop(s)' /\ ctxDone'[s]
    BY <2>3 DEF UserStop
  <2> QED BY <1>1, <1>3, <2>1, <2>2, <2>4 DEF Calm, Onward, Stopped
<1>6. CASE Signal \/ ServeReturns \/ ExitSweep \/ Restart \/ SecondServe
  <2>1. UNCHANGED <<log, pc, loop>> /\ (Steady(s) \/ Signal)
    BY <1>6 DEF ServeReturns, ExitSweep, Restart, SecondServe, Steady, Signal,
           dbVars, pumpVars, connVars, backendVars, regVars
  <2>2. CASE Signal
    <3>1. /\ UNCHANGED <<log, pc, loop, got, client, ctxDone, res, requested, shutdownIDs, creq>>
          /\ stops > 0 => stops' > 0
      BY <2>2, VerdictTypes DEF Signal, dbVars, pumpVars, connVars, backendVars, regVars
    <3>2. UserStop(s) => UserStop(s)'
      BY <3>1 DEF UserStop
    <3> QED BY <1>1, <1>3, <3>1, <3>2 DEF Calm, Onward, Stopped
  <2> QED BY <1>1, <1>3, <2>1, <2>2, SteadyCalm
<1>7. CASE CancelAll
  <2>1. /\ UNCHANGED <<log, pc, loop, got, client, res, creq, stops>>
        /\ s \in shutdownIDs => s \in shutdownIDs'
        /\ s \in requested' => s \in shutdownIDs' \/ (s \in requested /\ s \notin shutdownIDs)
        /\ ctxDone'[s] => ctxDone[s] \/ s \in shutdownIDs'
        /\ ctxDone[s] => ctxDone'[s]
    BY <1>7, VerdictTypes DEF CancelAll, dbVars, pumpVars, backendVars
  <2>2. UserStop(s) => UserStop(s)'
    BY <2>1 DEF UserStop
  <2> QED BY <1>1, <1>3, <2>1, <2>2 DEF Calm, Onward, Stopped
<1>8. CASE Quit \/ Crash
  <2>1. /\ UNCHANGED <<log, loop, got, client, ctxDone, res>>
        /\ stops > 0 => stops' > 0
        /\ requested' = {}
        /\ \A c \in Cancels : creq[c].st = "fired" => creq'[c] = creq[c]
    BY <1>8, VerdictTypes DEF Quit, Crash, ProcessGone, Answering, dbVars,
           connVars, backendVars
  <2>2. \/ pc'[s] = "lost" \/ (pc'[s] = pc[s] /\ pc[s] \in {"idle", "done", "lost"})
        \/ pc[s] = "arrived" /\ pc'[s] = "idle"
    BY <1>8 DEF Quit, Crash, ProcessGone, Live
  <2>3. UserStop(s) => UserStop(s)'
    BY <2>1 DEF UserStop
  <2>4. s \in shutdownIDs => Gone(s)'
    BY <2>2 DEF CInv, Registered, Marked, Unregistered, Gone
  <2>5. Onward(s)
    BY <2>1, <2>2 DEF Onward, Gone, InDrain, Past, After
  <2> QED BY <1>1, <2>1, <2>3, <2>4, <2>5 DEF Calm, Onward
<1> QED BY <1>4, <1>5, <1>6, <1>7, <1>8 DEF DaemonStep

\* A mark of CancelAll, like every state of a daemon that stops, comes after
\* a signal.
LEMMA SignalledStep ==
  ASSUME TypeOK, TypeOK', LifeOK, Signalled, [Next]_vars PROVE Signalled'
<1>1. stops \in Nat
  BY VerdictTypes
<1>2. ASSUME NEW s \in Sessions, SessionStep(s) PROVE Signalled'
  <2>1. shutdownIDs' \subseteq shutdownIDs /\ UNCHANGED daemon
    BY <1>2, SessionStays DEF LifeOK
  <2>2. UNCHANGED stops
    <3>1. ASSUME HandlerStep(s) PROVE UNCHANGED stops
      BY <3>1 DEF HandlerStep, Begin, Register, Execute, PersistStarted,
         WriteStarted, Heartbeat, TakeMessage, EmitTruncation, WriteEnvelope,
         PumpCancelled, PumpClosed, PumpResult, DrainEnd, TakeResult, Decide,
         PinFinal, EmitEnded, WriteEnded, UpdateRow, AbortStream, Exit, procVars
    <3>2. ASSUME \/ Arrive(s) \/ Discard(s) \/ BackendStep(s) \/ ClientGone(s)
                 \/ NoticeGone(s)
          PROVE  UNCHANGED stops
      BY <3>2 DEF Arrive, Discard, BackendStep, Send, Finish, CloseMessages,
         ClientGone, NoticeGone, procVars
    <3> QED BY <1>2, <3>1, <3>2 DEF SessionStep
  <2> QED BY <2>1, <2>2 DEF Signalled
<1>3. ASSUME NEW c \in Cancels,
             (\E s \in Sessions : CancelArrive(c, s)) \/ CancelRead(c) \/ CancelFire(c)
      PROVE  Signalled'
  BY <1>3 DEF CancelArrive, CancelRead, CancelFire, regVars, procVars, Signalled
<1>4. CASE Signal \/ CancelAll \/ ServeReturns \/ ExitSweep
  BY <1>1, <1>4 DEF Signal, CancelAll, ServeReturns, ExitSweep, regVars, Signalled
<1>5. CASE Quit \/ Crash \/ Restart \/ SecondServe
  BY <1>1, <1>5 DEF Quit, Crash, ProcessGone, Restart, SecondServe, regVars, Signalled
<1>6. CASE UNCHANGED vars
  BY <1>6 DEF vars, regVars, procVars, Signalled
<1> QED BY <1>2, <1>3, <1>4, <1>5, <1>6 DEF Next, DaemonStep

\* Every step keeps who is to blame.
LEMMA VerdictStep ==
  ASSUME TypeOK, TypeOK', LifeOK, LifeOK', CInv, VInv, [Next]_vars PROVE VInv'
<1>1. Signalled'
  BY SignalledStep DEF VInv
<1>2. ASSUME NEW s \in Sessions PROVE Told(s)'
  <2>1. Told(s) /\ Signalled /\ LifeInv(s) /\ LifeInv(s)'
    BY DEF VInv, LifeOK
  <2>2. ASSUME SessionStep(s) PROVE Told(s)'
    <3>1. CASE Finish(s)
      BY <2>1, <3>1, FinishTold
    <3>2. CASE PumpResult(s) \/ TakeResult(s)
      BY <2>1, <3>2, ResultTold
    <3>3. CASE Decide(s)
      BY <2>1, <3>3, DecideTold
    <3>4. CASE EmitEnded(s)
      BY <2>1, <3>4, EndTold
    <3>5. ASSUME ~(Finish(s) \/ PumpResult(s) \/ TakeResult(s) \/ Decide(s) \/ EmitEnded(s))
          PROVE  Calm(s)
      BY <2>1, <2>2, <3>5, OwnCalm DEF SessionStep, HandlerStep, BackendStep
    <3> QED BY <2>1, <3>1, <3>2, <3>3, <3>4, <3>5, CalmTold
  <2>3. ASSUME NEW q \in Sessions, q # s, SessionStep(q) PROVE Calm(s)
    BY <2>3, ElsewhereCalm DEF LifeOK
  <2>4. CASE UNCHANGED vars
    <3>1. Steady(s) /\ Onward(s) /\ log' = log
      BY <2>4 DEF vars, dbVars, pumpVars, connVars, backendVars, regVars,
             procVars, Steady, Onward, Gone, InDrain
    <3>2. Calm(s)
      BY <3>1, SameRows, SteadyCalm
    <3> QED BY <2>1, <3>2, CalmTold
  <2> QED BY <2>1, <2>2, <2>3, <2>4, DaemonCalm, CalmTold DEF Next
<1> QED BY <1>1, <1>2 DEF VInv

\* VerdictTellsWhoStopped (finalizeStream, cancelRegistry.CancelAll): however
\* CancelAll, a cancel, the client and the backend race with finalizeStream,
\* a cancelled stream was stopped by a user or lost its client, and an
\* aborted one by the backend's own word or a signalled daemon.
THEOREM VerdictTold == Spec => []VerdictTellsWhoStopped
<1>1. Init => VInv
  <2> SUFFICES ASSUME Init PROVE VInv
    OBVIOUS
  <2>1. Signalled
    BY DEF Init, Signalled
  <2>2. ASSUME NEW s \in Sessions PROVE Told(s)
    <3>1. /\ pc[s] = "idle" /\ loop[s] = "select" /\ ~ctxDone[s] /\ requested = {}
          /\ res[s].state = "none" /\ res[s].status = "" /\ got[s].status = ""
      BY DEF Init, NoResult
    <3>2. ~Ended(s)
      BY LifeInit DEF LifeOK, LifeInv, Before, Init
    <3> QED BY <3>1, <3>2 DEF Told, InDrain
  <2> QED BY <2>1, <2>2 DEF VInv
<1>2. /\ IInv /\ IInv' /\ CInv /\ LifeOK /\ LifeOK' /\ VInv /\ [Next]_vars => VInv'
  BY VerdictStep DEF IInv
<1>3. VInv => VerdictTellsWhoStopped
  BY DEF VInv, Told, UserStop, VerdictTellsWhoStopped
<1> QED BY <1>1, <1>2, <1>3, TranscriptInductive, PTL DEF Spec

-----------------------------------------------------------------------------
(***************************************************************************)
(* The message pipe is a lossless FIFO for any producers and any number of *)
(* sends, as far as safety goes, and its wake channel of one place loses   *)
(* no kick.                                                                *)
(***************************************************************************)

Messages == Producers \X (1..MaxSends)

TypesOK ==
  /\ calls \in [Producers -> 0..MaxSends]
  /\ queued \in Seq(Messages) /\ taken \in Seq(Messages)
  /\ pipeClosed \in BOOLEAN /\ wake \in BOOLEAN
  /\ relay \in {"check", "wait", "offer", "ended"}

\* What the relay holds in its hand, and what it has seen when it ends.
RelayOK ==
  /\ relay = "offer" => \E m \in Messages : hand = <<m>>
  /\ relay # "offer" => hand = <<>>
  /\ relay = "ended" => pipeClosed /\ queued = <<>>

\* A relay that waits although there is something to do has a token to wake
\* it: no kick is lost.
KickIsKept == relay = "wait" /\ (queued # <<>> \/ pipeClosed) => wake

PipeInv == TypesOK /\ RelayOK /\ KickIsKept

\* Facts about a sequence with one element in front or behind.
LEMMA OneThenRest ==
  ASSUME NEW S, NEW m \in S, NEW s \in Seq(S)
  PROVE  /\ <<m>> \o s # <<>> /\ Head(<<m>> \o s) = m /\ Tail(<<m>> \o s) = s
         /\ <<>> \o s = s /\ s \o <<m>> = Append(s, m)
         /\ <<m>> \in Seq(S) /\ <<>> \in Seq(S) /\ Append(s, m) \in Seq(S)
  OBVIOUS

\* A sequence is its head and its tail.
LEMMA HeadThenRest ==
  ASSUME NEW S, NEW s \in Seq(S), s # <<>>
  PROVE  Head(s) \in S /\ Tail(s) \in Seq(S) /\ <<Head(s)>> \o Tail(s) = s
  OBVIOUS

\* Appending to the second part appends to the whole.
LEMMA AppendLast ==
  ASSUME NEW S, NEW r \in Seq(S), NEW s \in Seq(S), NEW m \in S
  PROVE  r \o Append(s, m) = Append(r \o s, m) /\ Append(s, m) # <<>>
  OBVIOUS

\* The invariant holds of an empty pipe.
LEMMA InitPipe == PipeInit => PipeInv
<1> SUFFICES ASSUME PipeInit
             PROVE  PipeInv
  OBVIOUS
<1>1. calls \in [Producers -> 0..MaxSends]
  BY PipeAssumption DEF PipeInit
<1>2. <<>> \in Seq(Messages)
  OBVIOUS
<1> QED BY <1>1, <1>2 DEF PipeInit, PipeInv, TypesOK, RelayOK, KickIsKept

\* Every step keeps the invariant, and is one of the FIFO's or none.
LEMMA PipeStep == PipeInv /\ [PipeNext]_pipeVars => PipeInv' /\ [Queue!Next]_(Queue!vars)
<1> SUFFICES ASSUME PipeInv, [PipeNext]_pipeVars
             PROVE  PipeInv' /\ [Queue!Next]_(Queue!vars)
  OBVIOUS
<1> USE PipeAssumption
<1>1. /\ calls \in [Producers -> 0..MaxSends] /\ queued \in Seq(Messages) /\ taken \in Seq(Messages)
      /\ hand \in Seq(Messages)
  <2>1. CASE relay = "offer"
    <3>1. PICK m \in Messages : hand = <<m>>
      BY <2>1 DEF PipeInv, RelayOK
    <3> QED BY <3>1 DEF PipeInv, TypesOK
  <2>2. CASE relay # "offer"
    BY <2>2 DEF PipeInv, TypesOK, RelayOK
  <2> QED BY <2>1, <2>2 DEF PipeInv, TypesOK
<1>2. ASSUME NEW p \in Producers, PipeSend(p)
      PROVE  PipeInv' /\ [Queue!Next]_(Queue!vars)
  <2> DEFINE m == <<p, calls'[p]>>
  <2>1. calls' \in [Producers -> 0..MaxSends] /\ m \in Messages
    <3>1. calls[p] \in 0..MaxSends /\ calls[p] < MaxSends /\ calls' = [calls EXCEPT ![p] = calls[p] + 1]
      BY <1>1, <1>2 DEF PipeSend
    <3>2. calls'[p] = calls[p] + 1 /\ calls'[p] \in 1..MaxSends
      BY <1>1, <3>1
    <3> QED BY <1>1, <3>1, <3>2 DEF Messages
  <2>2. UNCHANGED <<pipeClosed, relay, hand, taken>>
    BY <1>2 DEF PipeSend
  <2> HIDE DEF m
  <2>3. CASE pipeClosed
    <3>1. UNCHANGED <<queued, wake>>
      BY <1>2, <2>3 DEF PipeSend
    <3> QED BY <2>1, <2>2, <3>1 DEF PipeInv, TypesOK, RelayOK, KickIsKept, Queue!vars
  <2>4. CASE ~pipeClosed
    <3>1. queued' = Append(queued, m) /\ wake' = TRUE
      BY <1>2, <2>4 DEF PipeSend, kick, m
    <3>2. queued' \in Seq(Messages) /\ hand \o queued' = Append(hand \o queued, m)
      BY <1>1, <2>1, <3>1, AppendLast
    <3>3. PipeInv'
      BY <2>1, <2>2, <2>4, <3>1, <3>2 DEF PipeInv, TypesOK, RelayOK, KickIsKept
    <3>4. Queue!Put
      <4>1. hand' \o queued' = Append(hand \o queued, m)
        BY <2>2, <3>2
      <4>2. \E n \in Messages : hand' \o queued' = Append(hand \o queued, n)
        BY <2>1, <4>1
      <4> QED BY <2>2, <2>4, <4>2 DEF Queue!Put, Messages
    <3> QED BY <3>3, <3>4 DEF Queue!Next
  <2> QED BY <2>3, <2>4
<1>3. CASE Close
  <2>1. PipeInv'
    BY <1>3 DEF Close, kick, PipeInv, TypesOK, RelayOK, KickIsKept
  <2>2. Queue!Shut
    BY <1>3 DEF Close, Queue!Shut
  <2> QED BY <2>1, <2>2 DEF Queue!Next
<1>4. CASE RelayCheck
  <2>1. relay = "check" /\ hand = <<>> /\ UNCHANGED <<calls, pipeClosed, wake, taken>>
    BY <1>4 DEF RelayCheck, PipeInv, RelayOK
  <2>2. CASE queued # <<>>
    <3>1. hand' = <<Head(queued)>> /\ queued' = Tail(queued) /\ relay' = "offer"
      BY <1>4, <2>2 DEF RelayCheck
    <3>2. Head(queued) \in Messages /\ queued' \in Seq(Messages) /\ hand' \o queued' = queued
      BY <1>1, <2>2, <3>1, HeadThenRest
    <3>3. hand \o queued = queued
      BY <1>1, <2>1
    <3>4. PipeInv'
      BY <2>1, <3>1, <3>2 DEF PipeInv, TypesOK, RelayOK, KickIsKept
    <3> QED BY <2>1, <3>1, <3>2, <3>3, <3>4 DEF Queue!vars, PipeInv, RelayOK
  <2>3. CASE queued = <<>>
    <3>1. UNCHANGED <<queued, hand>> /\ relay' = IF pipeClosed THEN "ended" ELSE "wait"
      BY <1>4, <2>3 DEF RelayCheck
    <3>2. PipeInv'
      BY <2>1, <2>3, <3>1 DEF PipeInv, TypesOK, RelayOK, KickIsKept
    <3>3. CASE pipeClosed
      <4>1. hand \o queued = <<>>
        BY <1>1, <2>1, <2>3
      <4>2. Queue!End
        BY <2>1, <3>1, <3>3, <4>1 DEF Queue!End
      <4> QED BY <3>2, <4>2 DEF Queue!Next
    <3>4. CASE ~pipeClosed
      BY <2>1, <3>1, <3>2, <3>4 DEF Queue!vars
    <3> QED BY <3>3, <3>4
  <2> QED BY <2>2, <2>3
<1>5. CASE RelayWake
  BY <1>5 DEF RelayWake, PipeInv, TypesOK, RelayOK, KickIsKept, Queue!vars
<1>6. CASE Take
  <2>1. PICK m \in Messages : hand = <<m>>
    BY <1>6 DEF Take, PipeInv, RelayOK
  <2>2. /\ relay = "offer" /\ relay' = "check" /\ hand' = <<>> /\ taken' = taken \o <<m>>
        /\ UNCHANGED <<calls, queued, pipeClosed, wake>>
    BY <1>6, <2>1 DEF Take
  <2>3. /\ hand \o queued # <<>> /\ Head(hand \o queued) = m /\ Tail(hand \o queued) = queued
        /\ hand' \o queued' = queued /\ taken' = Append(taken, m) /\ taken' \in Seq(Messages)
    BY <1>1, <2>1, <2>2, OneThenRest
  <2>4. PipeInv'
    BY <2>2, <2>3 DEF PipeInv, TypesOK, RelayOK, KickIsKept
  <2>5. Queue!Get
    BY <2>2, <2>3 DEF Queue!Get
  <2> QED BY <2>4, <2>5 DEF Queue!Next
<1>7. CASE UNCHANGED pipeVars
  BY <1>7 DEF pipeVars, PipeInv, TypesOK, RelayOK, KickIsKept, Queue!vars
<1> QED BY <1>2, <1>3, <1>4, <1>5, <1>6, <1>7 DEF PipeNext

\* message_pipe.go keeps its promise step by step: what is sent before Close
\* comes out once and in order, and the end is seen after the last of it.
THEOREM NothingLostOrOvertaken == PipeSpec => Queue!Safety
<1>1. PipeInit => Queue!Init
  BY DEF PipeInit, Queue!Init
<1> QED BY InitPipe, PipeStep, <1>1, PTL DEF PipeSpec, Queue!Safety

\* The kick of a Send or of Close reaches a relay that is waiting or is about
\* to: whenever it sleeps with something to do, the wake channel has a token.
THEOREM NoKickIsLost == PipeSpec => []KickIsKept
<1>1. PipeInv => KickIsKept
  BY DEF PipeInv
<1> QED BY InitPipe, PipeStep, <1>1, PTL DEF PipeSpec
=============================================================================
