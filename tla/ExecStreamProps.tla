-------------------------- MODULE ExecStreamProps --------------------------
(***************************************************************************)
(* What an exec stream promises, over the variables of ExecStream.  The    *)
(* documents quoted are docs/architecture/02 (the HTTP protocol) and 03    *)
(* (the SQLite schema) of the repository.                                  *)
(***************************************************************************)
EXTENDS ExecStream

EnvelopeSet == [seq : Nat,
                ev  : {"session_started", "message", "heartbeat", "error",
                       "session_ended"},
                d   : RowStatus \cup MessageKinds \cup {"", "message_truncated"}]

ReplyStates == {"idle", "arrived", "running", "terminal", "unknown", "already", "fired",
                "lost"}

DbTypeOK ==
  /\ row \in [Sessions -> RowStatus]
  /\ ident \in [Sessions -> Idents]
  /\ log \in [Sessions -> Seq(EnvelopeSet)]
  /\ faults \in Nat

PumpTypeOK ==
  /\ pc \in [Sessions -> PcStates]
  /\ loop \in [Sessions -> {"select"} \cup DrainStates]
  /\ nextSeq \in [Sessions -> Nat]
  /\ seen \in [Sessions -> BOOLEAN]
  /\ got \in [Sessions -> [status : RawStatus, id : BOOLEAN]]

ConnTypeOK ==
  /\ client \in [Sessions -> BOOLEAN]
  /\ ctxDone \in [Sessions -> BOOLEAN]
  /\ wire \in [Sessions -> Seq(EnvelopeSet)]

BackendTypeOK ==
  /\ sent \in [Sessions -> Seq(MessageKinds)]
  /\ chan \in [Sessions -> Seq(MessageKinds)]
  /\ closed \in [Sessions -> BOOLEAN]
  /\ res \in [Sessions -> [state : {"none", "ready", "closed"},
                           status : RawStatus, id : BOOLEAN]]

DaemonTypeOK ==
  /\ reg \in SUBSET Sessions
  /\ requested \in SUBSET Sessions
  /\ shutdownIDs \in SUBSET Sessions
  /\ creq \in [Cancels -> [s : Sessions \cup {"none"}, st : ReplyStates]]
  /\ daemon \in {"serving", "closing", "draining", "served", "swept", "dead"}
  /\ stops \in Nat /\ serves \in Nat

\* Every variable has its type (the shape of the two tables, of the pump's
\* locals, of the channels and of the cancel registry).
TypeOK == DbTypeOK /\ PumpTypeOK /\ ConnTypeOK /\ BackendTypeOK /\ DaemonTypeOK

-----------------------------------------------------------------------------
(* The transcript: messages rows and NDJSON lines.                         *)

IsPrefixOf(a, b) == Len(a) <= Len(b) /\ \A i \in 1..Len(a) : a[i] = b[i]

Ended(s)       == \E i \in 1..Len(log[s]) : log[s][i].ev = "session_ended"
EndedStatus(s) == log[s][Len(log[s])].d

\* What the client has been sent is, envelope for envelope, the beginning of
\* what GET /v1/sessions/{id}/messages replays: no line is on the wire that
\* is not in SQLite, none is skipped and none is out of order (03 section
\* 7.2, persistAndWrite's INSERT before Write).
WireIsPrefixOfLog == \A s \in Sessions : IsPrefixOf(wire[s], log[s])

\* A client that is still connected lags the table by at most the envelope
\* whose INSERT has just returned.
ConnectedClientIsCurrent ==
  \A s \in Sessions : client[s] => Len(log[s]) - Len(wire[s]) \in {0, 1}

\* The stream and the table tell one story, at any time and to any client:
\* whoever reconnects to the table finds what the stream has shown, and at
\* most one envelope more than a client that has stayed.
WireFollowsLog == WireIsPrefixOfLog /\ ConnectedClientIsCurrent

\* Seqs grow along the transcript, and are its row numbers up to the
\* session_ended row: a seq is spent without a row only on an envelope
\* whose INSERT failed, and only session_ended may follow that.
SeqsAreRowNumbers(s) ==
  \A i \in 1..Len(log[s]) :
    IF log[s][i].ev = "session_ended" THEN log[s][i].seq >= i - 1
                                      ELSE log[s][i].seq = i - 1

\* An oversized message is followed by its message_truncated error, unless
\* the stream stops there or (after a failed INSERT) ends there; the error
\* follows nothing else (02 section 5.8).
TruncationAnnounced(s) ==
  \A i \in 1..Len(log[s]) - 1 :
    /\ log[s][i].d = "big" => log[s][i + 1].ev \in {"error", "session_ended"}
    /\ log[s][i + 1].ev = "error" => log[s][i].d = "big"

\* A transcript starts with session_started at seq 0, and session_ended,
\* if there is one, is its last row and its only one (02 sections 5.1, 5.5);
\* its seqs have no unexplained gap and its truncations are announced.
TranscriptIsFramed ==
  \A s \in Sessions :
    /\ \A i \in 1..Len(log[s]) :
         /\ (log[s][i].ev = "session_started") <=> (i = 1)
         /\ log[s][i].ev = "session_ended" => i = Len(log[s])
    /\ SeqsAreRowNumbers(s) /\ TruncationAnnounced(s)

\* Of the first i rows, those that are messages: the n-th of them is to be
\* the n-th message sent, and what is queued is to be the rest.
MessagesAmong(s, i) == Cardinality({j \in 1..i : log[s][j].ev = "message"})

SentInOrder(s) ==
  \A i \in 1..Len(log[s]) : log[s][i].ev = "message" =>
    LET n == MessagesAmong(s, i) IN n \in 1..Len(sent[s]) /\ log[s][i].d = sent[s][n]

NothingMissing(s) ==
  LET n == MessagesAmong(s, Len(log[s]))
  IN /\ n + Len(chan[s]) = Len(sent[s])
     /\ \A k \in 1..Len(chan[s]) : chan[s][k] = sent[s][n + k]

\* Lossless, in order (message_pipe.go): whatever is lost, the message rows
\* are a prefix of what the backend sent, and the rows followed by what is
\* still queued are all of it, unless the stream was aborted (an INSERT
\* failed) or is a cancelled one whose drain is over.
MessagesConserved ==
  \A s \in Sessions :
    /\ SentInOrder(s)
    /\ \/ pc[s] \in {"select", "write", "writeBig", "trunc"} \cup DrainStates
       \/ pc[s] \in {"awaitClosed"} \cup FinalStates /\ loop[s] # "drainCtx"
       => NothingMissing(s)

\* The row of an ended stream points a later run at the id of the first
\* message that carried one, else at the Result's, and never at any other
\* (02 section 5.2; exec_pump.go:181, :256): a Result that comes with a
\* different id does not replace the first.  Only a failed statement, or the
\* deadline of a cancelled stream's drain, leaves it without the pointer.
Resumable(s) == IF seen[s] THEN "message" ELSE IF got[s].id THEN "result" ELSE "none"

ResumePointerKept ==
  \A s \in Sessions : Ended(s) =>
    \/ ident[s] = Resumable(s)
    \/ ident[s] = "none" /\ (faults > 0 \/ loop[s] = "drainCtx")

-----------------------------------------------------------------------------
(* Cancel and the registry.                                                *)

\* The registry holds exactly the handlers between Register and their
\* deferred unregister; only they are requested, CancelAll's are requested,
\* and the context of everything requested is cancelled.
RegistryMatchesHandlers ==
  /\ Up => reg = {s \in Sessions : pc[s] \notin Unregistered}
  /\ shutdownIDs \subseteq requested
  /\ requested \subseteq {s \in reg : ctxDone[s]}

\* At most one cancel request per session is answered 202, however many
\* race (02 section 6.5), and none once CancelAll has taken the session.
CancelFiresOnce ==
  \A c, e \in Cancels :
    creq[c].st = "fired" /\ creq[e].st = "fired" /\ creq[c].s = creq[e].s
      => c = e

\* The verdict tells who stopped the stream.  It is cancelled only if a
\* cancel of its session was answered 202 or its client has left, and aborted
\* only by the backend's own word or once the daemon was signalled: CancelAll
\* alone never yields a cancelled stream (02 section 8.1), although it may
\* mark a session after finalizeStream has asked IsShutdown.
VerdictTellsWhoStopped ==
  \A s \in Sessions : Ended(s) =>
    /\ EndedStatus(s) = "cancelled" =>
         ~client[s] \/ \E c \in Cancels : creq[c] = [s |-> s, st |-> "fired"]
    /\ EndedStatus(s) = "aborted" => res[s].status = "aborted" \/ stops > 0

\* The exec handlers, the cancel endpoint, the sweeps and the restarts
\* implement the abstract life of a session row: what GET /v1/sessions says
\* is final once the stream has left, whatever raced with it.
Lifecycle == INSTANCE SessionLifecycle WITH
  status  <- row,
  verdict <- [s \in Sessions |-> IF Ended(s) THEN EndedStatus(s) ELSE "none"],
  owner   <- [s \in Sessions |-> IF pc[s] \in {"idle", "arrived"} THEN "none"
                                 ELSE IF ~Live(s) THEN "gone"
                                 ELSE IF pc[s] = "exit" THEN "leaving" ELSE "working"],
  up      <- Up

ImplementsLifecycle == Lifecycle!Spec

\* The row and the transcript agree: completed, timeout and cancelled are
\* reached only by a session_ended row that says so.  A handler that has
\* returned leaves its row settled, unless a statement failed or the client
\* left before it was sent session_started.  A restarted daemon lists no
\* session of its predecessor as running (03 section 6.3).  The file a clean
\* exit leaves has no running row of a stream that CancelAll stopped; a
\* request that was only arriving by then may insert one after the sweep.
RowsAreSettled ==
  /\ \A s \in Sessions :
       /\ row[s] \in {"completed", "timeout", "cancelled"} => Ended(s) /\ EndedStatus(s) = row[s]
       /\ pc[s] = "done" /\ row[s] = "running" => faults > 0 \/ (~client[s] /\ wire[s] = <<>>)
       /\ Up /\ pc[s] = "lost" => row[s] # "running"
  /\ daemon = "swept" /\ faults = 0 => \A s \in shutdownIDs : row[s] # "running"

-----------------------------------------------------------------------------
(* Liveness, under FairSpec.                                               *)

\* A stream whose context is cancelled returns whatever the backend does:
\* every wait the pump enters then has a deadline.
CancelledStreamReturns ==
  \A s \in Sessions : (Live(s) /\ ctxDone[s]) ~> ~Live(s)

\* A cancel answered 202 ends in a terminal row, unless the client left the
\* stream too or the daemon died and was not started again (02 section 6.5).
FiredCancelSettles ==
  \A c \in Cancels, s \in Sessions :
    (creq[c].st = "fired" /\ creq[c].s = s) ~>
      (row[s] \in Terminal \/ ~client[s] \/ ~Up)

\* A signalled daemon exits.
SignalledDaemonExits == (daemon = "closing") ~> (daemon = "dead")

-----------------------------------------------------------------------------
(* A statement of the repository that the code does not keep: a run is      *)
(* expected to refute it.                                                  *)

\* 03 section 6.2: running becomes failed by an error and cancelled by a
\* cancel.  Here no statement fails, no timeout expires and the backend only
\* completes or reports the cancel, so a stream has no error to fail by.
CancelIsNotAnError ==
  \A s \in Sessions : log[s] # <<>> => row[s] # "failed"
=============================================================================
