----------------------------- MODULE CodexTurn -----------------------------
(***************************************************************************)
(* One run of the codex backend: a child process, `codex app-server`, is   *)
(* driven over JSON-RPC by two goroutines.  The lifecycle goroutine makes  *)
(* the handshake requests one after the other, then waits for the turn to  *)
(* end, shuts the child down and sends the Result.  The reader goroutine   *)
(* takes the child's lines in order: responses to the pending request, and *)
(* notifications, from which it derives messages, activity and the end of  *)
(* the turn.  The context may be cancelled or expire, and the child may    *)
(* die, fall silent or ignore its closed stdin, at any time; a process it  *)
(* has started may keep its pipes open when it is gone.                    *)
(*                                                                         *)
(* A timer may fire whenever it is armed.  A line handled by the reader    *)
(* and a receive by the lifecycle goroutine are one step each.  Writes to  *)
(* the child's stdin are assumed not to block.                             *)
(***************************************************************************)
EXTENDS Naturals, Sequences, FiniteSets

CONSTANTS
  Options,       \* the options runs may have: is a thread resumed, has it a name?
  Kinds,         \* notifications of our thread the child may send
  ForeignKinds,  \* and those of a subagent's thread
  Oversized,     \* may a line exceed the scanner's buffer?
  ActivityCap,   \* capacity of semanticActivityCh
  MaxLines       \* bound: notifications and refusals the child writes

\* What a notification means to the reader: activities it reports, whether
\* it carries text, how it ends the turn and whether it records an error.
LegacyKinds  == {"task_started", "agent_message", "task_complete", "turn_aborted"}
RawKinds     == {"thread/started", "turn/started", "item", "text", "final_answer",
                 "turn/completed", "turn/failed", "turn/aborted", "idle", "error", "retry"}
Unsupported  == "unsupported"
StartKinds   == {"turn/started", "task_started"}
TextKinds    == {"text", "final_answer", "agent_message"}
AbortKinds   == {"turn/aborted", "turn_aborted"}
ErrorKinds   == {"turn/failed", "error"}
CleanKinds   == {"final_answer", "turn/completed", "idle", "task_complete"}
\* These end a turn only once one has started.
GuardedKinds == {"final_answer", "idle"}
EndKinds     == CleanKinds \cup AbortKinds \cup ErrorKinds
\* These tell the raw protocol from the legacy one.
TellingKinds == RawKinds \ {"idle", "error", "retry"}

ASSUME CodexAssumption ==
  /\ Options \subseteq SUBSET {"resume", "name"}
  /\ Kinds \subseteq LegacyKinds \cup RawKinds \cup {Unsupported}
  /\ ForeignKinds \subseteq RawKinds
  /\ Oversized \in BOOLEAN
  /\ ActivityCap \in Nat \ {0} /\ MaxLines \in Nat

Methods  == {"initialize", "thread/resume", "thread/start", "thread/name/set", "turn/start"}

VARIABLES
  opts,        \* ExecOptions
  ctx,         \* runCtx
  \* the child
  proc, asked, \* alive or exited; the requests it has received
  held,        \* a descendant keeps stdout open, or stdin too, after its exit
  said,        \* every line it has written to stdout
  \* the reader goroutine
  reader, heard, protocol, turnStarted,
  \* shared by the two goroutines
  threadID, turnDone, turnError, activity, dropped,
  \* the lifecycle goroutine
  pc, call,    \* where it is, and the state of its pending request
  firstTurn,   \* the first-turn no-progress timer
  verdict,     \* the status it will report, and why
  \* the Session
  texts,       \* text messages sent through the pipe
  result       \* the Result

childVars  == <<proc, asked, held, said>>
readerVars == <<reader, heard, protocol, turnStarted>>
sharedVars == <<threadID, turnDone, turnError, activity, dropped>>
mainVars   == <<pc, call, firstTurn, verdict>>
vars == <<opts, ctx, childVars, readerVars, sharedVars, mainVars, texts, result>>

-----------------------------------------------------------------------------
NoVerdict == [status |-> "completed", cause |-> "none"]
NoResult  == [status |-> "none", output |-> 0]
Note(k, t)     == [k |-> k, of |-> t]
Response(m, o) == [k |-> o, of |-> m]
IsNote(l)      == l.k \in LegacyKinds \cup RawKinds \cup {Unsupported}
LinesLeft      == Cardinality({i \in 1..Len(said) : said[i].k # "ok"}) < MaxLines
Answered(m)    == \E i \in 1..Len(said) : said[i].of = m
Waiting        == pc = "waiting"
\* processDone is closed.
Ended          == reader \in {"done", "choked"}

Init ==
  /\ opts \in Options
  /\ ctx = "live"
  /\ proc = "up" /\ asked = {} /\ held = FALSE /\ said = <<>>
  /\ reader = "reading" /\ heard = 0 /\ protocol = "unknown" /\ turnStarted = FALSE
  /\ threadID = "" /\ turnDone = "empty" /\ turnError = FALSE
  /\ activity = <<>> /\ dropped = FALSE
  /\ pc = "initialize" /\ call = "unsent" /\ firstTurn = "off" /\ verdict = NoVerdict
  /\ texts = 0 /\ result = NoResult

-----------------------------------------------------------------------------
(* The child process and the context.                                      *)

\* "bad" is an RPC error or, where a thread is asked for, no thread id.
Answer(m) ==
  /\ proc = "up" /\ m \in asked /\ ~Answered(m)
  /\ \E o \in {"ok", "bad"} :
       /\ o = "bad" => LinesLeft
       /\ said' = Append(said, Response(m, o))
  /\ UNCHANGED <<opts, ctx, proc, asked, held, readerVars, sharedVars, mainVars, texts, result>>

\* Our thread speaks once its turn is asked for; a subagent's thread is
\* "foreign" from then on and may have spoken "early".  Legacy notifications
\* name no thread.
Notify(k, t) ==
  /\ proc = "up" /\ LinesLeft
  /\ (t = "early") = ("turn/start" \notin asked)
  /\ k \in IF t = "ours" THEN Kinds ELSE ForeignKinds
  /\ said' = Append(said, Note(k, t))
  /\ UNCHANGED <<opts, ctx, proc, asked, held, readerVars, sharedVars, mainVars, texts, result>>

\* It exits by itself, or is killed because the context is done; what it has
\* started is not killed with it.
Exit ==
  /\ proc = "up"
  /\ proc' = "exited"
  /\ held' \in BOOLEAN
  /\ UNCHANGED <<opts, ctx, asked, said, readerVars, sharedVars, mainVars, texts, result>>

Kill == ctx # "live" /\ Exit

\* The descendant ends.  (os/exec may close the pipes of a killed child as
\* well, WaitDelay after the context, but not when stdout alone is held.)
LetGo ==
  /\ held
  /\ held' = FALSE
  /\ UNCHANGED <<opts, ctx, proc, asked, said, readerVars, sharedVars, mainVars, texts, result>>

ContextDone ==
  /\ ctx = "live" /\ pc # "closed"
  /\ ctx' \in {"canceled", "deadline"}
  /\ UNCHANGED <<opts, childVars, readerVars, sharedVars, mainVars, texts, result>>

-----------------------------------------------------------------------------
(* The reader goroutine.                                                   *)

\* handleResponse: only the pending request takes its response.
TakeResponse(l) ==
  /\ call' = IF pc = l.of /\ call = "waiting" THEN l.k ELSE call
  /\ UNCHANGED <<protocol, turnStarted, turnDone, turnError, activity, dropped, texts>>

\* handleNotification: one dialect per run, decided by its first telling line.
Protocol(l) ==
  IF l.k \in LegacyKinds THEN "legacy"
  ELSE IF protocol = "unknown" /\ l.k \in TellingKinds THEN "raw" ELSE protocol

\* Fault: notifications of other threads are not filtered.
HeedsAnyThread(l) ==
  \/ l.k \in LegacyKinds \cup {Unsupported}
  \/ Protocol(l) = "raw"

Heeds(l) ==
  \/ l.k \in LegacyKinds \cup {Unsupported}
  \/ Protocol(l) = "raw" /\ ~(l.of # "ours" /\ threadID # "")

\* onSemanticActivity and onMessage, in the order the handlers call them.
Activities(k) ==
  CASE k \in StartKinds               -> <<"status:running">>
    [] k \in {"text", "final_answer"} -> <<"progress", "progress">>
    [] k \in {"item", "agent_message", "error"} -> <<"progress">>
    [] k = "retry"                    -> <<"error:retry">>
    [] OTHER                          -> <<>>

\* trySendString: what finds the channel full is dropped.
Room == ActivityCap - Len(activity)
TrySend(as) ==
  /\ activity' = activity \o SubSeq(as, 1, IF Len(as) <= Room THEN Len(as) ELSE Room)
  /\ dropped' = (dropped \/ Len(as) > Room)

\* onTurnDone: the first end of the turn fills the channel.
EndsTurn(l) == l.k \in EndKinds /\ (l.k \in GuardedKinds => turnStarted)

TakeNote(l) ==
  /\ protocol' = IF l.k = Unsupported THEN protocol ELSE Protocol(l)
  /\ IF Heeds(l)
     THEN /\ turnStarted' = (turnStarted \/ l.k \in StartKinds)
          /\ turnError' = (turnError \/ l.k \in ErrorKinds \cup {Unsupported})
          /\ turnDone' = IF EndsTurn(l) /\ turnDone = "empty"
                           THEN (IF l.k \in AbortKinds THEN "aborted" ELSE "done")
                           ELSE turnDone
          /\ TrySend(Activities(l.k))
          /\ texts' = IF l.k \in TextKinds /\ pc # "closed" THEN texts + 1 ELSE texts
     ELSE UNCHANGED <<turnStarted, turnError, turnDone, activity, dropped, texts>>
  /\ UNCHANGED call

HandleLine ==
  /\ reader = "reading" /\ heard < Len(said)
  /\ heard' = heard + 1
  /\ LET l == said[heard + 1] IN IF IsNote(l) THEN TakeNote(l) ELSE TakeResponse(l)
  /\ UNCHANGED <<opts, ctx, childVars, reader, threadID, pc, firstTurn, verdict, result>>

\* Fault: the end of the child answers what is pending and is not recorded.
MarkExitedUnrecorded ==
  /\ reader = "reading"
  /\ \/ proc = "exited" /\ ((~held /\ heard = Len(said)) \/ pc = "closed")
     \/ Oversized /\ heard < Len(said)
  /\ reader' = "gone"
  /\ call' = IF call = "waiting" THEN "exit" ELSE call
  /\ UNCHANGED <<opts, ctx, childVars, heard, protocol, turnStarted, sharedVars,
                 pc, firstTurn, verdict, texts, result>>

\* markProcessExited, at the end of stdout, which a descendant can put off,
\* or at a line the scanner refuses.  Once Wait has closed the pipe, which it
\* does only where the reader is not joined first, the rest of it is lost.
MarkExited ==
  /\ reader = "reading"
  /\ \/ /\ proc = "exited"
        /\ (~held /\ heard = Len(said)) \/ pc = "closed"
        /\ reader' = "done"
     \/ Oversized /\ heard < Len(said) /\ reader' = "choked"
  /\ call' = IF call = "waiting" THEN "exit" ELSE call
  /\ UNCHANGED <<opts, ctx, childVars, heard, protocol, turnStarted, sharedVars,
                 pc, firstTurn, verdict, texts, result>>

-----------------------------------------------------------------------------
(* The lifecycle goroutine: the handshake.                                 *)

\* startOrResumeThread and the requests around it.
After(m, o) ==
  CASE m = "initialize" /\ o = "ok"      -> IF "resume" \in opts THEN "thread/resume"
                                                                 ELSE "thread/start"
    [] m = "thread/resume" /\ o = "ok"   -> "turn/start"
    [] m = "thread/resume" /\ o \in {"bad", "ctx"} -> "thread/start"
    [] m = "thread/start" /\ o = "ok"    -> IF "name" \in opts THEN "thread/name/set"
                                                               ELSE "turn/start"
    [] m = "thread/name/set"             -> "turn/start"
    [] m = "turn/start" /\ o = "ok"      -> "waiting"
    [] OTHER                             -> "failing"

Return(m, o) ==
  LET next == After(m, o)
  IN /\ pc' = next
     /\ call' = "unsent"
     /\ threadID' = IF next = "turn/start" THEN "ours" ELSE threadID
     /\ verdict' = IF next = "failing" THEN [status |-> "failed", cause |-> "handshake"]
                                       ELSE verdict

\* request up to the write: a done context, a child that is known to be
\* gone and a write into a broken pipe fail at once.
Send(m) ==
  /\ pc = m /\ call = "unsent"
  /\ \/ ctx # "live" /\ Return(m, "ctx") /\ UNCHANGED asked
     \/ /\ ctx = "live" /\ (Ended \/ proc = "exited")
        /\ Return(m, "exit") /\ UNCHANGED asked
     \/ /\ ctx = "live" /\ ~Ended /\ (proc = "up" \/ held)
        /\ call' = "waiting"
        /\ asked' = asked \cup {m}
        /\ UNCHANGED <<pc, threadID, verdict>>
  /\ UNCHANGED <<opts, ctx, proc, held, said, readerVars, turnDone, turnError, activity, dropped,
                 firstTurn, texts, result>>

\* request's select.
Await(m) ==
  /\ pc = m /\ call # "unsent"
  /\ \/ call # "waiting" /\ Return(m, call)
     \/ Ended /\ Return(m, IF ctx = "live" THEN "exit" ELSE "ctx")
     \/ ctx # "live" /\ Return(m, "ctx")
  /\ UNCHANGED <<opts, ctx, childVars, readerVars, turnDone, turnError, activity, dropped,
                 firstTurn, texts, result>>

-----------------------------------------------------------------------------
(* The lifecycle goroutine: the turn.                                      *)

\* The turn is over; stdin is closed.
Leave(status, cause) ==
  /\ pc' = "closing"
  /\ verdict' = [status |-> status, cause |-> cause]

FinishTurn ==
  Leave(IF turnDone = "aborted" THEN "aborted"
        ELSE IF turnError THEN "failed" ELSE "completed", "turn")

ContextStatus == IF ctx = "deadline" THEN "timeout" ELSE "aborted"

TurnOnly == UNCHANGED <<opts, ctx, childVars, readerVars, threadID, turnError, dropped, call,
                        texts, result>>

TurnDone ==
  /\ Waiting /\ turnDone # "empty"
  /\ FinishTurn
  /\ turnDone' = "empty"
  /\ UNCHANGED <<activity, firstTurn>> /\ TurnOnly

\* Fault: progress does not stop the first-turn timer.
SeeActivityForgetful ==
  /\ Waiting /\ activity # <<>>
  /\ activity' = Tail(activity)
  /\ firstTurn' = IF firstTurn = "off" /\ Head(activity) = "status:running" THEN "armed" ELSE firstTurn
  /\ UNCHANGED <<turnDone, pc, verdict>> /\ TurnOnly

SeeActivity ==
  /\ Waiting /\ activity # <<>>
  /\ activity' = Tail(activity)
  /\ firstTurn' =
       CASE firstTurn = "off" /\ Head(activity) = "status:running" -> "armed"
         [] firstTurn = "armed" /\ Head(activity) = "progress"     -> "stopped"
         [] OTHER                                                  -> firstTurn
  /\ UNCHANGED <<turnDone, pc, verdict>> /\ TurnOnly

FirstTurnTimeout ==
  /\ Waiting /\ firstTurn = "armed"
  /\ Leave("timeout", "no_progress")
  /\ UNCHANGED <<turnDone, activity, firstTurn>> /\ TurnOnly

SemanticTimeout ==
  /\ Waiting
  /\ Leave("timeout", "inactivity")
  /\ UNCHANGED <<turnDone, activity, firstTurn>> /\ TurnOnly

SeeContext ==
  /\ Waiting /\ ctx # "live"
  /\ Leave(ContextStatus, "context")
  /\ UNCHANGED <<turnDone, activity, firstTurn>> /\ TurnOnly

\* Fault: the end of the process hides the end of the turn.
SeeExitBlind ==
  /\ Waiting /\ Ended
  /\ IF ctx # "live" THEN Leave(ContextStatus, "context") ELSE Leave("failed", "exit")
  /\ UNCHANGED <<turnDone, activity, firstTurn>> /\ TurnOnly

\* The reader has put the end of the turn where it belongs before it
\* records the end of the process.
SeeExit ==
  /\ Waiting /\ Ended
  /\ IF turnDone # "empty" THEN FinishTurn /\ turnDone' = "empty"
     ELSE /\ UNCHANGED turnDone
          /\ IF ctx # "live" THEN Leave(ContextStatus, "context") ELSE Leave("failed", "exit")
  /\ UNCHANGED <<activity, firstTurn>> /\ TurnOnly

-----------------------------------------------------------------------------
(* The lifecycle goroutine: shutdown.                                      *)

\* Fault: the reader is not joined.
GraceUnjoined ==
  /\ pc = "closing"
  /\ pc' = "reaping"
  /\ ctx' = IF ctx = "live" THEN "canceled" ELSE ctx
  /\ UNCHANGED <<opts, childVars, readerVars, sharedVars, call, firstTurn, verdict, texts, result>>

\* The grace period is over: the context is cancelled, then the reader joined.
Grace ==
  /\ pc = "closing"
  /\ pc' = "killing"
  /\ ctx' = IF ctx = "live" THEN "canceled" ELSE ctx
  /\ UNCHANGED <<opts, childVars, readerVars, sharedVars, call, firstTurn, verdict, texts, result>>

JoinReader ==
  /\ pc \in {"closing", "killing"} /\ Ended
  /\ pc' = "reaping"
  /\ UNCHANGED <<opts, ctx, childVars, readerVars, sharedVars, call, firstTurn, verdict, texts, result>>

\* drainAndWait returns, the Result is sent, the channels are closed.
Report ==
  /\ pc \in {"reaping", "failing"} /\ proc = "exited"
  /\ result' = [status |-> verdict.status,
                output |-> IF pc = "failing" THEN 0 ELSE texts]
  /\ pc' = "closed"
  /\ UNCHANGED <<opts, ctx, childVars, readerVars, sharedVars, call, firstTurn, verdict, texts>>

-----------------------------------------------------------------------------
ReaderStep == HandleLine \/ MarkExited
MainStep ==
  \/ \E m \in Methods : Send(m) \/ Await(m)
  \/ TurnDone \/ SeeActivity \/ SeeContext \/ SeeExit
  \/ Grace \/ JoinReader \/ Report
TimerStep == FirstTurnTimeout \/ SemanticTimeout
ChildStep ==
  \/ \E m \in Methods : Answer(m)
  \/ \E k \in Kinds \cup ForeignKinds, t \in {"ours", "foreign", "early"} : Notify(k, t)
  \/ Exit \/ LetGo

Next == ReaderStep \/ MainStep \/ TimerStep \/ ChildStep \/ ContextDone

Spec == Init /\ [][Next]_vars

\* The goroutines run, and a kill takes effect; nothing makes the child act,
\* or its descendant let go.
Fairness == WF_vars(ReaderStep) /\ WF_vars(MainStep) /\ WF_vars(Kill)

FairSpec == Spec /\ Fairness
=============================================================================
