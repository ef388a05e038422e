---------------------------- MODULE AgentStream ----------------------------
(***************************************************************************)
(* One run of a backend that streams a child's stdout: claude, copilot and *)
(* pi.  Execute prepares a temporary file, starts the child and returns;   *)
(* goroutines then write the prompt, read the lines and watch the context  *)
(* until the Result is sent and every resource is given back.  The relay   *)
(* of the messages has a module of its own, MessagePipe.                   *)
(*                                                                         *)
(* A line is named by what the reader does with it, and its text by its    *)
(* place among the lines the child wrote.  Both pipes to the child are     *)
(* bounded, and the child does one thing at a time: it blocks in a write   *)
(* to a full stdout.                                                       *)
(***************************************************************************)
EXTENDS Integers, Sequences, FiniteSets

CONSTANTS
  Backends,     \* the backends of this instance
  Resumes,      \* is a session to be resumed, and does the child resume it?
  MaxLines,     \* bound: lines the child of each backend writes
  OutCap,       \* lines that stdout holds
  InCap,        \* units that stdin holds
  PromptSize,   \* units of the prompt, by backend
  AnswerSize    \* units of a control_response

ASSUME StreamAssumption ==
  /\ Backends \subseteq {"claude", "copilot", "pi"}
  /\ Resumes \subseteq BOOLEAN \X BOOLEAN
  /\ MaxLines \in [Backends -> Nat]
  /\ OutCap \in Nat \ {0} /\ InCap \in Nat \ {0}
  /\ PromptSize \in [Backends -> Nat \ {0}] /\ AnswerSize \in Nat \ {0}

\* "huge" is the line at which reading fails: longer than the scanner's
\* buffer (claude, copilot), or an error of read(2) (pi).
LineKinds == [
  claude  |-> {"text", "system", "async", "result", "failed", "ctl", "huge"},
  copilot |-> {"begin", "delta", "message", "error", "result", "badexit", "huge"},
  pi      |-> {"start", "delta", "ok", "bad", "retry", "gaveup", "fatal", "huge"}]

VARIABLES
  backend, resume, landed,   \* what is asked for, and whether the
                             \* child resumes the session it is told
  pc,          \* the run: its setup, its read loop, its end
  ctx,         \* "live", "deadline", "canceled", or "released" by cancel()
  temp,        \* the temporary file exists
  child,       \* "none", "running", "exit0", "exitN" or "killed"
  stuck,       \* it is in a write that stdout has no room for
  spoken,      \* lines the child has written
  heard,       \* how many of them the reader has taken
  held,        \* a process the child left behind holds its stdout and stdin
  outShut,     \* the context watcher has closed the read end of stdout
  written,     \* units written to stdin
  consumed,    \* units the child has read
  inShut,      \* our end of stdin is closed
  left,        \* units of the prompt that are not written yet
  writeErr,    \* writing it has failed
  owes,        \* units left of the answer the reader is writing
  st,          \* what the reader has gathered
  sent,        \* the messages handed to the pipe
  pipeClosed,  \* messagePipe.Close has been called
  res          \* the Result, once it is sent

runVars   == <<backend, resume, landed>>
childVars == <<child, stuck, spoken, held>>
msgVars   == <<sent, pipeClosed>>
inVars    == <<written, consumed, inShut, left, writeErr, owes>>
vars == <<runVars, pc, ctx, temp, childVars, heard, outShut, inVars, st, msgVars, res>>

ReadsPrompt == backend \in {"claude", "pi"}
Idle        == {"create", "spawn", "refused"}
NoRes       == [status |-> "none", output |-> <<>>, id |-> ""]

Before(seq, kinds) == {i \in 1..Len(seq) : seq[i] \in kinds}

\* The reader's state: the status it has settled on, the last error and
\* whether an attempt is open (pi), the session id, the output.
NewState == [failed |-> FALSE, async |-> FALSE, id |-> "", output |-> <<>>,
             attempt |-> <<>>, emitted |-> FALSE, open |-> FALSE, good |-> FALSE,
             stashed |-> FALSE, broken |-> FALSE, waitErr |-> FALSE]

-----------------------------------------------------------------------------
(* Execute, up to the goroutines.                                          *)

\* claude's --mcp-config and pi's --append-system-prompt name a file, which
\* these runs are taken to need.  If it cannot be written Execute returns an
\* error and has removed it.
NeedsTemp == backend # "copilot"

CreateTemp ==
  /\ pc = "create"
  /\ \/ /\ temp' = NeedsTemp
        /\ pc' = "spawn"
        /\ UNCHANGED ctx
     \/ /\ NeedsTemp
        /\ pc' = "refused"
        /\ ctx' = IF backend = "claude" /\ ctx = "live" THEN "released" ELSE ctx
        /\ UNCHANGED temp
  /\ UNCHANGED <<runVars, childVars, heard, outShut, inVars, st, msgVars, res>>

\* Fault: a failed start leaves the file behind.
RefuseKeepsTemp ==
  /\ pc' = "refused" /\ ctx' = IF ctx = "live" THEN "released" ELSE ctx
  /\ UNCHANGED <<temp, child>>

\* The pipes or the process cannot be had.
Refuse ==
  /\ pc' = "refused" /\ temp' = FALSE
  /\ ctx' = IF ctx = "live" THEN "released" ELSE ctx
  /\ UNCHANGED child

\* StdoutPipe, StdinPipe and Start; Start refuses a context that is over.
Spawn ==
  /\ pc = "spawn"
  /\ \/ Refuse
     \/ /\ ctx = "live"
        /\ pc' = "read" /\ child' = "running"
        /\ UNCHANGED <<temp, ctx>>
  /\ UNCHANGED <<runVars, stuck, spoken, held, heard, outShut, inVars, st, msgVars, res>>

-----------------------------------------------------------------------------
(* The context, and the two goroutines that watch it.                      *)

ContextEnds ==
  /\ ctx = "live" /\ pc \notin {"refused", "done"}
  /\ ctx' \in {"deadline", "canceled"}
  /\ UNCHANGED <<runVars, pc, temp, childVars, heard, outShut, inVars, st, msgVars, res>>

\* exec.CommandContext kills the child.
KillOnContext ==
  /\ ctx # "live" /\ child = "running"
  /\ child' = "killed"
  /\ held' \in BOOLEAN
  /\ UNCHANGED <<runVars, pc, ctx, temp, stuck, spoken, heard, outShut, inVars, st, msgVars, res>>

\* The watcher closes stdout, and claude's stdin, so that nobody is left in
\* a read or a write.
WatchContext ==
  /\ ctx # "live" /\ ~outShut /\ child # "none"
  /\ outShut' = TRUE
  /\ inShut' = (inShut \/ backend = "claude")
  /\ UNCHANGED <<runVars, pc, ctx, temp, childVars, heard, written, consumed, left, writeErr,
                 owes, st, msgVars, res>>

-----------------------------------------------------------------------------
(* The child, and what it may leave behind (external).                     *)

\* It has asked for permission and waits for the answer on stdin.
Waiting == consumed < PromptSize[backend] + AnswerSize * Cardinality(Before(spoken, {"ctl"}))
           /\ "ctl" \in {spoken[i] : i \in 1..Len(spoken)}

LastWords   == [claude |-> {"result", "failed"}, copilot |-> {"result", "badexit"},
                pi |-> {"ok", "gaveup", "fatal"}]
HasConcluded == Before(spoken, LastWords[backend]) # {}

LastLine == IF spoken = <<>> THEN "" ELSE spoken[Len(spoken)]

\* What may follow what was said.  A request for permission is made once the
\* prompt is read; pi retries an attempt that failed, and an attempt has been
\* begun before it has text or fails.  The last line is kept for an end of
\* the run.
MaySay(l) ==
  /\ l = "ctl" => consumed >= PromptSize[backend]
  /\ l \in {"retry", "gaveup"} => LastLine = "bad"
  /\ backend = "pi" /\ l \in {"delta", "bad", "ok"} =>
       LastLine \in {"start", "delta", "retry", l} \ {"bad"}
  /\ Len(spoken) = MaxLines[backend] - 1 /\ ~HasConcluded =>
       l \in LastWords[backend]

MaySpeak == child = "running" /\ ~Waiting /\ Len(spoken) < MaxLines[backend]
HasRoom  == Len(spoken) - heard < OutCap

Say ==
  /\ MaySpeak /\ HasRoom
  /\ \E l \in LineKinds[backend] : MaySay(l) /\ spoken' = Append(spoken, l)
  /\ stuck' = FALSE
  /\ UNCHANGED <<runVars, pc, ctx, temp, child, held, heard, outShut, inVars, st, msgVars,
                 res>>

\* It turns to its output although there is no room.
Stall ==
  /\ MaySpeak /\ ~HasRoom /\ ~stuck
  /\ stuck' = TRUE
  /\ UNCHANGED <<runVars, pc, ctx, temp, child, spoken, held, heard, outShut, inVars, st,
                 msgVars, res>>

ReadStdin ==
  /\ child = "running" /\ ~stuck /\ consumed < written
  /\ consumed' = consumed + 1
  /\ UNCHANGED <<runVars, pc, ctx, temp, childVars, heard, outShut, written, inShut,
                 left, writeErr, owes, st, msgVars, res>>

\* It may die at any time; claude ends by itself when it has announced its
\* result and its stdin is at its end.
Exit(how) ==
  /\ child = "running"
  /\ child' = how
  /\ held' \in {FALSE, how = "exit0"}
  /\ UNCHANGED <<runVars, pc, ctx, temp, stuck, spoken, heard, outShut, inVars, st, msgVars, res>>

Conclude ==
  /\ HasConcluded /\ ~stuck
  /\ backend = "claude" => inShut
  /\ Exit("exit0")

LetGo ==
  /\ held /\ child # "running"
  /\ held' = FALSE
  /\ UNCHANGED <<runVars, pc, ctx, temp, child, stuck, spoken, heard, outShut, inVars, st, msgVars,
                 res>>

-----------------------------------------------------------------------------
(* The prompt, written by a goroutine of its own.                          *)

Takes     == ~inShut /\ written - consumed < InCap /\ (child = "running" \/ held)
WillFail  == inShut \/ (child # "running" /\ ~held)
Writing   == left > 0 /\ ~writeErr

\* Fault: the prompt is written by the goroutine that reads, before it reads.
ReaderFreeInline == ~Writing \/ ~ReadsPrompt

\* The reader does not wait for the prompt to be written.
ReaderFree == TRUE

\* pi's writer (os/exec) closes stdin when it is through, claude's only when
\* the write fails.
WritePrompt ==
  /\ Writing /\ ReadsPrompt /\ child # "none"
  /\ \/ /\ Takes
        /\ written' = written + 1
        /\ left' = left - 1
        /\ inShut' = (left = 1 /\ backend = "pi")
        /\ UNCHANGED writeErr
     \/ /\ WillFail
        /\ writeErr' = TRUE /\ inShut' = TRUE
        /\ UNCHANGED <<written, left>>
  /\ UNCHANGED <<runVars, pc, ctx, temp, childVars, heard, outShut, consumed, owes, st, msgVars,
                 res>>

-----------------------------------------------------------------------------
(* The read loop: what a line does to the reader's state, and the message  *)
(* it is relayed as, which is the sequence of the texts it carries.        *)

ChildId == IF resume /\ landed THEN "asked" ELSE "fresh"

\* A result that carries text replaces what was gathered.
ClaudeHears(l, i) ==
  CASE l = "text"   -> [st EXCEPT !.output = Append(@, i)]
    [] l = "system" -> [st EXCEPT !.id = ChildId]
    [] l = "async"  -> [st EXCEPT !.async = TRUE]
    [] l = "result" -> [st EXCEPT !.id = ChildId, !.output = <<i>>]
    [] l = "failed" -> [st EXCEPT !.id = ChildId, !.output = <<i>>, !.failed = TRUE]
    [] OTHER        -> st

ClaudeSends(l, i) ==
  CASE l = "text" -> << <<i>> >> [] l \in {"system", "async"} -> << <<>> >> [] OTHER -> <<>>

\* assistant.message repeats the deltas of its turn, which are then trimmed,
\* or is the only carrier of a turn that was not streamed.
CopilotHears(l, i) ==
  CASE l = "begin"   -> [st EXCEPT !.id = "fresh"]
    [] l = "delta"   -> [st EXCEPT !.output = Append(@, i), !.open = TRUE]
    [] l = "message" -> [st EXCEPT !.output = IF st.open THEN @ ELSE Append(@, i),
                                   !.open = FALSE]
    [] l = "error"   -> [st EXCEPT !.failed = TRUE]
    [] l = "result"  -> [st EXCEPT !.id = "fresh"]
    [] l = "badexit" -> [st EXCEPT !.id = "fresh", !.failed = TRUE]

CopilotSends(l, i) ==
  CASE l = "delta" -> << <<i>> >> [] l = "error" -> << <<>> >> [] OTHER -> <<>>

Discarded == [st EXCEPT !.open = FALSE, !.attempt = <<>>]

PiHears(l, i) ==
  CASE l = "start"  -> [st EXCEPT !.open = TRUE, !.emitted = FALSE, !.attempt = <<>>]
    [] l = "delta"  -> [st EXCEPT !.attempt = Append(@, i)]
    [] l = "ok"     -> [st EXCEPT !.output = IF st.emitted THEN @ ELSE @ \o st.attempt,
                                  !.emitted = TRUE, !.attempt = <<>>, !.open = FALSE,
                                  !.stashed = FALSE, !.good = TRUE]
    [] l = "bad"    -> [Discarded EXCEPT !.stashed = TRUE]
    [] l = "retry"  -> [st EXCEPT !.open = FALSE, !.emitted = FALSE, !.attempt = <<>>]
    [] l = "gaveup" -> [st EXCEPT !.stashed = TRUE]
    [] l = "fatal"  -> [Discarded EXCEPT !.failed = TRUE]

\* Fault: the text of an attempt is shown as it comes.
PiSendsUnverified(l, i) ==
  CASE l = "delta" -> << <<i>> >> [] l = "retry" -> << <<>> >> [] OTHER -> <<>>

\* The text of an attempt is shown when it is committed, and until then only
\* its progress is.
PiSends(l, i) ==
  CASE l \in {"delta", "retry"} -> << <<>> >>
    [] l = "ok" /\ ~st.emitted /\ st.attempt # <<>> -> <<st.attempt>>
    [] OTHER -> <<>>

Hears(l, i) == CASE backend = "claude" -> ClaudeHears(l, i)
                 [] backend = "copilot" -> CopilotHears(l, i)
                 [] backend = "pi" -> PiHears(l, i)
Sends(l, i) == CASE backend = "claude" -> ClaudeSends(l, i)
                 [] backend = "copilot" -> CopilotSends(l, i)
                 [] backend = "pi" -> PiSends(l, i)

Send(ms) == sent' = sent \o ms /\ UNCHANGED pipeClosed

Choked == heard < Len(spoken) /\ spoken[heard + 1] = "huge"

LineEndsInput(l) == inShut \/ (backend = "claude" /\ l \in {"result", "failed"})

\* handleControlRequest answers on stdin from the read loop itself.
ReadLine ==
  /\ pc = "read" /\ ReaderFree /\ heard < Len(spoken) /\ ~Choked
  /\ LET i == heard + 1
         l == spoken[i]
     IN /\ heard' = i
        /\ st' = Hears(l, i)
        /\ Send(Sends(l, i))
        /\ inShut' = LineEndsInput(l)
        /\ owes' = IF l = "ctl" THEN AnswerSize ELSE 0
        /\ pc' = IF l = "ctl" THEN "answer" ELSE "read"
  /\ UNCHANGED <<runVars, ctx, temp, childVars, outShut, written, consumed, left, writeErr, res>>

Answer ==
  /\ pc = "answer" /\ ~Writing
  /\ \/ /\ Takes
        /\ written' = written + 1 /\ owes' = owes - 1
        /\ pc' = IF owes = 1 THEN "read" ELSE "answer"
     \/ /\ WillFail
        /\ owes' = 0 /\ pc' = "read"
        /\ UNCHANGED written
  /\ UNCHANGED <<runVars, ctx, temp, childVars, heard, outShut, consumed, inShut, left, writeErr, st,
                 msgVars, res>>

AtEOF == heard = Len(spoken) /\ child # "running" /\ ~held

\* Fault: the child is waited for before its stdout is at its end, and Wait
\* closes it.
EndsOnExit == child # "running"

EndsReading == AtEOF \/ Choked \/ outShut

\* The loop ends at the end of stdout, at a line it cannot read, or when the
\* watcher has closed stdout.  pi alone tells these apart, and kills a child
\* it can no longer read.
StopReading ==
  /\ pc = "read" /\ ReaderFree /\ EndsReading
  /\ LET broken == backend = "pi" /\ ~AtEOF /\ ctx = "live"
     IN /\ st' = [st EXCEPT !.broken = broken]
        /\ child' = IF broken /\ child = "running" THEN "killed" ELSE child
  /\ pc' = "reap"
  /\ inShut' = (inShut \/ backend = "claude")
  /\ UNCHANGED <<runVars, ctx, temp, stuck, spoken, held, heard, outShut, written, consumed, left, writeErr,
                 owes, msgVars, res>>

-----------------------------------------------------------------------------
(* The end: Wait, the status, the Result, and what is given back.          *)

\* Wait reports an exit code, a signal, or that something left behind held
\* stderr past WaitDelay.
WaitFails == IF child # "exit0" THEN {TRUE} ELSE IF held THEN BOOLEAN ELSE {FALSE}

\* Fault: the exit code is not looked at.
IgnoresExit(waitFailed) ==
  IF st.failed \/ st.async \/ st.broken THEN "failed" ELSE "completed"

RanStatus(waitFailed) ==
  IF \/ st.failed \/ st.async \/ st.broken \/ waitFailed
     \/ backend = "claude" /\ writeErr /\ st.id = ""
     \/ backend = "pi" /\ (st.stashed \/ ~st.good \/ st.open)
  THEN "failed" ELSE "completed"

\* The context has the last word.
Status(waitFailed) ==
  CASE ctx = "deadline" -> "timeout" [] ctx = "canceled" -> "aborted"
    [] OTHER -> RanStatus(waitFailed)

\* resolveSessionID: a failed run that was to resume another session does
\* not report the session it ended up in.  pi's id is its session file.
ReportedId(status) ==
  CASE backend = "pi" -> IF resume THEN "asked" ELSE "fresh"
    [] backend = "claude" /\ status = "failed" /\ resume /\ st.id = "fresh" -> ""
    [] OTHER -> st.id

PromptSettled == ~ReadsPrompt \/ ~Writing \/ (backend = "pi" /\ held)

Report ==
  /\ pc = "reap" /\ child # "running" /\ PromptSettled
  /\ \E waitFailed \in WaitFails :
       LET status == Status(waitFailed)
       IN /\ res' = [status |-> status, output |-> st.output, id |-> ReportedId(status)]
          /\ st' = [st EXCEPT !.waitErr = waitFailed]
          /\ Send(IF backend = "pi" /\ status = "failed" THEN << <<>> >> ELSE <<>>)
  /\ temp' = FALSE
  /\ pc' = "close"
  /\ UNCHANGED <<runVars, ctx, childVars, heard, outShut, inVars>>

ClosePipe ==
  /\ pc = "close"
  /\ pipeClosed' = TRUE
  /\ pc' = "release"
  /\ UNCHANGED <<runVars, ctx, temp, childVars, heard, outShut, inVars, st, sent, res>>

Release ==
  /\ pc = "release"
  /\ ctx' = IF ctx = "live" THEN "released" ELSE ctx
  /\ pc' = "done"
  /\ UNCHANGED <<runVars, temp, childVars, heard, outShut, inVars, st, msgVars, res>>

-----------------------------------------------------------------------------

Init ==
  /\ backend \in Backends
  /\ \E r \in Resumes : resume = r[1] /\ landed = r[2]
  /\ pc = "create" /\ ctx = "live" /\ temp = FALSE
  /\ child = "none" /\ stuck = FALSE /\ spoken = <<>> /\ heard = 0 /\ held = FALSE /\ outShut = FALSE
  /\ written = 0 /\ consumed = 0 /\ inShut = FALSE /\ left = PromptSize[backend] /\ writeErr = FALSE /\ owes = 0
  /\ st = NewState /\ sent = <<>> /\ pipeClosed = FALSE /\ res = NoRes

RunStep   == ReadLine \/ Answer \/ StopReading \/ Report \/ ClosePipe \/ Release
ChildStep == Say \/ Stall \/ ReadStdin \/ Conclude

Next ==
  \/ CreateTemp \/ Spawn
  \/ ContextEnds \/ KillOnContext \/ WatchContext
  \/ ChildStep \/ (\E how \in {"exit0", "exitN"} : Exit(how)) \/ LetGo
  \/ WritePrompt \/ RunStep

\* The goroutines run, the kernel delivers a kill.  The child goes on with what it is doing as long as
\* it is not blocked; nothing makes it die, nor makes what it left behind
\* let go, nor the context end.
Fairness ==
  /\ WF_vars(RunStep) /\ WF_vars(WritePrompt) /\ WF_vars(WatchContext)
  /\ WF_vars(KillOnContext) /\ WF_vars(ChildStep)

Spec == Init /\ [][Next]_vars /\ Fairness
=============================================================================
