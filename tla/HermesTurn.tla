----------------------------- MODULE HermesTurn -----------------------------
(***************************************************************************)
(* One run of the hermes backend: JSON-RPC over the stdin and stdout of    *)
(* `hermes acp`.  A lifecycle goroutine makes the requests initialize,     *)
(* session/new or session/resume, session/set_model and session/prompt, a  *)
(* reader goroutine dispatches what the child says, a third one reads its  *)
(* stderr.  Until the prompt is about to be sent the reader drops updates: *)
(* the child replays the history of a session that it resumes.             *)
(*                                                                         *)
(* A line of the child is a record; what it carries is named by its place  *)
(* among the lines spoken.  Our writes to stdin never block here: a        *)
(* request is much smaller than a pipe.  There is one tool call of the     *)
(* turn and one of the history.                                            *)
(***************************************************************************)
EXTENDS Integers, Sequences, FiniteSets, Functions

CONSTANTS
  Options,           \* is a session resumed, is a model asked for, and how
                     \* does the context end if it does?
  Configured,        \* the mcp_config: transports, and "bad" for an entry without one
  Capabilities,      \* the remote transports an initialize response may advertise
  Offers,            \* sets of options a permission request may offer
  Turns,             \* what the child may say of its turn, as sequences of kinds
  OldNotes,          \* what it may say of the turns before, with a stop reason
  MaxOld,            \* bound: lines of the turns before
  MaxAhead           \* bound: lines the child is ahead of the reader

Transports == {"stdio", "http", "sse"}
OptionIds  == {"allow_session", "allow_always", "allow_once", "proceed", "deny"}
TurnKinds  == {"text", "gaveup", "start", "open", "args", "done", "turnEnd", "ask", "huge"}

\* One tool call: it starts once and is done once, with its arguments between.
OneTool(t) == \A i, j \in DOMAIN t : i < j =>
  /\ t[i] = "done" => t[j] \notin {"start", "open", "args", "done"}
  /\ t[i] = "start" => t[j] \notin {"start", "open", "args"}
  /\ t[i] = "open" => t[j] \notin {"start", "open"}

ASSUME HermesAssumption ==
  /\ Options \subseteq BOOLEAN \X BOOLEAN \X {"deadline", "canceled"}
  /\ Configured \subseteq Transports \cup {"bad"}
  /\ Capabilities \subseteq SUBSET {"http", "sse"}
  /\ Offers \subseteq SUBSET OptionIds
  /\ Turns \subseteq Seq(TurnKinds) /\ \A t \in Turns : OneTool(t)
  /\ OldNotes \subseteq {"text", "done", "turnEnd"} \X {"end", "cancelled"}
  /\ MaxOld \in Nat /\ MaxAhead \in Nat \ {0}

VARIABLES
  resume, model, ending,  \* one of Options
  stage, step,        \* the lifecycle goroutine: the request it is at, and where in it
  servers,            \* mcpServers, as it is sent
  sid,                \* sessionID: "", "asked" or "other"
  gate,               \* streamingCurrentTurn
  pending, slot,      \* the pending request, and its one-place channel
  promptDone,         \* the one-place channel of stop reasons
  tools,              \* pendingTools
  final,              \* finalStatus and finalError
  ctx,                \* "live", "deadline", "canceled", or "released" by cancel()
  child, held,        \* the process, and a descendant that keeps its pipes open
  stdinShut,          \* our end of stdin is closed
  asked, advertised,  \* the request the child works on, what it has advertised
  granting,           \* the options it waits to be granted one of, or {}
  spoken, heard, over,             \* stdout: lines written, read, and the reader's end
  errSaid, errSeen,                \* stderr: the kinds of error lines written, read
  sent, pipeClosed, res

optVars   == <<resume, model, ending>>
runVars   == <<stage, step, servers, sid, gate, final>>
rpcVars   == <<pending, slot, promptDone, tools>>
procVars  == <<ctx, child, held, stdinShut>>
childVars == <<asked, advertised, granting, spoken>>
readVars  == <<heard, over>>
errVars   == <<errSaid, errSeen>>
outVars   == <<sent, pipeClosed, res>>
vars == <<optVars, runVars, rpcVars, procVars, childVars, readVars, errVars, outVars>>

Handshake == {"init", "session", "model"}
Requests  == Handshake \cup {"prompt"}
NoRes     == [status |-> "none", error |-> "", id |-> ""]
NoTool    == [st |-> "none", at |-> 0]
Readable  == child \in {"none", "running"} \/ held

-----------------------------------------------------------------------------
(* Execute: the configuration, the process and the goroutines.             *)

\* An entry without command and url is skipped.
buildACPMcpServers == Configured \ {"bad"}

\* Only what the runtime advertises is sent to it, but for stdio.
filterACPMcpServersByCapability(caps) == {s \in servers : s = "stdio" \/ s \in caps}

Start ==
  /\ stage = "start"
  /\ \/ /\ ctx = "live"
        /\ stage' = "init" /\ step' = "register" /\ child' = "running"
        /\ UNCHANGED ctx
     \/ /\ stage' = "refused"
        /\ ctx' = IF ctx = "live" THEN "released" ELSE ctx
        /\ UNCHANGED <<step, child>>
  /\ UNCHANGED <<optVars, servers, sid, gate, final, rpcVars, held, stdinShut, childVars, readVars,
                 errVars, outVars>>

-----------------------------------------------------------------------------
(* request().                                                              *)

Register ==
  /\ stage \in Requests /\ step = "register"
  /\ pending' = stage /\ slot' = "none"
  /\ step' = "write"
  /\ UNCHANGED <<optVars, stage, servers, sid, gate, final, promptDone, tools, procVars, childVars,
                 readVars, errVars, outVars>>

\* What follows a request that has failed: a handshake reports at once; the
\* prompt's failure may be the context's, which has the last word.
Lost(error) == resume /\ error = "gone"
FailHandshake(error) ==
  /\ res' = [status |-> "failed", error |-> error,
             id |-> IF stage = "model" /\ ~Lost(error) THEN sid ELSE ""]
  /\ stage' = "leave"
  /\ UNCHANGED <<final, sid, ctx, stdinShut>>

ContextStatus == CASE ctx = "deadline" -> "timeout" [] ctx = "canceled" -> "aborted"
                   [] OTHER -> "failed"

\* stdin is closed and the context cancelled, which kills the child.
HangUp ==
  /\ stdinShut' = TRUE
  /\ ctx' = IF ctx = "live" THEN "released" ELSE ctx
  /\ stage' = "drain"

FailPrompt(error) ==
  /\ final' = [status |-> ContextStatus, error |-> error]
  /\ sid' = IF ContextStatus = "failed" /\ Lost(error) THEN "" ELSE sid
  /\ HangUp
  /\ UNCHANGED res

Fail(error) ==
  /\ pending' = "none" /\ slot' = "none"
  /\ IF stage = "prompt" THEN FailPrompt(error) ELSE FailHandshake(error)
  /\ UNCHANGED <<servers, step, promptDone>>

Write ==
  /\ stage \in Requests /\ step = "write"
  /\ \/ /\ Readable
        /\ asked' = IF child = "running" THEN stage ELSE asked
        /\ step' = "await"
        /\ UNCHANGED <<stage, servers, sid, final, pending, slot, promptDone, ctx, stdinShut, res>>
     \/ /\ ~Readable
        /\ Fail("write")
        /\ UNCHANGED asked
  /\ UNCHANGED <<optVars, gate, tools, child, held, advertised, granting, spoken, readVars, errVars, sent,
                 pipeClosed>>

\* The select's other branch.
GiveUp ==
  /\ stage \in Requests /\ step = "await" /\ ctx # "live"
  /\ Fail("context")
  /\ UNCHANGED <<optVars, gate, tools, child, held, childVars, readVars, errVars, sent, pipeClosed>>

-----------------------------------------------------------------------------
(* What the lifecycle goroutine makes of an answer.                        *)

\* resolveResumedSessionID: the response's id, if there is one.
resolveResumedSessionID(answer) == IF answer = "other" THEN "other" ELSE "asked"

Refusals == {"error", "gone", "transport", "exited"}

Proceed(answer) ==
  LET next == CASE stage = "init" -> "session"
                [] stage = "session" /\ model -> "model"
                [] OTHER -> "gate"
  IN /\ stage' = next /\ step' = "register"
     /\ servers' = IF stage = "init" THEN filterACPMcpServersByCapability(advertised) ELSE servers
     /\ sid' = CASE stage = "session" /\ resume -> resolveResumedSessionID(answer)
                 [] stage = "session" /\ ~resume -> "other"
                 [] OTHER -> sid
     /\ UNCHANGED <<final, ctx, stdinShut, res, promptDone>>

\* The prompt has been answered.  A stop reason is waited for no longer.
PromptAnswered ==
  /\ final' = [status |-> IF promptDone = "cancelled" THEN "aborted" ELSE "completed", error |-> ""]
  /\ promptDone' = "none"
  /\ HangUp
  /\ UNCHANGED <<step, servers, sid, res>>

TakeAnswer ==
  /\ stage \in Requests /\ step = "await" /\ slot # "none"
  /\ \/ slot \in Refusals /\ Fail(slot)
     \/ slot = "noid" /\ ~resume /\ Fail("noid")
     \/ /\ slot \notin Refusals /\ ~(slot = "noid" /\ ~resume)
        /\ slot' = "none"
        /\ IF stage = "prompt" THEN PromptAnswered ELSE Proceed(slot)
        /\ UNCHANGED pending
  /\ UNCHANGED <<optVars, gate, tools, child, held, childVars, readVars, errVars, sent, pipeClosed>>

\* The gate is opened on the way to the prompt, before it is written.
OpenGate ==
  /\ stage = "gate"
  /\ gate' = TRUE
  /\ stage' = "prompt"
  /\ UNCHANGED <<optVars, step, servers, sid, final, rpcVars, procVars, childVars, readVars, errVars,
                 outVars>>

-----------------------------------------------------------------------------
(* The reader of stdout.                                                   *)

Line == spoken[heard + 1]
CanRead == ~over /\ heard < Len(spoken) /\ Line.k # "huge"

\* The prompt's response carries a stop reason, as turn_end does.
onPromptDone(reason) ==
  promptDone' = IF gate /\ promptDone = "none" THEN reason ELSE promptDone

StopReason(what) == IF what = "cancelled" THEN "cancelled" ELSE "end"

handleResponse ==
  /\ CanRead /\ Line.k = "answer"
  /\ IF pending = Line.to
       THEN /\ pending' = "none"
            /\ slot' = Line.what
            /\ IF pending = "prompt" /\ Line.what \notin Refusals
                 THEN onPromptDone(StopReason(Line.what)) ELSE UNCHANGED promptDone
       ELSE UNCHANGED <<pending, slot, promptDone>>
  /\ heard' = heard + 1
  /\ UNCHANGED <<optVars, runVars, tools, procVars, childVars, over, errVars, outVars>>

\* pickApprovalOptionID: the session-wide approval before the lasting one
\* before the single one before any other; never a denial.
pickApprovalOptionID(options) ==
  IF "allow_session" \in options THEN "allow_session"
  ELSE IF "allow_always" \in options THEN "allow_always"
  ELSE IF "allow_once" \in options THEN "allow_once"
  ELSE IF "proceed" \in options THEN "proceed" ELSE "cancelled"

\* The answer goes out at once; a write that fails is logged.
handleAgentRequest ==
  /\ CanRead /\ Line.k = "ask"
  /\ granting' = IF pickApprovalOptionID(granting) \in granting \cup {"cancelled"} THEN {} ELSE granting
  /\ heard' = heard + 1
  /\ UNCHANGED <<optVars, runVars, rpcVars, procVars, asked, advertised, spoken, over, errVars, outVars>>

\* Fault: every update is accepted.
acceptAnything == TRUE

acceptNotification == gate

Message(kind, at) == [k |-> kind, old |-> Line.old, at |-> at]

\* Fault: a tool call is shown when it is first heard of.
usedAtOnce(kind) == kind \in {"start", "open"}

\* A start that carries its input is shown; else the use waits until the
\* arguments, each of which replaces what was gathered, are complete.
handleToolCallStart(kind) == kind = "start"

\* What an update adds to the messages, and to pendingTools.
Shows(l, i, tool) ==
  CASE l.k \in {"text", "gaveup"} -> <<Message(l.k, i)>>
    [] l.k \in {"start", "open"} /\ handleToolCallStart(l.k) -> <<Message("use", i)>>
    [] l.k = "done" ->
         (CASE tool.st = "shown" -> <<>>
            [] tool.st = "buffered" -> <<Message("use", tool.at)>>
            [] OTHER -> <<Message("use", i)>>) \o <<Message("result", i)>>
    [] OTHER -> <<>>

Tracks(l, i, tool) ==
  CASE l.k \in {"start", "open"} ->
         [st |-> IF handleToolCallStart(l.k) THEN "shown" ELSE "buffered", at |-> i]
    [] l.k = "args" /\ tool.st = "buffered" -> [tool EXCEPT !.at = i]
    [] l.k = "done" -> NoTool
    [] OTHER -> tool

handleNotification ==
  /\ CanRead /\ Line.k \notin {"answer", "ask"}
  /\ IF acceptNotification
       THEN LET i == heard + 1
                t == Line.old
            IN /\ sent' = sent \o Shows(Line, i, tools[t])
               /\ tools' = [tools EXCEPT ![t] = Tracks(Line, i, @)]
               /\ IF Line.k = "turnEnd" THEN onPromptDone(Line.what) ELSE UNCHANGED promptDone
       ELSE UNCHANGED <<sent, tools, promptDone>>
  /\ heard' = heard + 1
  /\ UNCHANGED <<optVars, runVars, pending, slot, procVars, childVars, over, errVars, pipeClosed, res>>

AtEOF  == heard = Len(spoken) /\ ~Readable
Choked == heard < Len(spoken) /\ Line.k = "huge"

\* Fault: the requests that are pending are left alone.
leavePending == UNCHANGED <<pending, slot>>

closeAllPending ==
  /\ slot' = IF pending = "none" THEN slot ELSE "exited"
  /\ pending' = "none"

ReaderEnds ==
  /\ ~over /\ (AtEOF \/ Choked)
  /\ over' = TRUE
  /\ closeAllPending
  /\ UNCHANGED <<optVars, runVars, promptDone, tools, procVars, childVars, heard, errVars, outVars>>

-----------------------------------------------------------------------------
(* The reader of stderr.  The sniffer keeps the lines that tell of an      *)
(* error of the provider, "warn" for one that is retried and "fatal" for   *)
(* one that is not.  It looks at no line before its end, so that one the   *)
(* kill has cut short is as if it had not been written.                    *)

ReadErr ==
  /\ errSeen # errSaid
  /\ errSeen' = errSaid
  /\ UNCHANGED <<optVars, runVars, rpcVars, procVars, childVars, readVars, errSaid, outVars>>

\* Fault: the reader of stderr is not waited for.
stderrIgnored == TRUE

stderrDone == errSeen = errSaid /\ ~Readable

-----------------------------------------------------------------------------
(* The end of the run.                                                     *)

Output == {m \in Range(sent) : m.k \in {"text", "gaveup"}}

promoteACPResultOnProviderError(seen) ==
  IF /\ final.status = "completed"
     /\ \/ "fatal" \in seen
        \/ \E m \in Output : m.k = "gaveup"
        \/ Output = {} /\ seen # {}
  THEN [status |-> "failed", error |-> "provider"] ELSE final

Report ==
  /\ stage = "drain" /\ over /\ stderrDone
  /\ LET end == promoteACPResultOnProviderError(errSeen)
     IN res' = [status |-> end.status, error |-> end.error, id |-> sid]
  /\ stage' = "leave"
  /\ UNCHANGED <<optVars, step, servers, sid, gate, final, rpcVars, procVars, childVars, readVars,
                 errVars, sent, pipeClosed>>

\* The deferred calls: stdin is closed, the child waited for, the pipe
\* closed and the context given back.
Leave ==
  /\ \/ /\ stage = "leave"
        /\ stdinShut' = TRUE /\ stage' = "wait"
        /\ UNCHANGED <<ctx, pipeClosed>>
     \/ /\ stage = "wait" /\ child # "running"
        /\ pipeClosed' = TRUE
        /\ ctx' = IF ctx = "live" THEN "released" ELSE ctx
        /\ stage' = "done"
        /\ UNCHANGED stdinShut
  /\ UNCHANGED <<optVars, step, servers, sid, gate, final, rpcVars, child, held, childVars, readVars,
                 errVars, sent, res>>

ContextEnds ==
  /\ ctx = "live" /\ stage \notin {"refused", "done"}
  /\ ctx' = ending
  /\ UNCHANGED <<optVars, runVars, rpcVars, child, held, stdinShut, childVars, readVars, errVars, outVars>>

KillOnContext ==
  /\ ctx # "live" /\ child = "running"
  /\ child' = "killed"
  /\ held' \in BOOLEAN
  /\ UNCHANGED <<optVars, runVars, rpcVars, ctx, stdinShut, childVars, readVars, errVars, outVars>>

-----------------------------------------------------------------------------
(* hermes acp (external).                                                  *)

Speak(l) == spoken' = Append(spoken, l)
Count(old) == Cardinality({i \in 1..Len(spoken) : spoken[i].k # "answer" /\ spoken[i].old = old})
Answered(s) == \E i \in 1..Len(spoken) : spoken[i].k = "answer" /\ spoken[i].to = s
SaidOf(old, kinds) == {i \in 1..Len(spoken) : spoken[i].k \in kinds /\ spoken[i].k # "answer" /\ spoken[i].old = old}

Idle == child = "running" /\ granting = {} /\ Len(spoken) - heard < MaxAhead

\* The outcomes of a request.  To a resume, a response without an id is as
\* one that repeats the id it was asked for.  Servers of a transport the runtime does not
\* have make it refuse the session.
Outcomes(s) ==
  CASE s = "init" -> {"ok", "error"}
    [] s = "session" -> IF servers \subseteq advertised \cup {"stdio"}
                          THEN {"noid", "error", IF resume THEN "other" ELSE "ok"} ELSE {"transport"}
    [] s = "model" -> {"ok", "error", "gone"}
    [] s = "prompt" -> {"ok", "cancelled", "error", "gone"}

\* A turn that is said to have ended is answered as it was said.
Agrees(what) == \A i \in SaidOf(FALSE, {"turnEnd"}) : spoken[i].what = what

Answer ==
  /\ Idle /\ asked # "none"
  /\ \E what \in Outcomes(asked) :
       /\ asked = "prompt" => Agrees(StopReason(what))
       /\ Speak([k |-> "answer", to |-> asked, what |-> what])
  /\ \E caps \in IF asked = "init" THEN Capabilities ELSE {advertised} : advertised' = caps
  /\ asked' = "none"
  /\ UNCHANGED <<optVars, runVars, rpcVars, procVars, granting, readVars, errVars, outVars>>

\* History is replayed from session/resume on until the prompt is answered.
Replay ==
  /\ Idle /\ resume /\ Count(TRUE) < MaxOld
  /\ asked = "session" \/ Answered("session")
  /\ \E n \in OldNotes : Speak([k |-> n[1], old |-> TRUE, what |-> n[2]])
  /\ UNCHANGED <<optVars, runVars, rpcVars, procVars, asked, advertised, granting, readVars, errVars, outVars>>

IsOwn(i) == spoken[i].k # "answer" /\ ~spoken[i].old
Rank(i)  == Cardinality({j \in 1..i : IsOwn(j)})

\* What was said of the turn is how this one begins.
Begins(t) == \A i \in 1..Len(spoken) : IsOwn(i) => spoken[i].k = t[Rank(i)]

\* The turn goes on as one that has begun like this.
MayNote(kind) ==
  \E t \in Turns : Count(FALSE) < Len(t) /\ Begins(t) /\ t[Count(FALSE) + 1] = kind

Note ==
  /\ Idle /\ asked = "prompt"
  /\ \E kind \in UNION {Range(t) : t \in Turns}, reason \in {"end", "cancelled"}, offer \in Offers :
       /\ MayNote(kind)
       /\ kind # "turnEnd" => reason = "end"
       /\ Speak([k |-> kind, old |-> FALSE, what |-> reason])
       /\ granting' = IF kind = "ask" THEN offer ELSE {}
  /\ UNCHANGED <<optVars, runVars, rpcVars, procVars, asked, advertised, readVars, errVars, outVars>>

\* An error line of stderr.
Complain ==
  /\ child = "running" /\ asked = "prompt" /\ errSaid = {}
  /\ \E kind \in {"warn", "fatal"} : errSaid' = {kind}
  /\ UNCHANGED <<optVars, runVars, rpcVars, procVars, childVars, readVars, errSeen, outVars>>

Exit ==
  /\ child = "running"
  /\ child' = "exited"
  /\ held' \in BOOLEAN
  /\ UNCHANGED <<optVars, runVars, rpcVars, ctx, stdinShut, childVars, readVars, errVars, outVars>>

Conclude == Exit /\ stdinShut /\ asked = "none"

LetGo ==
  /\ held /\ child # "running"
  /\ held' = FALSE
  /\ UNCHANGED <<optVars, runVars, rpcVars, ctx, child, stdinShut, childVars, readVars, errVars, outVars>>

-----------------------------------------------------------------------------

Init ==
  /\ \E o \in Options : resume = o[1] /\ model = o[2] /\ ending = o[3]
  /\ stage = "start" /\ step = "register" /\ servers = buildACPMcpServers /\ sid = "" /\ gate = FALSE
  /\ pending = "none" /\ slot = "none" /\ promptDone = "none" /\ tools = [old \in BOOLEAN |-> NoTool]
  /\ final = [status |-> "completed", error |-> ""]
  /\ ctx = "live" /\ child = "none" /\ held = FALSE /\ stdinShut = FALSE
  /\ asked = "none" /\ advertised = {} /\ granting = {}
  /\ spoken = <<>> /\ heard = 0 /\ over = FALSE
  /\ errSaid = {} /\ errSeen = {}
  /\ sent = <<>> /\ pipeClosed = FALSE /\ res = NoRes

RunStep    == Start \/ Register \/ Write \/ TakeAnswer \/ GiveUp \/ OpenGate \/ Report \/ Leave
ReaderStep == handleResponse \/ handleAgentRequest \/ handleNotification \/ ReaderEnds
ChildStep  == Answer \/ Conclude

Next ==
  \/ RunStep \/ ReaderStep \/ ReadErr
  \/ ContextEnds \/ KillOnContext
  \/ ChildStep \/ Replay \/ Note \/ Complain \/ Exit \/ LetGo

\* The goroutines run and a kill is delivered.  The child answers what it is
\* asked, unless it waits for a permission, and ends with its stdin; what it
\* left behind need not let go.
Fairness ==
  /\ WF_vars(RunStep) /\ WF_vars(ReaderStep) /\ WF_vars(ReadErr)
  /\ WF_vars(KillOnContext) /\ WF_vars(ChildStep)

Spec == Init /\ [][Next]_vars /\ Fairness
=============================================================================
