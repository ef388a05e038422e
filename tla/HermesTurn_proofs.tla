-------------------------- MODULE HermesTurn_proofs --------------------------
(***************************************************************************)
(* What a run of hermes shows and reports, for every option, configuration *)
(* and script of a turn, and any history the child replays.                *)
(*                                                                         *)
(* HistoryStaysOut rests on when the gate opens: not before the answer to  *)
(* the request for the session was read (GateOK).  TurnIsShown speaks of   *)
(* the messages and of the lines; between them is what the reader keeps of *)
(* a tool call (ToolOK), and that the child's turn follows a script with   *)
(* one.  ResultTellsWhy speaks of the end of a run, and its causes are     *)
(* decided on the way there (SlotOK, EndOK).                               *)
(***************************************************************************)
EXTENDS HermesTurnProps, FiniteSetTheorems, SequenceTheorems, TLAPS

Answers   == {"ok", "noid", "other", "cancelled", "error", "gone"}
Reasons   == {"end", "cancelled"}
AnswerSet == [k : {"answer"}, to : Requests, what : Answers]
NoteSet   == [k : TurnKinds, old : BOOLEAN, what : Reasons]
Lines     == AnswerSet \cup NoteSet
Sendings  == [k : {"text", "gaveup", "use", "result"}, old : BOOLEAN, at : Nat]
Tools     == [st : {"none", "shown", "buffered"}, at : Nat]
Left      == {"leave", "wait", "done"}
Stages    == Requests \cup Left \cup {"start", "refused", "gate", "drain"}
Errors    == {"", "write", "context", "noid", "exited", "error", "gone", "provider"}
Statuses  == {"completed", "failed", "aborted", "timeout"}

RunTypes ==
  /\ resume \in BOOLEAN /\ model \in BOOLEAN /\ ending \in {"deadline", "canceled"}
  /\ stage \in Stages /\ step \in {"register", "write", "await"} /\ gate \in BOOLEAN
  /\ final \in [status : Statuses, error : Errors]
RpcTypes ==
  /\ pending \in {"none"} \cup Requests /\ slot \in {"none", "exited"} \cup Answers
  /\ promptDone \in {"none"} \cup Reasons /\ tools \in [BOOLEAN -> Tools]
ProcTypes ==
  /\ ctx \in {"live", "deadline", "canceled", "released"} /\ held \in BOOLEAN
  /\ child \in {"none", "running", "exited", "killed"}
ChildTypes ==
  /\ asked \in {"none"} \cup Requests /\ spoken \in Seq(Lines)
  /\ heard \in Nat /\ heard <= Len(spoken) /\ over \in BOOLEAN
OutTypes ==
  /\ sent \in Seq(Sendings)
  /\ res \in [status : Statuses \cup {"none"}, error : Errors, id : {"", "asked", "other"}]
  /\ sid \in {"", "asked", "other"}

TypesOK == RunTypes /\ RpcTypes /\ ProcTypes /\ ChildTypes /\ OutTypes

IsAnswer(i, s) == spoken[i].k = "answer" /\ spoken[i].to = s
HeardAnswer(s) == \E i \in 1..heard : IsAnswer(i, s)

\* The stages after a request, of which all but Left are reached by an answer
\* to it.
Past == [s \in Requests |->
           Left \cup {"drain"}
           \cup (IF s = "prompt" THEN {} ELSE {"gate", "prompt"})
           \cup (IF s \in {"init", "session"} THEN {"model"} ELSE {})
           \cup (IF s = "init" THEN {"session"} ELSE {})]

\* The child works on a request once, after it was written, and answers once.
AskOK ==
  /\ \A s \in Requests : asked = s \/ Answered(s) => stage \in Past[s] \/ (stage = s /\ step = "await")
  /\ \A s \in Requests : asked = s => ~Answered(s)
  /\ \A s \in Requests, i, j \in 1..Len(spoken) : IsAnswer(i, s) /\ IsAnswer(j, s) => i = j
  /\ \A s \in {"init", "session"} : stage \in Past[s] \ Left => HeardAnswer(s)

\* What is in the slot is the answer to the request at hand.
SlotOK ==
  /\ pending # "none" => stage = pending
  /\ slot # "none" => stage \in Requests /\ pending = "none"
  /\ slot \notin {"none", "exited"} => HeardAnswer(stage)
  /\ slot = "exited" => over

\* The servers that were sent are of transports the runtime has advertised.
ServersOK == asked = "session" \/ stage = "session" => servers \subseteq advertised \cup {"stdio"}

\* The gate opens after the answer to the session and before the prompt.
GateOK ==
  /\ stage \in {"prompt", "drain"} => gate
  /\ gate => stage \in {"prompt", "drain"} \cup Left /\ HeardAnswer("session")
  /\ asked = "prompt" \/ Answered("prompt") => gate
  /\ ~gate => /\ sent = <<>> /\ tools = [old \in BOOLEAN |-> NoTool] /\ promptDone = "none"
              /\ \A i \in 1..Len(spoken) : ~IsOwn(i)

\* What comes after the session's answer.
Late(i) == \A j \in 1..Len(spoken) : IsAnswer(j, "session") => j < i
LateOK ==
  /\ \A i \in 1..Len(sent) : Late(sent[i].at)
  /\ \A old \in BOOLEAN : tools[old].st # "none" => Late(tools[old].at)

\* The child's turn is one of the scripts so far.
ScriptOK ==
  (\E i \in 1..Len(spoken) : IsOwn(i)) => \E t \in Turns : Count(FALSE) <= Len(t) /\ Begins(t)

\* The texts that were heard since the gate opened, those of the turn among
\* them, are shown in their order.
Texts == {"text", "gaveup"}
TextOK ==
  /\ \A i \in 1..Len(sent) : sent[i].k \in Texts =>
       sent[i].at \in 1..heard /\ spoken[sent[i].at].k = sent[i].k /\ spoken[sent[i].at].old = sent[i].old
  /\ \A h \in 1..heard : IsOwn(h) /\ spoken[h].k \in Texts =>
       \E i \in 1..Len(sent) : sent[i].k = spoken[h].k /\ ~sent[i].old /\ sent[i].at = h
  /\ \A i, j \in 1..Len(sent) : i < j /\ sent[i].k \in Texts /\ sent[j].k \in Texts =>
       sent[i].at < sent[j].at
  /\ \A i \in 1..Len(spoken) : spoken[i].k = "gaveup" => IsOwn(i)

\* What the reader keeps of the turn's tool call is what it has heard of it
\* and not shown.
HeardOwn(kinds) == {i \in 1..heard : IsOwn(i) /\ spoken[i].k \in kinds}
Uses    == Shown({"use"})
Results == Shown({"result"})
Given   == {"start", "open", "args"}

CallOK ==
  /\ \A i, j \in Uses : i = j
  /\ \A i, j \in Results : i = j
  /\ Results # {} <=> HeardOwn({"done"}) # {}
  /\ \A r \in Results : \E u \in Uses : u < r
  /\ \A u \in Uses : \/ sent[u].at \in HeardOwn({"start"})
                     \/ HeardOwn({"done"}) # {} /\ \A i \in HeardOwn(Given) : i <= sent[u].at
KeptOK ==
  LET tool == tools[FALSE]
  IN HeardOwn({"done"}) = {} =>
       /\ tool.st = "none" => Uses = {} /\ HeardOwn({"start", "open"}) = {}
       /\ tool.st = "shown" => Uses # {} /\ HeardOwn({"start"}) # {}
       /\ tool.st = "buffered" => /\ Uses = {} /\ HeardOwn({"open"}) # {}
                                  /\ tool.at \in 1..heard /\ \A i \in HeardOwn(Given) : i <= tool.at
ToolOK == CallOK /\ KeptOK

\* A run is told that its turn was cancelled.
CancelLine(i) == spoken[i].k \in {"answer", "turnEnd"} /\ spoken[i].what = "cancelled"
Cancelled ==
  \E i \in 1..Len(spoken) : CancelLine(i) /\ (spoken[i].k = "turnEnd" /\ spoken[i].old => LateEnd)

\* Why a run ends as it does, once it is decided.
GaveUp == SaidOf(FALSE, {"gaveup"})
Cause(r, id) ==
  /\ r.status = "timeout" => ctx = "deadline"
  /\ r.status = "aborted" => ctx = "canceled" \/ Cancelled
  /\ r.status = "completed" => Answered("prompt")
  /\ r.status = "failed" =>
       /\ r.error # ""
       /\ r.error = "exited" => over
       /\ r.error = "write" => ~Readable
       /\ r.error = "context" => ctx # "live" /\ ~gate
       /\ r.error = "provider" => errSaid # {} \/ GaveUp # {}
       /\ r.error = "noid" => ~resume
       /\ resume /\ r.error = "gone" => id = ""

\* A run that completed is over, and had no error of its provider.
Sound ==
  /\ over /\ ~Readable
  /\ "fatal" \notin errSaid /\ (errSaid = {} \/ Output # {})
  /\ HeardOwn({"gaveup"}) = {}

EndOK ==
  /\ promptDone = "cancelled" => Cancelled
  /\ stage \in {"start", "refused"} <=> child = "none"
  /\ ctx = "released" => stage \in Left \cup {"refused", "drain"}
  /\ Reported <=> stage \in Left
  /\ stage = "drain" => Cause(final, sid)
  /\ Reported => Cause(res, res.id)
  /\ res.status = "completed" => Sound

HInv ==
  /\ TypesOK /\ AskOK /\ SlotOK /\ ServersOK /\ GateOK /\ LateOK /\ ScriptOK
  /\ TextOK /\ ToolOK /\ EndOK

-----------------------------------------------------------------------------
(* The lines of the child.                                                 *)

\* What has been heard is part of what was said.
LEMMA LineFacts ==
  ASSUME TypesOK
  PROVE  /\ heard \in Nat /\ Len(spoken) \in Nat /\ heard <= Len(spoken)
         /\ spoken \in Seq(Lines) /\ \A i \in 1..Len(spoken) : spoken[i] \in Lines
         /\ \A i \in 1..heard : i \in 1..Len(spoken)
         /\ sent \in Seq(Sendings) /\ Len(sent) \in Nat /\ DOMAIN sent = 1..Len(sent)
         /\ \A i \in 1..Len(sent) : sent[i] \in Sendings
<1>1. spoken \in Seq(Lines) /\ heard \in Nat /\ heard <= Len(spoken) /\ sent \in Seq(Sendings)
  BY DEF TypesOK, ChildTypes, OutTypes
<1>2. Len(spoken) \in Nat /\ \A i \in 1..Len(spoken) : spoken[i] \in Lines
  BY <1>1
<1>3. Len(sent) \in Nat /\ DOMAIN sent = 1..Len(sent) /\ \A i \in 1..Len(sent) : sent[i] \in Sendings
  BY <1>1
<1>4. \A i \in 1..heard : i \in 1..Len(spoken)
  BY <1>1, <1>2
<1> QED BY <1>1, <1>2, <1>3, <1>4

\* A line is an answer or a notification.
LEMMA LineKinds ==
  ASSUME NEW l \in Lines
  PROVE  /\ l.k = "answer" => l \in AnswerSet /\ l.to \in Requests /\ l.what \in Answers
         /\ l.k # "answer" => l \in NoteSet /\ l.k \in TurnKinds /\ l.old \in BOOLEAN /\ l.what \in Reasons
         /\ l \in NoteSet => l.k # "answer"
         /\ l \in AnswerSet => l.k = "answer"
  BY DEF Lines, AnswerSet, NoteSet, TurnKinds

\* The stages that follow each request.
LEMMA RequestStages ==
  /\ Requests = {"init", "session", "model", "prompt"}
  /\ Past["init"] = {"session", "model", "gate", "prompt", "drain"} \cup Left
  /\ Past["session"] = {"model", "gate", "prompt", "drain"} \cup Left
  /\ Past["model"] = {"gate", "prompt", "drain"} \cup Left
  /\ Past["prompt"] = {"drain"} \cup Left
  BY DEF Requests, Handshake, Past, Left

\* The reader stays where it is, or nothing was said.
Same == UNCHANGED <<spoken, heard>>

\* If nothing is said or read, all that depends on lines is as it was.
LEMMA SameLog ==
  ASSUME Same
  PROVE  /\ \A s : Answered(s)' <=> Answered(s)
         /\ \A s : HeardAnswer(s)' <=> HeardAnswer(s)
         /\ \A i : IsOwn(i)' <=> IsOwn(i)
         /\ \A old, kinds : SaidOf(old, kinds)' = SaidOf(old, kinds)
         /\ \A kinds : HeardOwn(kinds)' = HeardOwn(kinds)
         /\ LateEnd' <=> LateEnd
         /\ Cancelled' <=> Cancelled
         /\ Count(FALSE)' = Count(FALSE)
         /\ ScriptOK' <=> ScriptOK
<1>1. spoken' = spoken /\ heard' = heard
  BY DEF Same
<1>2. /\ \A s : Answered(s)' <=> Answered(s)
      /\ \A s : HeardAnswer(s)' <=> HeardAnswer(s)
      /\ \A i : IsOwn(i)' <=> IsOwn(i)
      /\ \A old, kinds : SaidOf(old, kinds)' = SaidOf(old, kinds)
      /\ \A kinds : HeardOwn(kinds)' = HeardOwn(kinds)
  BY <1>1 DEF Answered, HeardAnswer, IsAnswer, IsOwn, SaidOf, HeardOwn
<1>3. LateEnd' <=> LateEnd
  BY <1>1 DEF LateEnd, SaidOf, Answered, SessionAnswer
<1>4. Cancelled' <=> Cancelled
  BY <1>1, <1>3 DEF Cancelled, CancelLine
<1>5. Count(FALSE)' = Count(FALSE)
  BY <1>1 DEF Count
<1>6. ScriptOK' <=> ScriptOK
  BY <1>1, <1>5 DEF ScriptOK, Begins, IsOwn, Rank
<1> QED BY <1>2, <1>3, <1>4, <1>5, <1>6

\* Nothing that was said, read, shown or kept changes.
Rests == UNCHANGED <<spoken, heard, sent, tools>>

\* Then what is said of lines and messages holds on.
LEMMA RestsKeeps ==
  ASSUME ScriptOK, TextOK, ToolOK, LateOK, Rests
  PROVE  ScriptOK' /\ TextOK' /\ ToolOK' /\ LateOK' /\ Output' = Output
<1>1. spoken' = spoken /\ heard' = heard /\ sent' = sent /\ tools' = tools /\ Same
  BY DEF Rests, Same
<1>2. ScriptOK'
  BY <1>1, SameLog
<1>3. TextOK'
  BY <1>1 DEF TextOK, IsOwn
<1>4. ToolOK'
  <2>1. Uses' = Uses /\ Results' = Results /\ \A kinds : HeardOwn(kinds)' = HeardOwn(kinds)
    BY <1>1, SameLog DEF Uses, Results, Shown
  <2>2. CallOK'
    BY <1>1, <2>1 DEF ToolOK, CallOK
  <2>3. KeptOK'
    BY <1>1, <2>1 DEF ToolOK, KeptOK
  <2> QED BY <2>2, <2>3 DEF ToolOK
<1>5. LateOK'
  BY <1>1 DEF LateOK, Late, IsAnswer
<1> QED BY <1>1, <1>2, <1>3, <1>4, <1>5 DEF Output

\* What has once been said stays said.
Lasts ==
  /\ ctx # "live" => ctx' = ctx
  /\ Cancelled => Cancelled'
  /\ Answered("prompt") => Answered("prompt")'
  /\ over => over'
  /\ child # "none" /\ ~Readable => ~Readable'
  /\ errSaid # {} => errSaid' # {}
  /\ GaveUp # {} => GaveUp' # {}
  /\ UNCHANGED resume

\* A cause that was there is there.
LEMMA CauseLasts ==
  ASSUME Lasts, gate' = gate, child # "none",
         NEW r, NEW id, Cause(r, id)
  PROVE  Cause(r, id)'
  BY DEF Cause, Lasts

-----------------------------------------------------------------------------
(* The lifecycle goroutine.                                                *)

\* A step that goes on, or stays, along the requests.
Onward  == \A s \in Requests : stage \in Past[s] \/ (stage = s /\ step = "await")
                                 => stage' \in Past[s] \/ (stage' = s /\ step' = "await")
Reached == \A s \in {"init", "session"} : stage' \in Past[s] \ Left => HeardAnswer(s)

\* The lifecycle goroutine goes from a request to the next by its answer.
LEMMA AskGoesOn ==
  ASSUME AskOK, Same, asked' = asked, Onward, Reached
  PROVE  AskOK'
<1>1. \A s : (Answered(s)' <=> Answered(s)) /\ (HeardAnswer(s)' <=> HeardAnswer(s))
  BY SameLog
<1>2. \A s \in Requests : (asked = s \/ Answered(s))' => (stage \in Past[s] \/ (stage = s /\ step = "await"))'
  BY <1>1 DEF AskOK, Onward, Past
<1>3. \A s \in Requests : (asked = s)' => ~Answered(s)'
  BY <1>1 DEF AskOK
<1>4. (\A s \in Requests, i, j \in 1..Len(spoken) : IsAnswer(i, s) /\ IsAnswer(j, s) => i = j)'
  BY DEF AskOK, Same, IsAnswer
<1>5. (\A s \in {"init", "session"} : stage \in Past[s] \ Left => HeardAnswer(s))'
  BY <1>1 DEF Reached, Past
<1> QED BY <1>2, <1>3, <1>4, <1>5 DEF AskOK

\* A step that says nothing takes no cause away.
LEMMA RunLasts ==
  ASSUME Same, UNCHANGED <<over, child, held, errSaid, resume>>, ctx # "live" => ctx' = ctx
  PROVE  Lasts
<1>1. /\ Cancelled' <=> Cancelled
      /\ \A s : Answered(s)' <=> Answered(s)
      /\ \A old, kinds : SaidOf(old, kinds)' = SaidOf(old, kinds)
  BY SameLog
<1>2. GaveUp' = GaveUp
  BY <1>1 DEF GaveUp
<1>3. Readable' <=> Readable
  BY DEF Readable
<1> QED BY <1>1, <1>2, <1>3 DEF Lasts

\* A step of anyone while the run is on.
LEMMA EndGoesOn ==
  ASSUME EndOK, stage' \in Stages \ (Left \cup {"drain", "start", "refused"}), child' # "none", res' = res,
         stage \notin Left, promptDone' = promptDone, Cancelled => Cancelled', ctx' # "released"
  PROVE  EndOK'
<1>1. ~Reported /\ ~Reported' /\ res'.status # "completed"
  BY DEF EndOK, Reported
<1> QED BY <1>1 DEF EndOK, Left

\* What does not change keeps its type.
LEMMA TypesStay ==
  ASSUME TypesOK
  PROVE  /\ UNCHANGED <<resume, model, ending, stage, step, gate, final>> => RunTypes'
         /\ UNCHANGED <<pending, slot, promptDone, tools>> => RpcTypes'
         /\ UNCHANGED <<ctx, child, held>> => ProcTypes'
         /\ UNCHANGED <<asked, spoken, heard, over>> => ChildTypes'
         /\ UNCHANGED <<sent, res, sid>> => OutTypes'
<1>1. UNCHANGED <<resume, model, ending, stage, step, gate, final>> => RunTypes'
  BY DEF TypesOK, RunTypes
<1>2. UNCHANGED <<pending, slot, promptDone, tools>> => RpcTypes'
  BY DEF TypesOK, RpcTypes
<1>3. UNCHANGED <<ctx, child, held>> => ProcTypes'
  BY DEF TypesOK, ProcTypes
<1>4. UNCHANGED <<asked, spoken, heard, over>> => ChildTypes'
  BY DEF TypesOK, ChildTypes
<1>5. UNCHANGED <<sent, res, sid>> => OutTypes'
  BY DEF TypesOK, OutTypes
<1> QED BY <1>1, <1>2, <1>3, <1>4, <1>5

\* The process starts, or is refused.
LEMMA StartKeeps == ASSUME HInv, Start PROVE HInv'
<1> USE DEF HInv
<1>1. /\ stage = "start" /\ stage' \in {"init", "refused"}
      /\ stage' = "init" => child' = "running" /\ ctx' = ctx
      /\ stage' = "refused" => child' = child
      /\ step' \in {step, "register"} /\ ctx' \in {ctx, "released"}
      /\ UNCHANGED <<resume, model, ending, servers, sid, gate, final, pending, slot, promptDone, tools>>
      /\ UNCHANGED <<held, asked, advertised, spoken, heard, over, errSaid, sent, res>>
  <2>1. /\ UNCHANGED <<resume, model, ending, servers, sid, gate, final, pending, slot, promptDone, tools>>
        /\ UNCHANGED <<held, asked, advertised, spoken, heard, over, errSaid, sent, res>>
    BY DEF Start, optVars, rpcVars, childVars, readVars, errVars, outVars
  <2>2. /\ stage = "start" /\ stage' \in {"init", "refused"} /\ step' \in {step, "register"}
        /\ stage' = "init" => child' = "running" /\ ctx' = ctx
        /\ stage' = "refused" => child' = child
        /\ ctx' \in {ctx, "released"}
    <3>1. CASE stage' = "init"
      BY <3>1 DEF Start
    <3>2. CASE stage' # "init"
      BY <3>2 DEF Start
    <3> QED BY <3>1, <3>2
  <2> QED BY <2>1, <2>2
<1>2. Same /\ Rests
  BY <1>1 DEF Same, Rests
<1>3. TypesOK'
  <2>1. RunTypes'
    BY <1>1 DEF TypesOK, RunTypes, Stages, Requests, Handshake
  <2>2. ProcTypes'
    BY <1>1 DEF TypesOK, ProcTypes
  <2> QED BY <1>1, <2>1, <2>2, TypesStay DEF TypesOK
<1>4. AskOK'
  <2>1. asked' = asked
    BY <1>1
  <2>2. Onward
    BY <1>1, RequestStages DEF Onward, Left
  <2>3. Reached
    BY <1>1, RequestStages DEF Reached, Left
  <2> QED BY <1>2, <2>1, <2>2, <2>3, AskGoesOn
<1>5. slot = "none" /\ pending = "none" /\ gate = FALSE
  BY <1>1 DEF SlotOK, GateOK, TypesOK, RunTypes, RpcTypes, Requests, Handshake, Left
<1>6. SlotOK' /\ ServersOK'
  BY <1>1, <1>5 DEF SlotOK, ServersOK
<1>7. GateOK'
  <2>1. Answered("prompt")' <=> Answered("prompt")
    BY <1>2, SameLog
  <2> QED BY <1>1, <1>2, <1>5, <2>1 DEF GateOK, Same, IsOwn, NoTool
<1>8. EndOK'
  <2>1. Cancelled' <=> Cancelled
    BY <1>2, SameLog
  <2>2. ~Reported /\ ~Reported' /\ res'.status # "completed" /\ child = "none"
    BY <1>1 DEF EndOK, Reported, Left
  <2> QED BY <1>1, <2>1, <2>2 DEF EndOK, Left
<1> QED BY <1>2, <1>3, <1>4, <1>6, <1>7, <1>8, RestsKeeps

\* A request is registered.
LEMMA RegisterKeeps == ASSUME HInv, Register PROVE HInv'
<1> USE DEF HInv
<1>1. /\ stage \in Requests /\ step = "register" /\ pending' = stage /\ slot' = "none" /\ step' = "write"
      /\ UNCHANGED <<resume, model, ending, stage, servers, sid, gate, final, promptDone, tools>>
      /\ UNCHANGED <<ctx, child, held, asked, advertised, spoken, heard, over, errSaid, sent, res>>
  BY DEF Register, optVars, procVars, childVars, readVars, errVars, outVars
<1>2. Same /\ Rests
  BY <1>1 DEF Same, Rests
<1>3. TypesOK'
  <2>1. RunTypes' /\ RpcTypes'
    BY <1>1 DEF TypesOK, RunTypes, RpcTypes
  <2> QED BY <1>1, <2>1, TypesStay DEF TypesOK
<1>4. AskOK'
  <2>1. asked' = asked /\ Onward
    BY <1>1 DEF Onward
  <2>2. Reached
    BY <1>1 DEF Reached, AskOK
  <2> QED BY <1>2, <2>1, <2>2, AskGoesOn
<1>5. SlotOK' /\ ServersOK'
  BY <1>1 DEF SlotOK, ServersOK, Requests, Handshake
<1>6. GateOK'
  <2>1. (Answered("prompt")' <=> Answered("prompt")) /\ (HeardAnswer("session")' <=> HeardAnswer("session"))
    BY <1>2, SameLog
  <2> QED BY <1>1, <1>2, <2>1 DEF GateOK, Same, IsOwn, NoTool
<1>7. EndOK'
  <2>1. Cancelled => Cancelled'
    BY <1>2, SameLog
  <2>2. stage \notin Left \cup {"drain", "start", "refused"}
    BY <1>1 DEF Requests, Handshake, Left
  <2>3. child' # "none" /\ ctx' # "released" /\ res' = res /\ promptDone' = promptDone
    BY <1>1, <2>2 DEF EndOK, Left
  <2> QED BY <1>1, <1>3, <2>1, <2>2, <2>3, EndGoesOn DEF TypesOK, RunTypes
<1> QED BY <1>2, <1>3, <1>4, <1>5, <1>6, <1>7, RestsKeeps

\* A request that has failed ends the run.
FailsFor(error) ==
  /\ error \in Errors \ {"", "provider"}
  /\ error = "exited" => over
  /\ error = "write" => ~Readable
  /\ error = "context" => ctx # "live"
  /\ error = "noid" => ~resume

\* A request fails: a handshake reports, the prompt hangs up.
LEMMA FailKeeps ==
  ASSUME HInv, stage \in Requests, NEW error, FailsFor(error), Fail(error),
         UNCHANGED <<resume, model, ending, gate, tools, child, held>>,
         UNCHANGED <<asked, advertised, spoken, heard, over, errSaid, sent>>
  PROVE  HInv'
<1> USE DEF HInv
<1>1. /\ pending' = "none" /\ slot' = "none" /\ UNCHANGED <<servers, step, promptDone>>
      /\ stage = "prompt" => FailPrompt(error)
      /\ stage # "prompt" => FailHandshake(error)
  BY DEF Fail
<1>2. Same /\ Rests
  BY DEF Same, Rests
<1>3. stage' \in {"drain", "leave"} /\ (ctx # "live" => ctx' = ctx) /\ (ctx = "live" => ctx' \in {"live", "released"})
  BY <1>1 DEF FailPrompt, HangUp, FailHandshake
<1>4. ASSUME stage = "prompt"
      PROVE  /\ stage' = "drain" /\ res' = res
             /\ final'.status = ContextStatus /\ final'.error = error
             /\ final' \in [status : Statuses, error : Errors]
             /\ sid' \in {sid, ""}
             /\ ContextStatus = "failed" /\ resume /\ error = "gone" => sid' = ""
  <2>1. /\ stage' = "drain" /\ res' = res
        /\ final' = [status |-> ContextStatus, error |-> error]
        /\ sid' = IF ContextStatus = "failed" /\ Lost(error) THEN "" ELSE sid
    BY <1>1, <1>4 DEF FailPrompt, HangUp
  <2>2. ContextStatus \in Statuses /\ error \in Errors
    BY DEF ContextStatus, Statuses, FailsFor
  <2> QED BY <2>1, <2>2 DEF Lost
<1>5. ASSUME stage # "prompt"
      PROVE  /\ stage' = "leave" /\ UNCHANGED <<final, sid, ctx>>
             /\ res'.status = "failed" /\ res'.error = error /\ res'.id \in {sid, ""}
             /\ res' \in [status : Statuses \cup {"none"}, error : Errors, id : {"", "asked", "other"}]
             /\ resume /\ error = "gone" => res'.id = ""
  <2>1. /\ stage' = "leave" /\ UNCHANGED <<final, sid, ctx>>
        /\ res' = [status |-> "failed", error |-> error, id |-> IF stage = "model" /\ ~Lost(error) THEN sid ELSE ""]
    BY <1>1, <1>5 DEF FailHandshake
  <2>2. error \in Errors /\ sid \in {"", "asked", "other"} /\ "failed" \in Statuses
    BY DEF FailsFor, TypesOK, OutTypes, Statuses
  <2> QED BY <2>1, <2>2 DEF Lost
<1>12. TypesOK'
  <2>1. RunTypes'
    BY <1>1, <1>3, <1>4, <1>5 DEF TypesOK, RunTypes, Stages, Left
  <2>2. RpcTypes' /\ ProcTypes'
    BY <1>1, <1>3 DEF TypesOK, RpcTypes, ProcTypes
  <2>3. OutTypes'
    BY <1>4, <1>5 DEF TypesOK, OutTypes
  <2> QED BY <2>1, <2>2, <2>3, TypesStay DEF TypesOK
<1>6. AskOK'
  <2>1. Onward
    BY <1>3, RequestStages DEF Onward, Left
  <2>2. Reached
    <3>1. stage' # "leave" => stage = "prompt"
      BY <1>5
    <3> QED BY <1>3, <3>1, RequestStages DEF Reached, AskOK, Left
  <2> QED BY <1>2, <2>1, <2>2, AskGoesOn
<1>7. SlotOK'
  BY <1>1 DEF SlotOK
<1>8. ServersOK'
  BY <1>1, <1>2, <1>3 DEF ServersOK
<1>9. gate <=> stage = "prompt"
  BY DEF GateOK, Requests, Handshake, Left
<1>10. GateOK'
  <2>1. (Answered("prompt")' <=> Answered("prompt")) /\ (HeardAnswer("session")' <=> HeardAnswer("session"))
    BY <1>2, SameLog
  <2>2. stage' = "drain" => gate
    BY <1>5, <1>9
  <2> QED BY <1>1, <1>2, <1>3, <2>1, <2>2 DEF GateOK, Same, IsOwn, NoTool, Left
<1>11. EndOK'
  <2>1. Lasts /\ (Cancelled' <=> Cancelled) /\ (Readable' <=> Readable)
    BY <1>2, <1>3, RunLasts, SameLog DEF Readable
  <2>2. child # "none" /\ ctx # "released" /\ ~Reported
    BY DEF EndOK, Requests, Handshake, Left
  <2>3. CASE stage = "prompt"
    <3>1. ~Reported'
      BY <1>4, <2>2, <2>3 DEF Reported
    <3>2. Cause(final, sid)'
      <4>1. final'.status = ContextStatus /\ final'.error = error
        BY <1>4, <2>3
      <4>2. ContextStatus = "timeout" => ctx = "deadline"
        BY DEF ContextStatus
      <4>3. ContextStatus = "aborted" => ctx = "canceled"
        BY DEF ContextStatus
      <4>4. ContextStatus # "completed" /\ (ContextStatus = "failed" => ctx = "live")
        BY <2>2 DEF ContextStatus, TypesOK, ProcTypes
      <4>5. ContextStatus = "failed" /\ resume /\ error = "gone" => sid' = ""
        BY <1>4, <2>3
      <4> QED BY <1>2, <1>3, <2>1, <4>1, <4>2, <4>3, <4>4, <4>5 DEF Cause, FailsFor
    <3> QED BY <1>1, <1>3, <1>4, <2>1, <2>2, <2>3, <3>1, <3>2 DEF EndOK, Left, Reported
  <2>4. CASE stage # "prompt"
    <3>1. Reported' /\ res'.status = "failed" /\ res'.error = error
      BY <1>5, <2>4 DEF Reported
    <3>2. resume /\ error = "gone" => res'.id = ""
      BY <1>5, <2>4
    <3>3. Cause(res, res.id)'
      BY <1>2, <1>3, <1>9, <2>1, <2>4, <3>1, <3>2 DEF Cause, FailsFor
    <3> QED BY <1>1, <1>3, <1>5, <2>1, <2>2, <2>4, <3>1, <3>3 DEF EndOK, Left
  <2> QED BY <2>3, <2>4
<1> QED BY <1>2, <1>6, <1>7, <1>8, <1>10, <1>11, <1>12, RestsKeeps

\* A request is written, or stdin is gone.
LEMMA WriteKeeps == ASSUME HInv, Write PROVE HInv'
<1> USE DEF HInv
<1>1. /\ stage \in Requests /\ step = "write"
      /\ UNCHANGED <<resume, model, ending, gate, tools, child, held>>
      /\ UNCHANGED <<advertised, spoken, heard, over, errSaid, sent>>
  BY DEF Write, optVars, readVars, errVars
<1>2. CASE Readable
  <2>1. /\ asked' = (IF child = "running" THEN stage ELSE asked) /\ step' = "await"
        /\ UNCHANGED <<stage, servers, sid, final, pending, slot, promptDone, ctx, res>>
    BY <1>2 DEF Write
  <2>2. Same /\ Rests
    BY <1>1 DEF Same, Rests
  <2>3. TypesOK'
    <3>1. RunTypes' /\ ChildTypes'
      BY <1>1, <2>1 DEF TypesOK, RunTypes, ChildTypes
    <3> QED BY <1>1, <2>1, <3>1, TypesStay DEF TypesOK
  <2>4. /\ \A s : Answered(s)' <=> Answered(s)
        /\ \A s : HeardAnswer(s)' <=> HeardAnswer(s)
    BY <2>2, SameLog
  <2>5. AskOK'
    <3>1. ~Answered(stage) /\ stage \notin Past[stage]
      BY <1>1, RequestStages DEF AskOK, Left
    <3>2. asked' \in {stage, asked}
      BY <2>1
    <3>3. \A s \in Requests : (asked = s \/ Answered(s))' => (stage \in Past[s] \/ (stage = s /\ step = "await"))'
      BY <1>1, <2>1, <2>4, <3>2 DEF AskOK, Past
    <3>4. \A s \in Requests : (asked = s)' => ~Answered(s)'
      BY <2>4, <3>1, <3>2 DEF AskOK
    <3>5. (\A s \in Requests, i, j \in 1..Len(spoken) : IsAnswer(i, s) /\ IsAnswer(j, s) => i = j)'
      BY <2>2 DEF AskOK, Same, IsAnswer
    <3>6. (\A s \in {"init", "session"} : stage \in Past[s] \ Left => HeardAnswer(s))'
      BY <2>1, <2>4 DEF AskOK, Past
    <3> QED BY <3>3, <3>4, <3>5, <3>6 DEF AskOK
  <2>6. SlotOK' /\ ServersOK'
    <3>1. SlotOK'
      BY <1>1, <2>1, <2>4 DEF SlotOK
    <3>2. ServersOK'
      BY <1>1, <2>1 DEF ServersOK
    <3> QED BY <3>1, <3>2
  <2>7. GateOK'
    <3>1. asked' = "prompt" => gate
      BY <1>1, <2>1 DEF GateOK
    <3> QED BY <1>1, <2>1, <2>2, <2>4, <3>1 DEF GateOK, Same, IsOwn, NoTool
  <2>8. EndOK'
    <3>1. Cancelled => Cancelled'
      BY <2>2, SameLog
    <3>2. stage \notin Left \cup {"drain", "start", "refused"}
      BY <1>1 DEF Requests, Handshake, Left
    <3>3. child' # "none" /\ ctx' # "released"
      BY <1>1, <2>1, <3>2 DEF EndOK
    <3> QED BY <2>1, <2>3, <3>1, <3>2, <3>3, EndGoesOn DEF TypesOK, RunTypes
  <2> QED BY <2>2, <2>3, <2>5, <2>6, <2>7, <2>8, RestsKeeps
<1>3. CASE ~Readable
  <2>1. Fail("write") /\ asked' = asked
    BY <1>3 DEF Write
  <2>2. FailsFor("write")
    BY <1>3 DEF FailsFor, Errors
  <2> QED BY <1>1, <2>1, <2>2, FailKeeps
<1> QED BY <1>2, <1>3

\* The context ends a wait.
LEMMA GiveUpKeeps == ASSUME HInv, GiveUp PROVE HInv'
<1>1. /\ stage \in Requests /\ ctx # "live" /\ Fail("context")
      /\ UNCHANGED <<resume, model, ending, gate, tools, child, held>>
      /\ UNCHANGED <<asked, advertised, spoken, heard, over, errSaid, sent>>
  BY DEF GiveUp, optVars, childVars, readVars, errVars
<1>2. FailsFor("context")
  BY <1>1 DEF FailsFor, Errors
<1> QED BY <1>1, <1>2, FailKeeps

\* The answer to a request of the handshake leads to the next.
LEMMA ProceedKeeps ==
  ASSUME HInv, stage \in Handshake, step = "await", NEW answer, Proceed(answer), slot # "none", slot # "exited",
         slot' = "none", UNCHANGED pending, UNCHANGED <<resume, model, ending, gate, tools, child, held>>,
         UNCHANGED <<asked, advertised, spoken, heard, over, errSaid, sent>>
  PROVE  HInv'
<1> USE DEF HInv
<1>1. /\ stage = "init" => stage' = "session" /\ servers' = filterACPMcpServersByCapability(advertised)
      /\ stage = "session" => stage' \in {"model", "gate"}
      /\ stage = "model" => stage' = "gate"
      /\ stage # "init" => servers' = servers
      /\ step' = "register" /\ sid' \in {sid, "other", "asked"}
      /\ UNCHANGED <<final, ctx, res, promptDone>>
  BY DEF Proceed, resolveResumedSessionID, Handshake
<1>2. Same /\ Rests
  BY DEF Same, Rests
<1>3. HeardAnswer(stage) /\ pending = "none"
  BY DEF SlotOK
<1>4. stage' \in {"session", "model", "gate"} /\ stage \in {"init", "session", "model"}
  BY <1>1 DEF Handshake
<1>5. /\ \A s : Answered(s)' <=> Answered(s)
      /\ \A s : HeardAnswer(s)' <=> HeardAnswer(s)
  BY <1>2, SameLog
<1>6. TypesOK'
  <2>1. RunTypes' /\ RpcTypes'
    BY <1>1, <1>4 DEF TypesOK, RunTypes, RpcTypes, Stages, Requests, Handshake
  <2>2. OutTypes'
    BY <1>1 DEF TypesOK, OutTypes
  <2> QED BY <1>1, <2>1, <2>2, TypesStay DEF TypesOK
<1>7. AskOK'
  <2>1. Onward
    BY <1>1, <1>4, RequestStages DEF Onward, Left
  <2>2. Reached
    <3>1. stage # "init" => HeardAnswer("init")
      BY <1>4, RequestStages DEF AskOK, Left
    <3>2. stage' # "session" => HeardAnswer("init")
      BY <1>1, <1>4, <3>1
    <3>3. stage' = "session" => HeardAnswer("init")
      BY <1>1, <1>3, <1>4
    <3>4. stage' \in {"model", "gate"} => HeardAnswer("session")
      BY <1>1, <1>3, <1>4, RequestStages DEF AskOK, Left
    <3> QED BY <1>4, <3>2, <3>3, <3>4, RequestStages DEF Reached
  <2> QED BY <1>2, <2>1, <2>2, AskGoesOn
<1>8. SlotOK'
  BY <1>3 DEF SlotOK
<1>9. ServersOK'
  <2>1. CASE stage = "init"
    BY <1>1, <2>1 DEF ServersOK, filterACPMcpServersByCapability
  <2>2. CASE stage # "init"
    BY <1>1, <1>4, <2>2 DEF ServersOK
  <2> QED BY <2>1, <2>2
<1>10. GateOK'
  <2>1. ~gate
    BY <1>4 DEF GateOK, Left
  <2> QED BY <1>1, <1>2, <1>4, <1>5, <2>1 DEF GateOK, Same, IsOwn, NoTool
<1>11. EndOK'
  <2>1. Cancelled => Cancelled'
    BY <1>2, SameLog
  <2>2. stage \notin Left \cup {"drain", "start", "refused"} /\ stage' \notin Left \cup {"drain", "start", "refused"}
    BY <1>4 DEF Left
  <2>3. child' # "none" /\ ctx' # "released"
    BY <1>1, <2>2 DEF EndOK
  <2> QED BY <1>1, <1>6, <2>1, <2>2, <2>3, EndGoesOn DEF TypesOK, RunTypes
<1> QED BY <1>2, <1>6, <1>7, <1>8, <1>9, <1>10, <1>11, RestsKeeps

\* The prompt's answer decides the end.
LEMMA PromptAnsweredKeeps ==
  ASSUME HInv, stage = "prompt", PromptAnswered, slot # "none", slot # "exited",
         slot' = "none", UNCHANGED pending, UNCHANGED <<resume, model, ending, gate, tools, child, held>>,
         UNCHANGED <<asked, advertised, spoken, heard, over, errSaid, sent>>
  PROVE  HInv'
<1> USE DEF HInv
<1>1. /\ final'.status = (IF promptDone = "cancelled" THEN "aborted" ELSE "completed")
      /\ final' \in [status : Statuses, error : Errors]
      /\ promptDone' = "none" /\ stage' = "drain" /\ UNCHANGED <<step, servers, sid, res>>
      /\ (ctx # "live" => ctx' = ctx) /\ (ctx = "live" => ctx' = "released")
  <2>1. final' = [status |-> IF promptDone = "cancelled" THEN "aborted" ELSE "completed", error |-> ""]
    BY DEF PromptAnswered
  <2>2. promptDone' = "none" /\ stage' = "drain" /\ UNCHANGED <<step, servers, sid, res>>
        /\ (ctx # "live" => ctx' = ctx) /\ (ctx = "live" => ctx' = "released")
    BY DEF PromptAnswered, HangUp
  <2>3. "aborted" \in Statuses /\ "completed" \in Statuses /\ "" \in Errors
    BY DEF Statuses, Errors
  <2> QED BY <2>1, <2>2, <2>3
<1>2. Same /\ Rests
  BY DEF Same, Rests
<1>3. HeardAnswer("prompt") /\ pending = "none"
  BY DEF SlotOK
<1>4. /\ \A s : Answered(s)' <=> Answered(s)
      /\ \A s : HeardAnswer(s)' <=> HeardAnswer(s)
  BY <1>2, SameLog
<1>5. TypesOK'
  <2>1. RunTypes' /\ RpcTypes' /\ ProcTypes'
    BY <1>1 DEF TypesOK, RunTypes, RpcTypes, ProcTypes, Stages
  <2> QED BY <1>1, <2>1, TypesStay DEF TypesOK
<1>6. AskOK'
  <2>1. Onward
    BY <1>1, RequestStages DEF Onward, Left
  <2>2. Reached
    BY <1>1, RequestStages DEF Reached, AskOK, Left
  <2> QED BY <1>2, <2>1, <2>2, AskGoesOn
<1>7. SlotOK' /\ ServersOK'
  BY <1>1, <1>3 DEF SlotOK, ServersOK
<1>8. GateOK'
  BY <1>1, <1>2, <1>4 DEF GateOK, Same, IsOwn, NoTool
<1>9. Answered("prompt")
  <2>1. PICK i \in 1..heard : IsAnswer(i, "prompt")
    BY <1>3 DEF HeardAnswer
  <2>2. i \in 1..Len(spoken)
    BY <2>1, LineFacts
  <2> QED BY <2>1, <2>2 DEF Answered, IsAnswer
<1>10. EndOK'
  <2>1. Cancelled' <=> Cancelled
    BY <1>2, SameLog
  <2>2. child # "none" /\ ~Reported /\ ~Reported' /\ res'.status = "none"
    BY <1>1 DEF EndOK, Reported, Left
  <2>3. Cause(final, sid)'
    BY <1>1, <1>4, <1>9, <2>1 DEF Cause, EndOK
  <2> QED BY <1>1, <2>1, <2>2, <2>3 DEF EndOK, Left
<1> QED BY <1>2, <1>5, <1>6, <1>7, <1>8, <1>10, RestsKeeps

\* The answer in the slot is taken.
LEMMA TakeAnswerKeeps == ASSUME HInv, TakeAnswer PROVE HInv'
<1>1. /\ stage \in Requests /\ step = "await" /\ slot # "none"
      /\ UNCHANGED <<resume, model, ending, gate, tools, child, held>>
      /\ UNCHANGED <<asked, advertised, spoken, heard, over, errSaid, sent>>
  BY DEF TakeAnswer, optVars, childVars, readVars, errVars
<1>2. slot \in {"none", "exited"} \cup Answers
  BY DEF HInv, TypesOK, RpcTypes
<1>3. CASE slot \in Refusals /\ Fail(slot)
  <2>1. slot \in {"error", "gone", "exited"}
    BY <1>2, <1>3 DEF Refusals, Answers
  <2>2. FailsFor(slot)
    BY <2>1 DEF FailsFor, Errors, HInv, SlotOK
  <2> QED BY <1>1, <1>3, <2>2, FailKeeps
<1>4. CASE slot = "noid" /\ ~resume /\ Fail("noid")
  <2>1. FailsFor("noid")
    BY <1>4 DEF FailsFor, Errors
  <2> QED BY <1>1, <1>4, <2>1, FailKeeps
<1>5. CASE /\ slot \notin Refusals
           /\ slot' = "none" /\ UNCHANGED pending
           /\ IF stage = "prompt" THEN PromptAnswered ELSE Proceed(slot)
  <2>1. slot # "exited"
    BY <1>5 DEF Refusals
  <2>2. CASE stage = "prompt"
    BY <1>1, <1>5, <2>1, <2>2, PromptAnsweredKeeps
  <2>3. CASE stage # "prompt"
    <3>1. stage \in Handshake
      BY <1>1, <2>3 DEF Requests
    <3> QED BY <1>1, <1>5, <2>1, <2>3, <3>1, ProceedKeeps
  <2> QED BY <2>2, <2>3
<1> QED BY <1>3, <1>4, <1>5 DEF TakeAnswer

\* The gate opens behind the session's answer.
LEMMA OpenGateKeeps == ASSUME HInv, OpenGate PROVE HInv'
<1> USE DEF HInv
<1>1. /\ stage = "gate" /\ stage' = "prompt" /\ gate' = TRUE
      /\ UNCHANGED <<resume, model, ending, step, servers, sid, final, pending, slot, promptDone, tools>>
      /\ UNCHANGED <<ctx, child, held, asked, advertised, spoken, heard, over, errSaid, sent, res>>
  BY DEF OpenGate, optVars, rpcVars, procVars, childVars, readVars, errVars, outVars
<1>2. Same /\ Rests
  BY <1>1 DEF Same, Rests
<1>3. TypesOK'
  <2>1. RunTypes'
    BY <1>1 DEF TypesOK, RunTypes, Stages, Requests, Handshake
  <2> QED BY <1>1, <2>1, TypesStay DEF TypesOK
<1>4. AskOK'
  <2>1. Onward
    BY <1>1, RequestStages DEF Onward, Left
  <2>2. Reached
    BY <1>1, RequestStages DEF Reached, AskOK, Left
  <2> QED BY <1>1, <1>2, <2>1, <2>2, AskGoesOn
<1>5. SlotOK' /\ ServersOK'
  BY <1>1 DEF SlotOK, ServersOK, Requests, Handshake, TypesOK, RpcTypes
<1>6. GateOK'
  <2>1. HeardAnswer("session")
    BY <1>1, RequestStages DEF AskOK, Left
  <2>2. HeardAnswer("session")'
    BY <1>2, <2>1, SameLog
  <2> QED BY <1>1, <2>2 DEF GateOK
<1>7. EndOK'
  <2>1. Cancelled => Cancelled'
    BY <1>2, SameLog
  <2>2. child' # "none" /\ ctx' # "released"
    BY <1>1 DEF EndOK, Left
  <2> QED BY <1>1, <1>3, <2>1, <2>2, EndGoesOn DEF TypesOK, RunTypes, Left
<1> QED BY <1>2, <1>3, <1>4, <1>5, <1>6, <1>7, RestsKeeps

\* The verdict: what completed is sound, what failed has its cause.
LEMMA ReportKeeps == ASSUME HInv, Report PROVE HInv'
<1> USE DEF HInv
<1> DEFINE end == promoteACPResultOnProviderError(errSeen)
<1>1. /\ stage = "drain" /\ stage' = "leave" /\ over /\ errSeen = errSaid /\ ~Readable
      /\ res' = [status |-> end.status, error |-> end.error, id |-> sid]
      /\ UNCHANGED <<resume, model, ending, step, servers, sid, gate, final, pending, slot, promptDone, tools>>
      /\ UNCHANGED <<ctx, child, held, asked, advertised, spoken, heard, over, errSaid, sent>>
  BY DEF Report, stderrDone, optVars, rpcVars, procVars, childVars, readVars, errVars
<1>2. Same /\ Rests
  BY <1>1 DEF Same, Rests
<1> DEFINE told == /\ final.status = "completed"
                   /\ \/ "fatal" \in errSaid
                      \/ \E m \in Output : m.k = "gaveup"
                      \/ Output = {} /\ errSaid # {}
<1>3. end = IF told THEN [status |-> "failed", error |-> "provider"] ELSE final
  BY <1>1 DEF promoteACPResultOnProviderError
<1> HIDE DEF end
<1>4. final \in [status : Statuses, error : Errors]
  BY DEF TypesOK, RunTypes
<1>5. end \in [status : Statuses, error : Errors]
  BY <1>3, <1>4 DEF Statuses, Errors
<1>6. /\ res' \in [status : Statuses \cup {"none"}, error : Errors, id : {"", "asked", "other"}]
      /\ res'.status = end.status /\ res'.error = end.error /\ res'.id = sid /\ res'.status # "none"
  BY <1>1, <1>5 DEF TypesOK, OutTypes, Statuses
<1>7. TypesOK'
  <2>1. RunTypes'
    BY <1>1 DEF TypesOK, RunTypes, Stages, Left
  <2>2. OutTypes'
    BY <1>1, <1>6 DEF TypesOK, OutTypes
  <2> QED BY <1>1, <2>1, <2>2, TypesStay DEF TypesOK
<1>8. AskOK'
  <2>1. Onward
    BY <1>1, RequestStages DEF Onward, Left
  <2>2. Reached
    BY <1>1 DEF Reached, Left
  <2> QED BY <1>1, <1>2, <2>1, <2>2, AskGoesOn
<1>9. SlotOK' /\ ServersOK'
  BY <1>1 DEF SlotOK, ServersOK, Requests, Handshake, TypesOK, RpcTypes
<1>10. GateOK'
  <2>1. (Answered("prompt")' <=> Answered("prompt")) /\ (HeardAnswer("session")' <=> HeardAnswer("session"))
    BY <1>2, SameLog
  <2> QED BY <1>1, <1>2, <2>1 DEF GateOK, Same, IsOwn, NoTool, Left
<1>11. DOMAIN sent = 1..Len(sent)
  BY LineFacts
<1>12. EndOK'
  <2>1. /\ Cancelled' <=> Cancelled
        /\ \A s : Answered(s)' <=> Answered(s)
        /\ \A old, kinds : SaidOf(old, kinds)' = SaidOf(old, kinds)
        /\ \A kinds : HeardOwn(kinds)' = HeardOwn(kinds)
    BY <1>2, SameLog
  <2>2. (Readable' <=> Readable) /\ Output' = Output /\ GaveUp' = GaveUp
    BY <1>1, <2>1 DEF Readable, Output, GaveUp
  <2>3. Reported'
    BY <1>6 DEF Reported
  <2>4. Cause(final, sid)
    BY <1>1 DEF EndOK
  <2>5. Cause(res, res.id)'
    <3>1. CASE told
      <4>1. end.status = "failed" /\ end.error = "provider"
        BY <1>3, <3>1
      <4>2. errSaid # {} \/ GaveUp # {}
        <5>1. CASE \E m \in Output : m.k = "gaveup"
          <6>1. PICK i \in 1..Len(sent) : sent[i].k = "gaveup"
            BY <1>11, <5>1 DEF Output, Range
          <6>2. sent[i].at \in 1..heard /\ spoken[sent[i].at].k = "gaveup"
            BY <6>1 DEF TextOK, Texts
          <6>3. sent[i].at \in 1..Len(spoken)
            BY <6>2, LineFacts
          <6>4. IsOwn(sent[i].at)
            BY <6>2, <6>3 DEF TextOK
          <6> QED BY <6>2, <6>3, <6>4, LineFacts, LineKinds DEF GaveUp, SaidOf, IsOwn
        <5> QED BY <3>1, <5>1
      <4> QED BY <1>1, <1>6, <2>2, <4>1, <4>2 DEF Cause
    <3>2. CASE ~told
      <4>1. res'.status = final.status /\ res'.error = final.error /\ res'.id = sid
        BY <1>3, <1>6, <3>2
      <4> QED BY <1>1, <2>1, <2>2, <2>4, <4>1 DEF Cause
    <3> QED BY <3>1, <3>2
  <2>6. res'.status = "completed" => Sound'
    <3> SUFFICES ASSUME res'.status = "completed" PROVE Sound'
      OBVIOUS
    <3>1. ~told /\ final.status = "completed"
      BY <1>3, <1>6
    <3>2. "fatal" \notin errSaid /\ (errSaid = {} \/ Output # {}) /\ ~\E m \in Output : m.k = "gaveup"
      BY <3>1
    <3>3. HeardOwn({"gaveup"}) = {}
      <4> SUFFICES ASSUME NEW h \in HeardOwn({"gaveup"}) PROVE FALSE
        OBVIOUS
      <4>1. h \in 1..heard /\ IsOwn(h) /\ spoken[h].k = "gaveup"
        BY DEF HeardOwn
      <4>2. PICK i \in 1..Len(sent) : sent[i].k = "gaveup"
        BY <4>1 DEF TextOK, Texts
      <4>3. sent[i] \in Output
        BY <1>11, <4>2 DEF Output, Range
      <4> QED BY <3>2, <4>2, <4>3
    <3> QED BY <1>1, <2>1, <2>2, <3>2, <3>3 DEF Sound
  <2> QED BY <1>1, <2>1, <2>3, <2>5, <2>6 DEF EndOK, Left
<1> QED BY <1>2, <1>7, <1>8, <1>9, <1>10, <1>12, RestsKeeps

\* The deferred calls.
LEMMA LeaveKeeps == ASSUME HInv, Leave PROVE HInv'
<1> USE DEF HInv
<1>1. /\ UNCHANGED <<resume, model, ending, step, servers, sid, gate, final, pending, slot, promptDone, tools>>
      /\ UNCHANGED <<child, held, asked, advertised, spoken, heard, over, errSaid, sent, res>>
  BY DEF Leave, optVars, rpcVars, childVars, readVars, errVars
<1>2. /\ stage \in Left /\ stage' \in Left
      /\ (ctx # "live" => ctx' = ctx) /\ (ctx = "live" => ctx' \in {"live", "released"})
  BY DEF Leave, Left
<1>3. Same /\ Rests
  BY <1>1 DEF Same, Rests
<1>4. TypesOK'
  <2>1. RunTypes' /\ ProcTypes'
    BY <1>1, <1>2 DEF TypesOK, RunTypes, ProcTypes, Stages
  <2> QED BY <1>1, <2>1, TypesStay DEF TypesOK
<1>5. AskOK'
  <2>1. Onward
    BY <1>2, RequestStages DEF Onward
  <2>2. Reached
    BY <1>2 DEF Reached
  <2> QED BY <1>1, <1>3, <2>1, <2>2, AskGoesOn
<1>6. SlotOK' /\ ServersOK'
  BY <1>1, <1>2 DEF SlotOK, ServersOK, Requests, Handshake, TypesOK, RpcTypes, Left
<1>7. GateOK'
  <2>1. (Answered("prompt")' <=> Answered("prompt")) /\ (HeardAnswer("session")' <=> HeardAnswer("session"))
    BY <1>3, SameLog
  <2> QED BY <1>1, <1>2, <1>3, <2>1 DEF GateOK, Same, IsOwn, NoTool, Left
<1>8. EndOK'
  <2>1. Lasts /\ (Cancelled' <=> Cancelled)
    BY <1>1, <1>2, <1>3, RunLasts, SameLog
  <2>2. Reported /\ child # "none" /\ Reported'
    BY <1>1, <1>2 DEF EndOK, Left, Reported
  <2>3. Cause(res, res.id)'
    <3>1. Cause(res, res.id)
      BY <2>2 DEF EndOK
    <3> QED BY <1>1, <2>1, <2>2, <3>1, CauseLasts
  <2>4. \A kinds : HeardOwn(kinds)' = HeardOwn(kinds)
    BY <1>3, SameLog
  <2>5. Sound => Sound'
    BY <1>1, <2>4 DEF Sound, Readable, Output
  <2> QED BY <1>1, <1>2, <2>1, <2>2, <2>3, <2>5 DEF EndOK, Left
<1> QED BY <1>3, <1>4, <1>5, <1>6, <1>7, <1>8, RestsKeeps

-----------------------------------------------------------------------------
(* The context, the process and its stderr.                                *)

Aside ==
  /\ UNCHANGED <<resume, model, ending, stage, step, servers, sid, gate, final>>
  /\ UNCHANGED <<pending, slot, promptDone, tools, asked, advertised, spoken, heard, over, sent, res>>

\* A step beside the conversation with the child.
LEMMA AsideKeeps ==
  ASSUME HInv, Aside, ProcTypes', ctx # "live" => ctx' = ctx, ctx' # ctx => ctx' # "released",
         child' = "none" <=> child = "none", child # "none" /\ ~Readable => ~Readable' /\ errSaid' = errSaid,
         errSaid # {} => errSaid' # {}
  PROVE  HInv'
<1> USE DEF HInv
<1>1. /\ UNCHANGED <<resume, model, ending, stage, step, servers, sid, gate, final>>
      /\ UNCHANGED <<pending, slot, promptDone, tools, asked, advertised, spoken, heard, over, sent, res>>
  BY DEF Aside
<1>2. Same /\ Rests
  BY <1>1 DEF Same, Rests
<1>3. TypesOK'
  BY <1>1, TypesStay DEF TypesOK
<1>4. AskOK'
  <2>1. Onward /\ Reached
    BY <1>1 DEF Onward, Reached, AskOK
  <2> QED BY <1>1, <1>2, <2>1, AskGoesOn
<1>5. /\ \A s : Answered(s)' <=> Answered(s)
      /\ \A s : HeardAnswer(s)' <=> HeardAnswer(s)
      /\ \A old, kinds : SaidOf(old, kinds)' = SaidOf(old, kinds)
      /\ \A kinds : HeardOwn(kinds)' = HeardOwn(kinds)
      /\ Cancelled' <=> Cancelled
  BY <1>2, SameLog
<1>6. SlotOK' /\ ServersOK'
  BY <1>1, <1>5 DEF SlotOK, ServersOK
<1>7. GateOK'
  BY <1>1, <1>5 DEF GateOK, IsOwn, NoTool
<1>8. EndOK'
  <2>1. Lasts
    BY <1>1, <1>5 DEF Lasts, GaveUp
  <2>2. stage = "drain" \/ Reported => child # "none"
    BY DEF EndOK, Left
  <2>3. stage = "drain" => Cause(final, sid)'
    <3>1. stage = "drain" => Cause(final, sid)
      BY DEF EndOK
    <3>2. CASE stage = "drain"
      <4>1. Cause(final, sid)
        BY <3>1, <3>2
      <4>2. child # "none"
        BY <2>2, <3>2
      <4> QED BY <1>1, <2>1, <4>1, <4>2, CauseLasts
    <3> QED BY <3>2
  <2>4. Reported => Cause(res, res.id)'
    <3>1. CASE Reported
      <4>1. Cause(res, res.id) /\ child # "none"
        BY <2>2, <3>1 DEF EndOK
      <4> QED BY <1>1, <2>1, <4>1, CauseLasts
    <3> QED BY <3>1
  <2>5. res.status = "completed" => Sound'
    <3> SUFFICES ASSUME res.status = "completed" PROVE Sound'
      OBVIOUS
    <3>1. Sound /\ child # "none"
      BY <2>2 DEF EndOK, Reported
    <3> QED BY <1>1, <1>5, <3>1 DEF Sound, Output
  <2>6. Reported' <=> Reported
    BY <1>1 DEF Reported
  <2>7. ctx' = "released" => ctx = "released"
    OBVIOUS
  <2> QED BY <1>1, <1>5, <2>3, <2>4, <2>5, <2>6, <2>7 DEF EndOK
<1> QED BY <1>2, <1>3, <1>4, <1>6, <1>7, <1>8, RestsKeeps

\* The context, the kill, the child's exit and stderr are such steps.
LEMMA AsidesKeep ==
  ASSUME HInv, ContextEnds \/ KillOnContext \/ Exit \/ LetGo \/ ReadErr \/ Complain
  PROVE  HInv'
<1>1. ProcTypes /\ ending \in {"deadline", "canceled"}
  BY DEF HInv, TypesOK, RunTypes
<1>2. CASE ContextEnds
  <2>1. Aside /\ ctx = "live" /\ ctx' = ending /\ UNCHANGED <<child, held, errSaid>>
    BY <1>2 DEF ContextEnds, Aside, optVars, runVars, rpcVars, childVars, readVars, errVars, outVars
  <2>2. ProcTypes' /\ (Readable' <=> Readable)
    BY <1>1, <2>1 DEF ProcTypes, Readable
  <2> QED BY <1>1, <2>1, <2>2, AsideKeeps
<1>3. CASE KillOnContext \/ Exit
  <2>1. /\ Aside /\ child = "running" /\ child' \in {"killed", "exited"} /\ held' \in BOOLEAN
        /\ UNCHANGED <<ctx, errSaid>>
    BY <1>3 DEF KillOnContext, Exit, Aside, optVars, runVars, rpcVars, childVars, readVars, errVars, outVars
  <2>2. ProcTypes' /\ Readable
    BY <1>1, <2>1 DEF ProcTypes, Readable
  <2> QED BY <2>1, <2>2, AsideKeeps
<1>4. CASE LetGo
  <2>1. Aside /\ held /\ held' = FALSE /\ UNCHANGED <<child, ctx, errSaid>>
    BY <1>4 DEF LetGo, Aside, optVars, runVars, rpcVars, childVars, readVars, errVars, outVars
  <2>2. ProcTypes' /\ Readable
    BY <1>1, <2>1 DEF ProcTypes, Readable
  <2> QED BY <2>1, <2>2, AsideKeeps
<1>5. CASE ReadErr
  <2>1. Aside /\ UNCHANGED <<child, ctx, held, errSaid>>
    BY <1>5 DEF ReadErr, Aside, optVars, runVars, rpcVars, procVars, childVars, readVars, errVars, outVars
  <2>2. ProcTypes' /\ (Readable' <=> Readable)
    BY <1>1, <2>1 DEF ProcTypes, Readable
  <2> QED BY <2>1, <2>2, AsideKeeps
<1>6. CASE Complain
  <2>1. Aside /\ child = "running" /\ errSaid' # {} /\ UNCHANGED <<child, ctx, held>>
    BY <1>6 DEF Complain, Aside, optVars, runVars, rpcVars, procVars, childVars, readVars, errVars, outVars
  <2>2. ProcTypes' /\ Readable
    BY <1>1, <2>1 DEF ProcTypes, Readable
  <2> QED BY <2>1, <2>2, AsideKeeps
<1> QED BY <1>2, <1>3, <1>4, <1>5, <1>6

-----------------------------------------------------------------------------
(* The turn the child follows.                                             *)

\* A line of the turn has its place in the script, after those before it.
LEMMA Ranks ==
  ASSUME TypesOK, NEW i \in 1..Len(spoken), IsOwn(i)
  PROVE  /\ Rank(i) \in Nat /\ Count(FALSE) \in Nat
         /\ 1 <= Rank(i) /\ Rank(i) <= Count(FALSE)
         /\ \A j \in 1..Len(spoken) : IsOwn(j) /\ i < j => Rank(i) < Rank(j)
<1> DEFINE S(n) == {x \in 1..n : IsOwn(x)}
<1>1. Len(spoken) \in Nat /\ \A x \in 1..Len(spoken) : spoken[x] \in Lines
  BY LineFacts
<1>2. ASSUME NEW n \in 1..Len(spoken) PROVE IsFiniteSet(S(n)) /\ Cardinality(S(n)) \in Nat
  <2>1. IsFiniteSet(1..n)
    BY FS_Interval
  <2>2. S(n) \subseteq 1..n
    OBVIOUS
  <2> QED BY <2>1, <2>2, FS_Subset, FS_CardinalityType
<1>3. {x \in 1..Len(spoken) : spoken[x].k # "answer" /\ spoken[x].old = FALSE} = S(Len(spoken))
  BY <1>1, LineKinds DEF IsOwn
<1>4. Count(FALSE) = Cardinality(S(Len(spoken))) /\ \A n : Rank(n) = Cardinality(S(n))
  BY <1>3 DEF Count, Rank
<1>5. S(i) \subseteq S(Len(spoken)) /\ Len(spoken) \in 1..Len(spoken) /\ i \in S(i)
  BY <1>1
<1>6. Cardinality(S(i)) <= Cardinality(S(Len(spoken))) /\ Cardinality(S(Len(spoken))) \in Nat /\ Cardinality(S(i)) \in Nat
  BY <1>2, <1>5, FS_Subset
<1>7. Cardinality(S(i)) # 0
  BY <1>2, <1>5, FS_EmptySet
<1>8. ASSUME NEW j \in 1..Len(spoken), IsOwn(j), i < j PROVE Cardinality(S(i)) < Cardinality(S(j))
  <2>1. S(i) \subseteq S(j) /\ j \in S(j) /\ j \notin S(i)
    BY <1>8
  <2>2. IsFiniteSet(S(j)) /\ IsFiniteSet(S(j) \ {j}) /\ Cardinality(S(j) \ {j}) = Cardinality(S(j)) - 1
    BY <1>2, <2>1, FS_RemoveElement
  <2>3. S(i) \subseteq S(j) \ {j}
    BY <2>1
  <2> HIDE DEF S
  <2>4. Cardinality(S(i)) <= Cardinality(S(j) \ {j})
    BY <2>2, <2>3, FS_Subset
  <2>5. Cardinality(S(i)) \in Nat /\ Cardinality(S(j)) \in Nat
    BY <1>2
  <2> QED BY <2>2, <2>4, <2>5
<1>9. Rank(i) = Cardinality(S(i)) /\ \A j \in 1..Len(spoken) : Rank(j) = Cardinality(S(j))
  BY <1>4
<1>12. Count(FALSE) = Cardinality(S(Len(spoken)))
  BY <1>4
<1> HIDE DEF S
<1>10. Rank(i) \in Nat /\ Count(FALSE) \in Nat /\ 1 <= Rank(i) /\ Rank(i) <= Count(FALSE)
  <2>1. Rank(i) \in Nat /\ Count(FALSE) \in Nat /\ Rank(i) # 0 /\ Rank(i) <= Count(FALSE)
    BY <1>6, <1>7, <1>9, <1>12
  <2>2. \A x, y \in Nat : x # 0 /\ x <= y => 1 <= x
    OBVIOUS
  <2> QED BY <2>1, <2>2, Zenon
<1>11. \A j \in 1..Len(spoken) : IsOwn(j) /\ i < j => Rank(i) < Rank(j)
  BY <1>8, <1>9
<1> QED BY <1>10, <1>11

\* What the child says of its tool call, in order.
LEMMA OneCall ==
  ASSUME TypesOK, ScriptOK, NEW i \in 1..Len(spoken), NEW j \in 1..Len(spoken), i < j, IsOwn(i), IsOwn(j)
  PROVE  /\ spoken[i].k = "done" => spoken[j].k \notin {"start", "open", "args", "done"}
         /\ spoken[i].k = "start" => spoken[j].k \notin {"start", "open", "args"}
         /\ spoken[i].k = "open" => spoken[j].k \notin {"start", "open"}
<1>1. PICK t \in Turns : Count(FALSE) <= Len(t) /\ Begins(t)
  BY DEF ScriptOK
<1>2. OneTool(t) /\ t \in Seq(TurnKinds)
  BY HermesAssumption
<1>3. Rank(i) \in 1..Len(t) /\ Rank(j) \in 1..Len(t) /\ Rank(i) < Rank(j)
  <2>1. /\ Rank(i) \in Nat /\ Rank(j) \in Nat /\ Count(FALSE) \in Nat /\ 1 <= Rank(i) /\ 1 <= Rank(j)
        /\ Rank(i) <= Count(FALSE) /\ Rank(j) <= Count(FALSE) /\ Rank(i) < Rank(j)
    BY Ranks
  <2>2. Len(t) \in Nat
    BY <1>2
  <2>3. Count(FALSE) <= Len(t)
    BY <1>1
  <2> DEFINE c == Count(FALSE)  l == Len(t)  ri == Rank(i)  rj == Rank(j)
  <2>4. /\ ri \in Nat /\ rj \in Nat /\ c \in Nat /\ 1 <= ri /\ 1 <= rj
        /\ ri <= c /\ rj <= c /\ ri < rj /\ l \in Nat /\ c <= l
    BY <2>1, <2>2, <2>3
  <2> HIDE DEF c, l, ri, rj
  <2>5. ri \in 1..l /\ rj \in 1..l /\ ri < rj
    BY <2>4
  <2> QED BY <2>5 DEF l, ri, rj
<1>4. spoken[i].k = t[Rank(i)] /\ spoken[j].k = t[Rank(j)]
  BY <1>1 DEF Begins
<1>5. DOMAIN t = 1..Len(t)
  BY <1>2
<1> QED BY <1>2, <1>3, <1>4, <1>5 DEF OneTool

-----------------------------------------------------------------------------
(* The reader of stdout.                                                   *)

Reads == /\ ~over /\ over' = over /\ heard < Len(spoken) /\ Line.k # "huge"
         /\ heard' = heard + 1 /\ spoken' = spoken
Next1 == heard + 1

\* A line is read: one more is heard, and nothing is said.
LEMMA ReadsMore ==
  ASSUME TypesOK, Reads
  PROVE  /\ Next1 \in 1..Len(spoken) /\ Next1 \notin 1..heard /\ 1..heard' = 1..heard \cup {Next1}
         /\ Line = spoken[Next1] /\ Line \in Lines /\ heard' \in Nat /\ heard' <= Len(spoken')
         /\ \A s : Answered(s)' <=> Answered(s)
         /\ \A i : IsOwn(i)' <=> IsOwn(i)
         /\ \A old, kinds : SaidOf(old, kinds)' = SaidOf(old, kinds)
         /\ Cancelled' <=> Cancelled
         /\ ScriptOK' <=> ScriptOK
         /\ \A s : HeardAnswer(s)' <=> HeardAnswer(s) \/ IsAnswer(Next1, s)
         /\ \A kinds : ~(IsOwn(Next1) /\ Line.k \in kinds) => HeardOwn(kinds)' = HeardOwn(kinds)
         /\ \A kinds : IsOwn(Next1) /\ Line.k \in kinds => HeardOwn(kinds)' = HeardOwn(kinds) \cup {Next1}
<1>1. /\ heard \in Nat /\ Len(spoken) \in Nat /\ heard < Len(spoken) /\ heard' = heard + 1 /\ spoken' = spoken
      /\ \A i \in 1..Len(spoken) : spoken[i] \in Lines
  BY LineFacts DEF Reads
<1>2. /\ Next1 \in 1..Len(spoken) /\ Next1 \notin 1..heard /\ 1..heard' = 1..heard \cup {Next1}
      /\ Line = spoken[Next1] /\ Line \in Lines /\ heard' \in Nat /\ heard' <= Len(spoken')
  BY <1>1 DEF Next1, Line
<1>3. /\ \A s : Answered(s)' <=> Answered(s)
      /\ \A i : IsOwn(i)' <=> IsOwn(i)
      /\ \A old, kinds : SaidOf(old, kinds)' = SaidOf(old, kinds)
  BY <1>1 DEF Answered, IsOwn, SaidOf
<1>4. Cancelled' <=> Cancelled
  <2>1. LateEnd' <=> LateEnd
    BY <1>1 DEF LateEnd, SaidOf, Answered, SessionAnswer
  <2> QED BY <1>1, <2>1 DEF Cancelled, CancelLine
<1>5. ScriptOK' <=> ScriptOK
  <2>1. Count(FALSE)' = Count(FALSE)
    BY <1>1 DEF Count
  <2> QED BY <1>1, <2>1 DEF ScriptOK, Begins, IsOwn, Rank
<1>6. \A s : HeardAnswer(s)' <=> HeardAnswer(s) \/ IsAnswer(Next1, s)
  BY <1>1, <1>2 DEF HeardAnswer, IsAnswer
<1>7. ASSUME NEW kinds
      PROVE  /\ ~(IsOwn(Next1) /\ Line.k \in kinds) => HeardOwn(kinds)' = HeardOwn(kinds)
             /\ IsOwn(Next1) /\ Line.k \in kinds => HeardOwn(kinds)' = HeardOwn(kinds) \cup {Next1}
  <2>1. HeardOwn(kinds)' = {i \in 1..heard' : IsOwn(i) /\ spoken[i].k \in kinds}
    BY <1>1, <1>3 DEF HeardOwn
  <2> QED BY <1>2, <2>1 DEF HeardOwn
<1> QED BY <1>2, <1>3, <1>4, <1>5, <1>6, <1>7

\* What a step of the reader has to keep.
LEMMA ReadKeeps ==
  ASSUME HInv, Reads, RpcTypes', sent' \in Seq(Sendings),
         UNCHANGED <<resume, model, ending, stage, step, servers, sid, gate, final>>,
         UNCHANGED <<ctx, child, held, asked, advertised, errSaid, res>>,
         promptDone' = "cancelled" => Cancelled, ~gate => UNCHANGED <<sent, tools, promptDone>>,
         SlotOK', LateOK', TextOK', ToolOK'
  PROVE  HInv'
<1> USE DEF HInv
<1>1. ~over /\ over' = over /\ spoken' = spoken
  BY DEF Reads
<1>2. TypesOK'
  <2>1. ChildTypes'
    BY <1>1, ReadsMore DEF TypesOK, ChildTypes
  <2>2. OutTypes'
    BY DEF TypesOK, OutTypes
  <2> QED BY <2>1, <2>2, TypesStay DEF TypesOK
<1>3. AskOK'
  <2>1. /\ \A s : Answered(s)' <=> Answered(s)
        /\ \A s : HeardAnswer(s) => HeardAnswer(s)'
    BY ReadsMore
  <2>2. \A s \in Requests : (asked = s \/ Answered(s))' => (stage \in Past[s] \/ (stage = s /\ step = "await"))'
    BY <2>1 DEF AskOK, Past
  <2>3. \A s \in Requests : (asked = s)' => ~Answered(s)'
    BY <2>1 DEF AskOK
  <2>4. (\A s \in Requests, i, j \in 1..Len(spoken) : IsAnswer(i, s) /\ IsAnswer(j, s) => i = j)'
    BY <1>1 DEF AskOK, IsAnswer
  <2>5. (\A s \in {"init", "session"} : stage \in Past[s] \ Left => HeardAnswer(s))'
    BY <2>1 DEF AskOK, Past
  <2> QED BY <2>2, <2>3, <2>4, <2>5 DEF AskOK
<1>4. ServersOK' /\ ScriptOK'
  BY ReadsMore DEF ServersOK
<1>5. GateOK'
  <2>1. /\ \A s : Answered(s)' <=> Answered(s)
        /\ \A s : HeardAnswer(s) => HeardAnswer(s)'
        /\ \A i : IsOwn(i)' <=> IsOwn(i)
    BY ReadsMore
  <2> QED BY <1>1, <2>1 DEF GateOK, NoTool
<1>6. EndOK'
  <2>1. /\ \A s : Answered(s)' <=> Answered(s)
        /\ \A old, kinds : SaidOf(old, kinds)' = SaidOf(old, kinds)
        /\ Cancelled' <=> Cancelled
    BY ReadsMore
  <2>2. Lasts /\ (Reported' <=> Reported) /\ res.status # "completed"
    BY <1>1, <2>1 DEF Lasts, Readable, GaveUp, Reported, EndOK, Sound
  <2>3. CASE stage = "drain"
    <3>1. Cause(final, sid) /\ child # "none" /\ ~Reported
      BY <2>3 DEF EndOK, Left
    <3>2. Cause(final, sid)'
      BY <2>2, <3>1, CauseLasts
    <3> QED BY <2>1, <2>2, <3>1, <3>2 DEF EndOK
  <2>4. CASE Reported
    <3>1. Cause(res, res.id) /\ child # "none" /\ stage # "drain"
      BY <2>4 DEF EndOK, Left
    <3>2. Cause(res, res.id)'
      BY <2>2, <3>1, CauseLasts
    <3> QED BY <2>1, <2>2, <3>1, <3>2 DEF EndOK
  <2>5. CASE stage # "drain" /\ ~Reported
    BY <2>1, <2>2, <2>5 DEF EndOK
  <2> QED BY <2>3, <2>4, <2>5
<1> QED BY <1>2, <1>3, <1>4, <1>5, <1>6

\* A line that is not shown: an answer, a question, or one before the gate
\* opens.
LEMMA ReadNothing ==
  ASSUME HInv, Reads, UNCHANGED <<sent, tools>>, gate => Line.k \in {"answer", "ask"}
  PROVE  LateOK' /\ TextOK' /\ ToolOK'
<1> USE DEF HInv
<1>1. spoken' = spoken /\ heard \in Nat /\ heard' = heard + 1
  BY LineFacts DEF Reads
<1>2. \A kinds : kinds \cap {"answer", "ask"} = {} => HeardOwn(kinds)' = HeardOwn(kinds)
  <2>1. Line.k \in {"answer", "ask"} \/ ~IsOwn(Next1)
    BY ReadsMore DEF GateOK
  <2> QED BY <2>1, ReadsMore
<1>3. LateOK'
  BY <1>1 DEF LateOK, Late, IsAnswer
<1>4. TextOK'
  <2>1. \A i \in 1..heard : i \in 1..heard'
    BY <1>1
  <2>2. ~(IsOwn(Next1) /\ Line.k \in Texts)
    BY ReadsMore DEF GateOK, Texts
  <2>3. \A h \in 1..heard' : h = Next1 \/ h \in 1..heard
    BY ReadsMore
  <2>4. \A i : IsOwn(i)' <=> IsOwn(i)
    BY ReadsMore
  <2>5. Line = spoken[Next1]
    BY ReadsMore
  <2>6. (\A i \in 1..Len(sent) : sent[i].k \in Texts =>
       sent[i].at \in 1..heard /\ spoken[sent[i].at].k = sent[i].k /\ spoken[sent[i].at].old = sent[i].old)'
    BY <1>1, <2>1 DEF TextOK
  <2>7. (\A h \in 1..heard : IsOwn(h) /\ spoken[h].k \in Texts =>
       \E i \in 1..Len(sent) : sent[i].k = spoken[h].k /\ ~sent[i].old /\ sent[i].at = h)'
    BY <1>1, <2>2, <2>3, <2>4, <2>5 DEF TextOK
  <2>8. (\A i, j \in 1..Len(sent) : i < j /\ sent[i].k \in Texts /\ sent[j].k \in Texts =>
       sent[i].at < sent[j].at)' /\ (\A i \in 1..Len(spoken) : spoken[i].k = "gaveup" => IsOwn(i))'
    BY <1>1, <2>4 DEF TextOK
  <2> QED BY <2>6, <2>7, <2>8 DEF TextOK
<1>5. ToolOK'
  <2>1. Uses' = Uses /\ Results' = Results
    BY DEF Uses, Results, Shown
  <2>2. /\ HeardOwn({"done"})' = HeardOwn({"done"}) /\ HeardOwn({"start"})' = HeardOwn({"start"})
        /\ HeardOwn(Given)' = HeardOwn(Given) /\ HeardOwn({"open"})' = HeardOwn({"open"})
        /\ HeardOwn({"start", "open"})' = HeardOwn({"start", "open"})
    BY <1>2 DEF Given
  <2>3. CallOK'
    BY <2>1, <2>2 DEF ToolOK, CallOK
  <2>4. KeptOK'
    <3>1. KeptOK
      BY DEF ToolOK
    <3>2. tools[FALSE].at \in 1..heard => tools[FALSE].at \in 1..heard'
      BY ReadsMore
    <3> QED BY <2>1, <2>2, <3>1, <3>2 DEF KeptOK
  <2> QED BY <2>3, <2>4 DEF ToolOK
<1> QED BY <1>3, <1>4, <1>5

\* The reader hands an answer to the request it is for.
LEMMA AnswerReadKeeps == ASSUME HInv, handleResponse PROVE HInv'
<1> USE DEF HInv
<1>1. /\ Reads /\ Line.k = "answer"
      /\ UNCHANGED <<resume, model, ending, stage, step, servers, sid, gate, final, tools, sent>>
      /\ UNCHANGED <<ctx, child, held, asked, advertised, errSaid, res>>
  BY DEF handleResponse, CanRead, Reads, optVars, runVars, procVars, childVars, errVars, outVars
<1>2. PICK to \in Requests, what \in Answers :
        /\ Line.to = to /\ Line.what = what /\ IsAnswer(Next1, to)
        /\ CancelLine(Next1) <=> what = "cancelled"
  <2>1. Line \in AnswerSet /\ Line.to \in Requests /\ Line.what \in Answers /\ Line = spoken[Next1]
    BY <1>1, ReadsMore, LineKinds
  <2> QED BY <1>1, <2>1 DEF IsAnswer, CancelLine
<1>3. /\ (slot' = slot /\ pending' = pending) \/ (pending = to /\ pending' = "none" /\ slot' = what)
      /\ promptDone' \in {promptDone, StopReason(what)}
      /\ ~gate => promptDone' = promptDone
  <2>1. /\ pending # to => pending' = pending /\ slot' = slot
        /\ pending = to => pending' = "none" /\ slot' = what
    BY <1>2 DEF handleResponse
  <2>2. promptDone' = promptDone \/ promptDone' = IF gate /\ promptDone = "none" THEN StopReason(what) ELSE promptDone
    BY <1>2 DEF handleResponse, onPromptDone
  <2>3. (slot' = slot /\ pending' = pending) \/ (pending = to /\ pending' = "none" /\ slot' = what)
    <3>1. CASE pending = to
      BY <2>1, <3>1
    <3>2. CASE pending # to
      BY <2>1, <3>2
    <3> QED BY <3>1, <3>2
  <2>4. promptDone' \in {promptDone, StopReason(what)} /\ (~gate => promptDone' = promptDone)
    <3>1. CASE promptDone' = promptDone
      BY <3>1
    <3>2. CASE promptDone' # promptDone
      <4>1. gate /\ promptDone' = StopReason(what)
        BY <2>2, <3>2, Zenon
      <4> QED BY <4>1
    <3> QED BY <3>1, <3>2
  <2> QED BY <2>3, <2>4
<1>4. StopReason(what) \in Reasons /\ (StopReason(what) = "cancelled" => Cancelled)
  BY <1>1, <1>2, ReadsMore DEF StopReason, Reasons, Cancelled, CancelLine, IsAnswer
<1>5. RpcTypes'
  <2>1. pending' \in {"none"} \cup Requests /\ slot' \in {"none", "exited"} \cup Answers
    BY <1>2, <1>3 DEF TypesOK, RpcTypes
  <2>2. promptDone' \in {"none"} \cup Reasons /\ tools' \in [BOOLEAN -> Tools]
    BY <1>1, <1>3, <1>4 DEF TypesOK, RpcTypes
  <2> QED BY <2>1, <2>2 DEF RpcTypes
<1>6. SlotOK'
  <2>1. \A s : HeardAnswer(s)' <=> HeardAnswer(s) \/ IsAnswer(Next1, s)
    BY <1>1, ReadsMore
  <2>2. what # "exited" /\ what # "none" /\ to # "none"
    BY RequestStages DEF Answers
  <2>3. CASE slot' = slot /\ pending' = pending
    BY <1>1, <2>1, <2>3 DEF SlotOK, Reads
  <2>4. CASE pending = to /\ pending' = "none" /\ slot' = what
    <3>1. stage = to /\ stage' = to /\ HeardAnswer(to)'
      BY <1>1, <1>2, <2>1, <2>2, <2>4 DEF SlotOK
    <3>2. HeardAnswer(stage)'
      BY <1>1, <3>1, <2>1, <1>2
    <3> QED BY <2>2, <2>4, <3>1, <3>2 DEF SlotOK
  <2> QED BY <1>3, <2>3, <2>4
<1>7. LateOK' /\ TextOK' /\ ToolOK'
  BY <1>1, ReadNothing
<1>8. sent' \in Seq(Sendings)
  BY <1>1 DEF TypesOK, OutTypes
<1>9. promptDone' = "cancelled" => Cancelled
  BY <1>3, <1>4 DEF EndOK
<1> QED BY <1>1, <1>3, <1>5, <1>6, <1>7, <1>8, <1>9, ReadKeeps

\* The reader grants a permission.
LEMMA AskReadKeeps == ASSUME HInv, handleAgentRequest PROVE HInv'
<1> USE DEF HInv
<1>1. /\ Reads /\ Line.k = "ask"
      /\ UNCHANGED <<resume, model, ending, stage, step, servers, sid, gate, final, tools, sent>>
      /\ UNCHANGED <<ctx, child, held, asked, advertised, errSaid, res, pending, slot, promptDone>>
  BY DEF handleAgentRequest, CanRead, Reads, optVars, runVars, rpcVars, procVars, errVars, outVars
<1>2. RpcTypes' /\ sent' \in Seq(Sendings)
  BY <1>1, TypesStay DEF TypesOK, OutTypes
<1>3. SlotOK'
  <2>1. \A s : HeardAnswer(s) => HeardAnswer(s)'
    BY <1>1, ReadsMore
  <2> QED BY <1>1, <2>1 DEF SlotOK, Reads
<1>4. LateOK' /\ TextOK' /\ ToolOK'
  BY <1>1, ReadNothing
<1>5. promptDone' = "cancelled" => Cancelled
  BY <1>1 DEF EndOK
<1> QED BY <1>1, <1>2, <1>3, <1>4, <1>5, ReadKeeps

\* The reader stops: what is pending fails.
LEMMA ReaderEndsKeeps == ASSUME HInv, ReaderEnds PROVE HInv'
<1> USE DEF HInv
<1>1. /\ ~over /\ over' = TRUE /\ pending' = "none"
      /\ slot' = IF pending = "none" THEN slot ELSE "exited"
      /\ UNCHANGED <<resume, model, ending, stage, step, servers, sid, gate, final, promptDone, tools, sent>>
      /\ UNCHANGED <<ctx, child, held, asked, advertised, spoken, heard, errSaid, res>>
  BY DEF ReaderEnds, closeAllPending, optVars, runVars, procVars, childVars, errVars, outVars
<1>2. Same /\ Rests
  BY <1>1 DEF Same, Rests
<1>3. TypesOK'
  <2>1. RpcTypes' /\ ChildTypes'
    BY <1>1 DEF TypesOK, RpcTypes, ChildTypes
  <2> QED BY <1>1, <2>1, TypesStay DEF TypesOK
<1>4. AskOK'
  <2>1. Onward /\ Reached
    BY <1>1 DEF Onward, Reached, AskOK
  <2> QED BY <1>1, <1>2, <2>1, AskGoesOn
<1>5. /\ \A s : Answered(s)' <=> Answered(s)
      /\ \A s : HeardAnswer(s)' <=> HeardAnswer(s)
      /\ \A old, kinds : SaidOf(old, kinds)' = SaidOf(old, kinds)
      /\ \A kinds : HeardOwn(kinds)' = HeardOwn(kinds)
      /\ Cancelled' <=> Cancelled
  BY <1>2, SameLog
<1>6. SlotOK' /\ ServersOK'
  <2>1. pending # "none" => pending \in Requests
    BY DEF TypesOK, RpcTypes
  <2>2. SlotOK'
    BY <1>1, <1>5, <2>1 DEF SlotOK
  <2> QED BY <1>1, <2>2 DEF ServersOK
<1>7. GateOK'
  BY <1>1, <1>5 DEF GateOK, IsOwn, NoTool
<1>8. EndOK'
  <2>1. Lasts /\ (Reported' <=> Reported) /\ res.status # "completed"
    BY <1>1, <1>5 DEF Lasts, Readable, GaveUp, Reported, EndOK, Sound
  <2>3. CASE stage = "drain"
    <3>1. Cause(final, sid) /\ child # "none" /\ ~Reported
      BY <2>3 DEF EndOK, Left
    <3>2. Cause(final, sid)'
      BY <1>1, <2>1, <3>1, CauseLasts
    <3> QED BY <1>1, <1>5, <2>1, <3>1, <3>2 DEF EndOK
  <2>4. CASE Reported
    <3>1. Cause(res, res.id) /\ child # "none" /\ stage # "drain"
      BY <2>4 DEF EndOK, Left
    <3>2. Cause(res, res.id)'
      BY <1>1, <2>1, <3>1, CauseLasts
    <3> QED BY <1>1, <1>5, <2>1, <3>1, <3>2 DEF EndOK
  <2>5. CASE stage # "drain" /\ ~Reported
    BY <1>1, <1>5, <2>1, <2>5 DEF EndOK
  <2> QED BY <2>3, <2>4, <2>5
<1> QED BY <1>2, <1>3, <1>4, <1>6, <1>7, <1>8, RestsKeeps

\* Messages one by one.
LEMMA Joined ==
  ASSUME NEW x, NEW y
  PROVE  <<x>> \o <<y>> = <<x, y>> /\ <<>> \o <<y>> = <<y>>
<1>1. <<x>> \in Seq({x, y}) /\ <<y>> \in Seq({x, y}) /\ <<>> \in Seq({x, y})
  OBVIOUS
<1>2. Len(<<x>> \o <<y>>) = 2 /\ (<<x>> \o <<y>>)[1] = x /\ (<<x>> \o <<y>>)[2] = y /\ <<x>> \o <<y>> \in Seq({x, y})
  BY <1>1
<1>3. Len(<<x, y>>) = 2 /\ <<x, y>>[1] = x /\ <<x, y>>[2] = y /\ <<x, y>> \in Seq({x, y})
  OBVIOUS
<1>4. <<x>> \o <<y>> = <<x, y>>
  <2>1. \A i \in 1..2 : (<<x>> \o <<y>>)[i] = <<x, y>>[i]
    BY <1>2, <1>3
  <2> QED BY <1>2, <1>3, <2>1, SeqEqual
<1>5. <<>> \o <<y>> = <<y>>
  BY <1>1, ConcatEmptySeq
<1> QED BY <1>4, <1>5

\* What is shown of a line, and what is kept of it.
LEMMA ShowsOf ==
  ASSUME NEW i, NEW tool \in Tools, Line.k \in TurnKinds
  PROVE  /\ Line.k \in Texts => Shows(Line, i, tool) = <<Message(Line.k, i)>> /\ Tracks(Line, i, tool) = tool
         /\ Line.k = "start" => /\ Shows(Line, i, tool) = <<Message("use", i)>>
                                /\ Tracks(Line, i, tool) = [st |-> "shown", at |-> i]
         /\ Line.k = "open" => Shows(Line, i, tool) = <<>> /\ Tracks(Line, i, tool) = [st |-> "buffered", at |-> i]
         /\ Line.k = "args" => /\ Shows(Line, i, tool) = <<>>
                               /\ Tracks(Line, i, tool) = IF tool.st = "buffered" THEN [st |-> "buffered", at |-> i]
                                                          ELSE tool
         /\ Line.k = "done" =>
              /\ Tracks(Line, i, tool) = NoTool
              /\ tool.st = "none" => Shows(Line, i, tool) = <<Message("use", i), Message("result", i)>>
              /\ tool.st = "shown" => Shows(Line, i, tool) = <<Message("result", i)>>
              /\ tool.st = "buffered" => Shows(Line, i, tool) = <<Message("use", tool.at), Message("result", i)>>
         /\ Line.k \in {"turnEnd", "ask", "huge"} => Shows(Line, i, tool) = <<>> /\ Tracks(Line, i, tool) = tool
<1>1. CASE Line.k \in Texts
  BY <1>1 DEF Texts, Shows, Tracks
<1>2. CASE Line.k = "start"
  BY <1>2 DEF Texts, Shows, Tracks, handleToolCallStart
<1>3. CASE Line.k = "open"
  BY <1>3 DEF Texts, Shows, Tracks, handleToolCallStart
<1>4. CASE Line.k = "args"
  <2>1. tool.st = "buffered" => [tool EXCEPT !.at = i] = [st |-> "buffered", at |-> i]
    BY DEF Tools
  <2>2. Shows(Line, i, tool) = <<>>
    BY <1>4 DEF Shows
  <2>3. Tracks(Line, i, tool) = IF tool.st = "buffered" THEN [tool EXCEPT !.at = i] ELSE tool
    BY <1>4 DEF Tracks
  <2> QED BY <1>4, <2>1, <2>2, <2>3 DEF Texts
<1>5. CASE Line.k = "done"
  <2> DEFINE u == Message("use", i)  a == Message("use", tool.at)  r == Message("result", i)
  <2>1. Tracks(Line, i, tool) = NoTool
    BY <1>5 DEF Tracks
  <2>2. /\ tool.st = "none" => Shows(Line, i, tool) = <<u>> \o <<r>>
        /\ tool.st = "shown" => Shows(Line, i, tool) = <<>> \o <<r>>
        /\ tool.st = "buffered" => Shows(Line, i, tool) = <<a>> \o <<r>>
    BY <1>5 DEF Shows
  <2> HIDE DEF u, a, r
  <2>3. <<u>> \o <<r>> = <<u, r>> /\ <<>> \o <<r>> = <<r>> /\ <<a>> \o <<r>> = <<a, r>>
    BY Joined
  <2> QED BY <1>5, <2>1, <2>2, <2>3 DEF Texts, u, a, r
<1>6. CASE Line.k \in {"turnEnd", "ask", "huge"}
  BY <1>6 DEF Texts, Shows, Tracks
<1> QED BY <1>1, <1>2, <1>3, <1>4, <1>5, <1>6 DEF TurnKinds, Texts

\* The messages after a line are those before it and its own.
LEMMA Appended ==
  ASSUME NEW s \in Seq(Sendings), NEW more \in Seq(Sendings), NEW r, r = s \o more
  PROVE  /\ r \in Seq(Sendings) /\ Len(r) = Len(s) + Len(more) /\ Len(r) \in Nat /\ Len(s) \in Nat /\ Len(more) \in Nat
         /\ \A i \in 1..Len(s) : r[i] = s[i] /\ i \in 1..Len(r)
         /\ \A i \in 1..Len(more) : r[Len(s) + i] = more[i] /\ Len(s) + i \in 1..Len(r)
         /\ \A j \in 1..Len(r) : j \in 1..Len(s) \/ j - Len(s) \in 1..Len(more)
         /\ DOMAIN r = 1..Len(r) /\ DOMAIN s = 1..Len(s)
  OBVIOUS

\* The messages of the turn of some kinds, when more is shown.
LEMMA ShownGrows ==
  ASSUME sent \in Seq(Sendings), NEW more \in Seq(Sendings), sent' = sent \o more, NEW kinds
  PROVE  /\ \A j : j \in Shown(kinds)' <=>
              \/ j \in Shown(kinds)
              \/ \E x \in 1..Len(more) : j = Len(sent) + x /\ ~more[x].old /\ more[x].k \in kinds
         /\ \A i \in Shown(kinds) : i \in 1..Len(sent) /\ sent'[i] = sent[i]
<1>1. /\ Len(sent') = Len(sent) + Len(more) /\ Len(sent) \in Nat /\ Len(more) \in Nat
      /\ \A i \in 1..Len(sent) : sent'[i] = sent[i] /\ i \in 1..Len(sent')
      /\ \A i \in 1..Len(more) : sent'[Len(sent) + i] = more[i] /\ Len(sent) + i \in 1..Len(sent')
      /\ \A j \in 1..Len(sent') : j \in 1..Len(sent) \/ j - Len(sent) \in 1..Len(more)
      /\ DOMAIN sent' = 1..Len(sent') /\ DOMAIN sent = 1..Len(sent)
  BY Appended
<1>2. \A j \in 1..Len(sent') : j \in 1..Len(sent) \/ \E x \in 1..Len(more) : j = Len(sent) + x
  <2> SUFFICES ASSUME NEW j \in 1..Len(sent'), j - Len(sent) \in 1..Len(more)
               PROVE  \E x \in 1..Len(more) : j = Len(sent) + x
    BY <1>1
  <2>1. j = Len(sent) + (j - Len(sent))
    BY <1>1
  <2> QED BY <2>1
<1>3. \A i \in Shown(kinds) : i \in 1..Len(sent) /\ sent'[i] = sent[i]
  BY <1>1 DEF Shown
<1>4. Shown(kinds)' = {i \in 1..Len(sent') : ~sent'[i].old /\ sent'[i].k \in kinds}
  BY <1>1 DEF Shown
<1>5. Shown(kinds) = {i \in 1..Len(sent) : ~sent[i].old /\ sent[i].k \in kinds}
  BY <1>1 DEF Shown
<1>6. ASSUME NEW j \in Shown(kinds)'
      PROVE  \/ j \in Shown(kinds)
             \/ \E x \in 1..Len(more) : j = Len(sent) + x /\ ~more[x].old /\ more[x].k \in kinds
  BY <1>1, <1>2, <1>4, <1>5
<1>7. ASSUME NEW x \in 1..Len(more), ~more[x].old, more[x].k \in kinds
      PROVE  Len(sent) + x \in Shown(kinds)'
  BY <1>1, <1>4, <1>7
<1>8. Shown(kinds) \subseteq Shown(kinds)'
  BY <1>1, <1>4, <1>5
<1> QED BY <1>3, <1>6, <1>7, <1>8

\* What is read behind an open gate comes after the session's answer.
LEMMA GateIsLate ==
  ASSUME HInv, Reads, gate
  PROVE  Late(Next1) /\ \A i : Late(i)' <=> Late(i)
<1> USE DEF HInv
<1>1. PICK j \in 1..heard : IsAnswer(j, "session")
  BY DEF GateOK, HeardAnswer
<1>2. /\ heard \in Nat /\ j \in 1..Len(spoken) /\ spoken' = spoken
  BY LineFacts DEF Reads
<1>3. \A i \in 1..Len(spoken) : IsAnswer(i, "session") => i = j
  BY <1>1, <1>2, RequestStages DEF AskOK
<1>4. Late(Next1)
  BY <1>1, <1>2, <1>3 DEF Late, Next1
<1> QED BY <1>2, <1>4 DEF Late, IsAnswer

More == Shows(Line, Next1, tools[Line.old])
Told == /\ Reads /\ gate /\ Line.k \notin {"answer", "ask"}
        /\ sent' = sent \o More
        /\ tools' = [tools EXCEPT ![Line.old] = Tracks(Line, Next1, @)]

\* A message, field by field.
LEMMA MessageFacts ==
  ASSUME NEW kind \in {"text", "gaveup", "use", "result"}, NEW at \in Nat, Line.old \in BOOLEAN
  PROVE  /\ Message(kind, at) \in Sendings
         /\ Message(kind, at).k = kind /\ Message(kind, at).old = Line.old /\ Message(kind, at).at = at
  BY DEF Message, Sendings

\* What a notification does to messages and tool calls.
LEMMA ToldFacts ==
  ASSUME TypesOK, Told
  PROVE  /\ Line.k \in TurnKinds /\ Line.old \in BOOLEAN /\ Next1 \in Nat
         /\ tools[Line.old] \in Tools
         /\ tools' \in [BOOLEAN -> Tools] /\ tools'[Line.old] = Tracks(Line, Next1, tools[Line.old])
         /\ \A o \in BOOLEAN : o # Line.old => tools'[o] = tools[o]
         /\ More \in Seq(Sendings)
         /\ \A x \in 1..Len(More) :
              /\ More[x].old = Line.old
              /\ More[x].at = Next1 \/ (tools[Line.old].st = "buffered" /\ More[x].at = tools[Line.old].at)
              /\ More[x].k \in Texts => x = 1 /\ Line.k \in Texts /\ More[x].k = Line.k /\ More[x].at = Next1
         /\ Line.k \in Texts => Len(More) = 1 /\ More[1].k = Line.k
         /\ tools'[Line.old].st # "none" => tools'[Line.old].at = Next1 \/ tools'[Line.old] = tools[Line.old]
<1> DEFINE tool == tools[Line.old]  t2 == Tracks(Line, Next1, tool)
<1>1. Line.k \in TurnKinds /\ Line.old \in BOOLEAN /\ Next1 \in Nat
  <2>1. Line \in Lines /\ Line.k # "answer"
    BY ReadsMore DEF Told
  <2>2. heard \in Nat
    BY DEF TypesOK, ChildTypes
  <2> QED BY <2>1, <2>2, LineKinds DEF Next1
<1>2. tool \in Tools /\ tools \in [BOOLEAN -> Tools]
  BY <1>1 DEF TypesOK, RpcTypes
<1>3. tool.st \in {"none", "shown", "buffered"} /\ tool.at \in Nat
  BY <1>2 DEF Tools
<1>4. /\ \A k \in {"text", "gaveup", "use", "result"}, at \in {Next1, tool.at} :
           Message(k, at) \in Sendings /\ Message(k, at).k = k /\ Message(k, at).old = Line.old
           /\ Message(k, at).at = at
  BY <1>1, <1>3, MessageFacts
<1>5. /\ \/ More = <<>>
         \/ \E k \in {"text", "gaveup", "use", "result"} :
              /\ More = <<Message(k, Next1)>> /\ (k \in Texts => k = Line.k)
         \/ \E at \in {Next1, tool.at} :
              /\ More = <<Message("use", at), Message("result", Next1)>>
              /\ at = Next1 \/ tool.st = "buffered"
      /\ t2 \in {tool, NoTool, [st |-> "shown", at |-> Next1], [st |-> "buffered", at |-> Next1]}
      /\ Line.k \in Texts => More = <<Message(Line.k, Next1)>>
  <2>0. Line.k # "ask"
    BY DEF Told
  <2>1. CASE Line.k \in Texts
    BY <1>1, <1>2, <2>1, ShowsOf DEF More, Texts
  <2>2. CASE Line.k = "start"
    BY <1>1, <1>2, <2>2, ShowsOf DEF More, Texts
  <2>3. CASE Line.k = "open"
    BY <1>1, <1>2, <2>3, ShowsOf DEF More, Texts
  <2>4. CASE Line.k = "args"
    BY <1>1, <1>2, <2>4, ShowsOf DEF More, Texts
  <2>5. CASE Line.k = "done"
    BY <1>1, <1>2, <1>3, <2>5, ShowsOf DEF More, Texts
  <2>6. CASE Line.k \in {"turnEnd", "huge"}
    BY <1>1, <1>2, <2>6, ShowsOf DEF More, Texts
  <2> QED BY <1>1, <2>0, <2>1, <2>2, <2>3, <2>4, <2>5, <2>6 DEF TurnKinds, Texts
<1> DEFINE fits == /\ More \in Seq(Sendings)
                   /\ \A x \in 1..Len(More) :
                        /\ More[x].old = Line.old
                        /\ More[x].at = Next1 \/ (tool.st = "buffered" /\ More[x].at = tool.at)
                        /\ More[x].k \in Texts =>
                             x = 1 /\ Line.k \in Texts /\ More[x].k = Line.k /\ More[x].at = Next1
<1>6. fits
  <2>1. CASE More = <<>>
    BY <2>1
  <2>2. ASSUME NEW k \in {"text", "gaveup", "use", "result"}, More = <<Message(k, Next1)>>, k \in Texts => k = Line.k
        PROVE  fits
    <3> DEFINE m == Message(k, Next1)
    <3>1. m \in Sendings /\ m.k = k /\ m.old = Line.old /\ m.at = Next1
      BY <1>4
    <3> HIDE DEF m
    <3>2. More = <<m>>
      BY <2>2 DEF m
    <3>3. More \in Seq(Sendings) /\ \A x \in 1..Len(More) : x = 1 /\ More[x] = m
      BY <3>1, <3>2
    <3> QED BY <2>2, <3>1, <3>3
  <2>3. ASSUME NEW at \in {Next1, tool.at}, More = <<Message("use", at), Message("result", Next1)>>,
               at = Next1 \/ tool.st = "buffered"
        PROVE  fits
    <3> DEFINE u == Message("use", at)  r == Message("result", Next1)
    <3>1. u \in Sendings /\ u.k = "use" /\ u.old = Line.old /\ u.at = at
          /\ r \in Sendings /\ r.k = "result" /\ r.old = Line.old /\ r.at = Next1
      BY <1>4
    <3> HIDE DEF u, r
    <3>2. More = <<u, r>>
      BY <2>3 DEF u, r
    <3>3. More \in Seq(Sendings) /\ \A x \in 1..Len(More) : More[x] = u \/ More[x] = r
      BY <3>1, <3>2
    <3> QED BY <2>3, <3>1, <3>3 DEF Texts
  <2> QED BY <1>5, <2>1, <2>2, <2>3
<1>7. Line.k \in Texts => Len(More) = 1 /\ More[1].k = Line.k
  <2> SUFFICES ASSUME Line.k \in Texts PROVE Len(More) = 1 /\ More[1].k = Line.k
    OBVIOUS
  <2> DEFINE m == Message(Line.k, Next1)
  <2>1. More = <<m>>
    BY <1>5
  <2>2. m.k = Line.k
    BY <1>4 DEF Texts
  <2> HIDE DEF m
  <2> QED BY <2>1, <2>2
<1>8. t2 \in Tools
  BY <1>1, <1>2, <1>5 DEF Tools, NoTool
<1>9. tools' = [tools EXCEPT ![Line.old] = t2]
  BY DEF Told
<1>10. /\ tools' \in [BOOLEAN -> Tools] /\ tools'[Line.old] = t2
       /\ \A o \in BOOLEAN : o # Line.old => tools'[o] = tools[o]
  <2> HIDE DEF t2
  <2> QED BY <1>1, <1>2, <1>8, <1>9
<1>11. t2.st # "none" => t2.at = Next1 \/ t2 = tool
  BY <1>5 DEF NoTool
<1> QED BY <1>1, <1>2, <1>6, <1>7, <1>10, <1>11

\* What is shown or kept is late.
LEMMA ToldLate == ASSUME HInv, Told PROVE LateOK'
<1> USE DEF HInv
<1>1. Reads /\ gate /\ sent' = sent \o More /\ sent \in Seq(Sendings)
  BY DEF Told, TypesOK, OutTypes
<1>2. Late(Next1) /\ \A i : Late(i)' <=> Late(i)
  BY <1>1, GateIsLate
<1>3. \A x \in 1..Len(More) : Late(More[x].at)
  BY <1>2, ToldFacts DEF LateOK
<1>4. ASSUME NEW i \in 1..Len(sent') PROVE Late(sent'[i].at)
  <2>1. More \in Seq(Sendings)
    BY ToldFacts
  <2>2. CASE i \in 1..Len(sent)
    <3>1. sent'[i] = sent[i]
      BY <1>1, <2>1, <2>2, Appended
    <3> QED BY <2>2, <3>1 DEF LateOK
  <2>3. CASE i - Len(sent) \in 1..Len(More)
    <3>1. Len(sent) + (i - Len(sent)) = i
      BY <1>1, <2>1, Appended
    <3>2. sent'[i] = More[i - Len(sent)]
      BY <1>1, <2>1, <2>3, <3>1, Appended
    <3> QED BY <1>3, <2>3, <3>2
  <2> QED BY <1>1, <2>1, <2>2, <2>3, Appended
<1>5. ASSUME NEW o \in BOOLEAN, tools'[o].st # "none" PROVE Late(tools'[o].at)
  <2>1. CASE o = Line.old
    BY <1>2, <1>5, <2>1, ToldFacts DEF LateOK
  <2>2. CASE o # Line.old
    BY <1>5, <2>2, ToldFacts DEF LateOK
  <2> QED BY <2>1, <2>2
<1> QED BY <1>2, <1>4, <1>5 DEF LateOK

\* A text is shown once, in its place.
LEMMA ToldText == ASSUME HInv, Told PROVE TextOK'
<1> USE DEF HInv
<1>1. /\ Reads /\ gate /\ sent' = sent \o More /\ sent \in Seq(Sendings) /\ More \in Seq(Sendings)
      /\ spoken' = spoken /\ heard \in Nat /\ heard' = heard + 1 /\ Next1 = heard + 1
  BY ToldFacts, LineFacts DEF Told, Reads, TypesOK, OutTypes, Next1
<1>2. /\ Next1 \in 1..Len(spoken) /\ 1..heard' = 1..heard \cup {Next1} /\ Line = spoken[Next1]
      /\ \A i : IsOwn(i)' <=> IsOwn(i)
  BY <1>1, ReadsMore
<1>3. /\ Len(sent) \in Nat /\ Len(More) \in Nat
      /\ \A i \in 1..Len(sent) : sent'[i] = sent[i] /\ i \in 1..Len(sent')
      /\ \A i \in 1..Len(More) : sent'[Len(sent) + i] = More[i] /\ Len(sent) + i \in 1..Len(sent')
      /\ \A j \in 1..Len(sent') : j \in 1..Len(sent) \/ j - Len(sent) \in 1..Len(More)
  BY <1>1, Appended
\* A text that is shown now is the last message, and of this line.
<1>4. ASSUME NEW i \in 1..Len(sent'), sent'[i].k \in Texts
      PROVE  \/ i \in 1..Len(sent) /\ sent'[i] = sent[i]
             \/ i = Len(sent) + 1 /\ sent'[i].at = Next1 /\ sent'[i].k = Line.k /\ sent'[i].old = Line.old
  <2>1. CASE i \in 1..Len(sent)
    BY <1>3, <2>1
  <2>2. CASE i - Len(sent) \in 1..Len(More)
    <3>1. Len(sent) + (i - Len(sent)) = i
      BY <1>3
    <3>2. sent'[i] = More[i - Len(sent)]
      BY <1>3, <2>2, <3>1
    <3>3. i - Len(sent) = 1 /\ sent'[i].at = Next1 /\ sent'[i].k = Line.k /\ sent'[i].old = Line.old
      BY <1>4, <2>2, <3>2, ToldFacts
    <3> QED BY <1>3, <3>3
  <2> QED BY <1>3, <2>1, <2>2
<1>5. ASSUME NEW i \in 1..Len(sent'), sent'[i].k \in Texts
      PROVE  /\ sent'[i].at \in 1..heard' /\ spoken[sent'[i].at].k = sent'[i].k
             /\ spoken[sent'[i].at].old = sent'[i].old
  BY <1>2, <1>4, <1>5 DEF TextOK
<1>6. ASSUME NEW h \in 1..heard', IsOwn(h), spoken[h].k \in Texts
      PROVE  \E i \in 1..Len(sent') : sent'[i].k = spoken[h].k /\ ~sent'[i].old /\ sent'[i].at = h
  <2>1. CASE h \in 1..heard
    <3>1. PICK i \in 1..Len(sent) : sent[i].k = spoken[h].k /\ ~sent[i].old /\ sent[i].at = h
      BY <1>6, <2>1 DEF TextOK
    <3> QED BY <1>3, <3>1
  <2>2. CASE h = Next1
    <3>1. Len(More) = 1 /\ More[1].k = Line.k /\ Line.k \in Texts /\ ~Line.old
      BY <1>2, <1>6, <2>2, ToldFacts DEF IsOwn
    <3>2. 1 \in 1..Len(More) /\ More[1].old = Line.old /\ More[1].at = Next1
      BY <3>1, ToldFacts
    <3> QED BY <1>2, <1>3, <2>2, <3>1, <3>2
  <2> QED BY <1>2, <2>1, <2>2
<1>7. ASSUME NEW i \in 1..Len(sent'), NEW j \in 1..Len(sent'), i < j, sent'[i].k \in Texts, sent'[j].k \in Texts
      PROVE  sent'[i].at < sent'[j].at
  <2>1. CASE j \in 1..Len(sent)
    <3>1. i \in 1..Len(sent)
      BY <1>3, <1>7, <2>1
    <3> QED BY <1>3, <1>7, <2>1, <3>1 DEF TextOK
  <2>2. CASE j = Len(sent) + 1 /\ sent'[j].at = Next1
    <3>1. i \in 1..Len(sent) /\ sent'[i] = sent[i]
      BY <1>3, <1>4, <1>7, <2>2
    <3>2. sent[i].at \in 1..heard
      BY <1>7, <3>1 DEF TextOK
    <3> QED BY <1>1, <2>2, <3>1, <3>2
  <2> QED BY <1>4, <1>7, <2>1, <2>2
<1>8. \A i \in 1..Len(spoken') : spoken'[i].k = "gaveup" => IsOwn(i)'
  BY <1>1, <1>2 DEF TextOK
<1> QED BY <1>1, <1>2, <1>5, <1>6, <1>7, <1>8 DEF TextOK

\* Nothing of a tool call is shown, or only of the history's.
LEMMA ToolStays ==
  ASSUME HInv, Told, Uses' = Uses, Results' = Results, \A i \in Uses : sent'[i] = sent[i],
         HeardOwn({"done"})' = HeardOwn({"done"}), HeardOwn({"start"})' = HeardOwn({"start"}),
         HeardOwn({"open"})' = HeardOwn({"open"}), HeardOwn({"start", "open"})' = HeardOwn({"start", "open"}),
         HeardOwn(Given)' = HeardOwn(Given), tools'[FALSE] = tools[FALSE]
  PROVE  ToolOK'
<1> USE DEF HInv
<1>1. CallOK'
  BY DEF ToolOK, CallOK
<1>2. KeptOK'
  <2>1. tools[FALSE].at \in 1..heard => tools[FALSE].at \in 1..heard'
    BY ReadsMore DEF Told
  <2> QED BY <2>1 DEF ToolOK, KeptOK
<1> QED BY <1>1, <1>2 DEF ToolOK

\* Nothing is added to the messages.
LEMMA ShowsNone ==
  ASSUME sent \in Seq(Sendings), sent' = sent \o <<>>, NEW kinds
  PROVE  sent' = sent /\ Shown(kinds)' = Shown(kinds)
  BY ConcatEmptySeq DEF Shown

\* One message is.
LEMMA ShowsOne ==
  ASSUME sent \in Seq(Sendings), NEW m \in Sendings, sent' = sent \o <<m>>, NEW kinds
  PROVE  /\ ~m.old /\ m.k \in kinds => Shown(kinds)' = Shown(kinds) \cup {Len(sent) + 1}
         /\ m.k \notin kinds => Shown(kinds)' = Shown(kinds)
         /\ Len(sent) \in Nat /\ sent'[Len(sent) + 1] = m
         /\ \A i \in Shown(kinds) : i < Len(sent) + 1 /\ sent'[i] = sent[i]
<1> DEFINE s == <<m>>
<1>1. s \in Seq(Sendings) /\ Len(s) = 1 /\ s[1] = m
  OBVIOUS
<1> HIDE DEF s
<1>2. sent' = sent \o s
  BY DEF s
<1>3. Len(sent) \in Nat /\ sent'[Len(sent) + 1] = m
  BY <1>1, <1>2, Appended
<1>4. /\ \A j : j \in Shown(kinds)' <=>
              \/ j \in Shown(kinds)
              \/ \E x \in 1..Len(s) : j = Len(sent) + x /\ ~s[x].old /\ s[x].k \in kinds
      /\ \A i \in Shown(kinds) : i \in 1..Len(sent) /\ sent'[i] = sent[i]
  BY <1>1, <1>2, ShownGrows
<1>5. 1..Len(s) = {1}
  BY <1>1
<1>6. m.k \notin kinds => \A j : j \in Shown(kinds)' <=> j \in Shown(kinds)
  BY <1>1, <1>4, <1>5
<1>7. ~m.old /\ m.k \in kinds => \A j : j \in Shown(kinds)' <=> j \in Shown(kinds) \/ j = Len(sent) + 1
  BY <1>1, <1>4, <1>5
<1>8. m.k \notin kinds => Shown(kinds)' = Shown(kinds)
  BY <1>6 DEF Shown
<1>9. ~m.old /\ m.k \in kinds => Shown(kinds)' = Shown(kinds) \cup {Len(sent) + 1}
  BY <1>7
<1>10. \A i \in Shown(kinds) : i < Len(sent) + 1 /\ sent'[i] = sent[i]
  BY <1>3, <1>4
<1> QED BY <1>3, <1>8, <1>9, <1>10

\* Two are, a use and its result.
LEMMA ShowsTwo ==
  ASSUME sent \in Seq(Sendings), NEW m \in Sendings, NEW l \in Sendings, sent' = sent \o <<m, l>>,
         ~m.old, ~l.old, NEW kinds
  PROVE  /\ m.k \in kinds /\ l.k \notin kinds => Shown(kinds)' = Shown(kinds) \cup {Len(sent) + 1}
         /\ m.k \notin kinds /\ l.k \in kinds => Shown(kinds)' = Shown(kinds) \cup {Len(sent) + 2}
         /\ Len(sent) \in Nat /\ sent'[Len(sent) + 1] = m /\ sent'[Len(sent) + 2] = l
<1> DEFINE s == <<m, l>>
<1>1. s \in Seq(Sendings) /\ Len(s) = 2 /\ s[1] = m /\ s[2] = l
  OBVIOUS
<1> HIDE DEF s
<1>2. sent' = sent \o s
  BY DEF s
<1>3. Len(sent) \in Nat /\ sent'[Len(sent) + 1] = m /\ sent'[Len(sent) + 2] = l
  BY <1>1, <1>2, Appended
<1>4. /\ \A j : j \in Shown(kinds)' <=>
              \/ j \in Shown(kinds)
              \/ \E x \in 1..Len(s) : j = Len(sent) + x /\ ~s[x].old /\ s[x].k \in kinds
      /\ \A i \in Shown(kinds) : i \in 1..Len(sent) /\ sent'[i] = sent[i]
  BY <1>1, <1>2, ShownGrows
<1>5. 1..Len(s) = {1, 2}
  BY <1>1
<1>6. m.k \notin kinds /\ l.k \in kinds =>
        \A j : j \in Shown(kinds)' <=> j \in Shown(kinds) \/ j = Len(sent) + 2
  BY <1>1, <1>4, <1>5
<1>7. m.k \in kinds /\ l.k \notin kinds =>
        \A j : j \in Shown(kinds)' <=> j \in Shown(kinds) \/ j = Len(sent) + 1
  BY <1>1, <1>4, <1>5
<1> QED BY <1>3, <1>6, <1>7

\* What was heard before a line of the turn's tool call.
LEMMA HeardBefore ==
  ASSUME HInv, Reads, IsOwn(Next1)
  PROVE  /\ Line.k \in {"start", "open", "args", "done"} => HeardOwn({"done"}) = {}
         /\ Line.k \in {"start", "open", "args"} => HeardOwn({"start"}) = {}
         /\ Line.k \in {"start", "open"} => HeardOwn({"start", "open"}) = {} /\ HeardOwn({"open"}) = {}
         /\ \A kinds : \A i \in HeardOwn(kinds) : i < Next1
<1>1. heard \in Nat /\ Next1 = heard + 1 /\ Next1 \in 1..Len(spoken) /\ Line = spoken[Next1]
      /\ \A i \in 1..heard : i \in 1..Len(spoken)
  BY ReadsMore, LineFacts DEF HInv, Next1
<1>2. \A kinds : \A i \in HeardOwn(kinds) : i \in 1..Len(spoken) /\ i < Next1 /\ IsOwn(i) /\ spoken[i].k \in kinds
  BY <1>1 DEF HeardOwn
<1>3. \A kinds : \A i \in HeardOwn(kinds) :
        /\ spoken[i].k = "done" => Line.k \notin {"start", "open", "args", "done"}
        /\ spoken[i].k = "start" => Line.k \notin {"start", "open", "args"}
        /\ spoken[i].k = "open" => Line.k \notin {"start", "open"}
  BY <1>1, <1>2, OneCall DEF HInv
<1> QED BY <1>2, <1>3

\* The tool call of the turn: it starts with its input,
LEMMA StartTold == ASSUME HInv, Told, ~Line.old, Line.k = "start" PROVE ToolOK'
<1> USE DEF HInv
<1> DEFINE n == Len(sent) + 1
<1>1. /\ Reads /\ Line = spoken[Next1] /\ IsOwn(Next1) /\ sent' = sent \o More /\ sent \in Seq(Sendings)
      /\ tools[FALSE] \in Tools /\ Line.old = FALSE
  BY ReadsMore, ToldFacts DEF Told, IsOwn, TypesOK, OutTypes
<1>2. /\ HeardOwn({"done"}) = {} /\ HeardOwn({"start", "open"}) = {} /\ HeardOwn({"start"}) = {}
      /\ HeardOwn({"open"}) = {}
  BY <1>1, HeardBefore
<1>3. Uses = {} /\ Results = {}
  <2>1. tools[FALSE].st = "none"
    BY <1>1, <1>2 DEF ToolOK, KeptOK, Tools
  <2> QED BY <1>2, <2>1 DEF ToolOK, KeptOK, CallOK
<1>4. More = <<Message("use", Next1)>> /\ tools'[FALSE] = [st |-> "shown", at |-> Next1]
  BY <1>1, ShowsOf, ToldFacts DEF More
<1> DEFINE m == Message("use", Next1)
<1>5. m \in Sendings /\ m.k = "use" /\ ~m.old /\ m.at = Next1 /\ sent' = sent \o <<m>>
  BY <1>1, <1>4, ToldFacts, MessageFacts
<1> HIDE DEF m
<1>6. Uses' = {n} /\ Results' = {} /\ sent'[n].at = Next1
  BY <1>1, <1>3, <1>5, ShowsOne DEF Uses, Results
<1>7. HeardOwn({"done"})' = {} /\ HeardOwn({"start"})' = {Next1}
  BY <1>1, <1>2, ReadsMore
<1> HIDE DEF n
<1>8. CallOK'
  BY <1>6, <1>7 DEF CallOK
<1>9. KeptOK'
  BY <1>4, <1>6, <1>7 DEF KeptOK
<1> QED BY <1>8, <1>9 DEF ToolOK

\* or without, with its arguments to come,
LEMMA OpenTold == ASSUME HInv, Told, ~Line.old, Line.k \in {"open", "args"} PROVE ToolOK'
<1> USE DEF HInv
<1>1. /\ Reads /\ Line = spoken[Next1] /\ IsOwn(Next1) /\ sent' = sent \o More /\ sent \in Seq(Sendings)
      /\ tools[FALSE] \in Tools /\ Line.old = FALSE /\ Next1 \in 1..heard' /\ Next1 \in Nat
      /\ 1..heard' = 1..heard \cup {Next1} /\ Next1 \notin 1..heard
  BY ReadsMore, ToldFacts DEF Told, IsOwn, TypesOK, OutTypes
<1>2. HeardOwn({"done"}) = {} /\ HeardOwn({"start"}) = {}
  BY <1>1, HeardBefore
<1>3. Uses = {} /\ Results = {} /\ tools[FALSE].st \in {"none", "buffered"}
  BY <1>1, <1>2 DEF ToolOK, KeptOK, CallOK, Tools
<1>4. More = <<>>
  <2>1. CASE Line.k = "open"
    BY <1>1, <2>1, ShowsOf, ToldFacts DEF More
  <2>2. CASE Line.k = "args"
    BY <1>1, <2>2, ShowsOf, ToldFacts DEF More
  <2> QED BY <2>1, <2>2
<1>5. Uses' = {} /\ Results' = {}
  BY <1>1, <1>3, <1>4, ShowsNone DEF Uses, Results
<1>6. /\ HeardOwn({"done"})' = {} /\ HeardOwn({"start"})' = {}
      /\ HeardOwn(Given)' = HeardOwn(Given) \cup {Next1}
      /\ \A i \in HeardOwn(Given)' : i <= Next1
  <2>1. HeardOwn({"done"})' = {} /\ HeardOwn({"start"})' = {}
    BY <1>1, <1>2, ReadsMore
  <2>2. HeardOwn(Given)' = HeardOwn(Given) \cup {Next1}
    BY <1>1, ReadsMore DEF Given
  <2>3. \A i \in HeardOwn(Given) : i < Next1 /\ i \in Nat
    BY <1>1, HeardBefore, LineFacts DEF HeardOwn
  <2> QED BY <1>1, <2>1, <2>2, <2>3
<1>7. CallOK'
  BY <1>5, <1>6 DEF CallOK
<1>8. KeptOK'
  <2>1. CASE Line.k = "open"
    <3>1. tools'[FALSE] = [st |-> "buffered", at |-> Next1]
      BY <1>1, <2>1, ShowsOf, ToldFacts
    <3>2. Next1 \in HeardOwn({"open"})'
      BY <1>1, <2>1, ReadsMore
    <3> QED BY <1>1, <1>5, <1>6, <3>1, <3>2 DEF KeptOK
  <2>2. CASE Line.k = "args"
    <3>1. tools'[FALSE] = IF tools[FALSE].st = "buffered" THEN [st |-> "buffered", at |-> Next1] ELSE tools[FALSE]
      <4>1. tools'[FALSE] = Tracks(Line, Next1, tools[FALSE]) /\ Line.k \in TurnKinds
        BY <1>1, ToldFacts
      <4>2. Tracks(Line, Next1, tools[FALSE]) =
              IF tools[FALSE].st = "buffered" THEN [st |-> "buffered", at |-> Next1] ELSE tools[FALSE]
        BY <1>1, <2>2, <4>1, ShowsOf
      <4> QED BY <4>1, <4>2, Zenon
    <3>2. HeardOwn({"open"})' = HeardOwn({"open"}) /\ HeardOwn({"start", "open"})' = HeardOwn({"start", "open"})
      BY <1>1, <2>2, ReadsMore
    <3>3. CASE tools[FALSE].st = "buffered"
      <4>1. HeardOwn({"open"}) # {}
        BY <1>2, <3>3 DEF ToolOK, KeptOK
      <4> QED BY <1>1, <1>5, <1>6, <3>1, <3>2, <3>3, <4>1 DEF KeptOK
    <3>4. CASE tools[FALSE].st = "none"
      <4>1. HeardOwn({"start", "open"}) = {}
        BY <1>2, <3>4 DEF ToolOK, KeptOK
      <4> QED BY <1>1, <1>5, <1>6, <3>1, <3>2, <3>4, <4>1 DEF KeptOK
    <3> QED BY <1>3, <3>3, <3>4
  <2> QED BY <2>1, <2>2
<1> QED BY <1>7, <1>8 DEF ToolOK

\* and is done.
LEMMA DoneTold == ASSUME HInv, Told, ~Line.old, Line.k = "done" PROVE ToolOK'
<1> USE DEF HInv
<1> DEFINE n == Len(sent) + 1  tool == tools[FALSE]  r == Message("result", Next1)
<1>1. /\ Reads /\ Line = spoken[Next1] /\ IsOwn(Next1) /\ sent' = sent \o More /\ sent \in Seq(Sendings)
      /\ tool \in Tools /\ Line.old = FALSE /\ Next1 \in Nat
  BY ReadsMore, ToldFacts DEF Told, IsOwn, TypesOK, OutTypes
<1>2. HeardOwn({"done"}) = {} /\ \A i \in HeardOwn(Given) : i < Next1
  BY <1>1, HeardBefore
<1>3. /\ HeardOwn({"done"})' = {Next1} /\ HeardOwn(Given)' = HeardOwn(Given)
      /\ HeardOwn({"start"})' = HeardOwn({"start"})
  BY <1>1, <1>2, ReadsMore DEF Given
<1>4. Results = {}
  BY <1>2 DEF ToolOK, CallOK
<1>5. r \in Sendings /\ r.k = "result" /\ ~r.old /\ Len(sent) \in Nat
  BY <1>1, ToldFacts, MessageFacts, LineFacts
<1>6. KeptOK'
  BY <1>3 DEF KeptOK
<1>11. /\ tool.st = "none" => More = <<Message("use", Next1), r>>
       /\ tool.st = "shown" => More = <<r>>
       /\ tool.st = "buffered" => More = <<Message("use", tool.at), r>>
  <2>1. More = Shows(Line, Next1, tool)
    BY <1>1 DEF More
  <2>2. Line.k \in TurnKinds
    BY DEF TurnKinds
  <2> HIDE DEF tool
  <2>3. /\ tool.st = "none" => Shows(Line, Next1, tool) = <<Message("use", Next1), r>>
        /\ tool.st = "shown" => Shows(Line, Next1, tool) = <<r>>
        /\ tool.st = "buffered" => Shows(Line, Next1, tool) = <<Message("use", tool.at), r>>
    BY <1>1, <2>2, ShowsOf
  <2> QED BY <2>1, <2>3
\* A use that has been shown is not shown again.
<1>7. CASE tool.st = "shown"
  <2>1. More = <<r>>
    BY <1>7, <1>11
  <2> HIDE DEF r
  <2>2. Uses' = Uses /\ Results' = {n} /\ \A u \in Uses : u < n /\ sent'[u] = sent[u]
    <3>1. sent' = sent \o <<r>>
      BY <1>1, <2>1
    <3>2. Shown({"use"})' = Shown({"use"}) /\ \A u \in Shown({"use"}) : u < n /\ sent'[u] = sent[u]
      BY <1>1, <1>5, <3>1, ShowsOne
    <3>3. Shown({"result"})' = Shown({"result"}) \cup {n}
      BY <1>1, <1>5, <3>1, ShowsOne
    <3> QED BY <1>4, <3>2, <3>3 DEF Uses, Results
  <2>3. Uses # {}
    BY <1>2, <1>7 DEF ToolOK, KeptOK
  <2> HIDE DEF n
  <2>4. CallOK'
    BY <1>2, <1>3, <2>2, <2>3 DEF ToolOK, CallOK
  <2> QED BY <1>6, <2>4 DEF ToolOK
\* One that waits is shown before the result, with all there was.
<1>8. ASSUME NEW at \in Nat, \A i \in HeardOwn(Given) : i <= at, Uses = {},
             More = <<Message("use", at), r>>
      PROVE  ToolOK'
  <2> DEFINE u == Message("use", at)
  <2>1. u \in Sendings /\ u.k = "use" /\ ~u.old /\ u.at = at
    BY <1>1, ToldFacts, MessageFacts
  <2>2. sent' = sent \o <<u, r>>
    BY <1>1, <1>8
  <2> HIDE DEF u, r
  <2>3. Uses' = {n} /\ Results' = {Len(sent) + 2} /\ sent'[n].at = at /\ n < Len(sent) + 2
    <3>1. Shown({"use"})' = Shown({"use"}) \cup {n} /\ sent'[n] = u
      BY <1>1, <1>5, <2>1, <2>2, ShowsTwo
    <3>2. Shown({"result"})' = Shown({"result"}) \cup {Len(sent) + 2}
      BY <1>1, <1>5, <2>1, <2>2, ShowsTwo
    <3> QED BY <1>4, <1>5, <1>8, <2>1, <3>1, <3>2 DEF Uses, Results
  <2> HIDE DEF n
  <2>4. CallOK'
    BY <1>3, <1>8, <2>3 DEF CallOK
  <2> QED BY <1>6, <2>4 DEF ToolOK
<1>9. CASE tool.st = "buffered"
  <2>1. More = <<Message("use", tool.at), r>>
    BY <1>9, <1>11
  <2>2. Uses = {} /\ \A i \in HeardOwn(Given) : i <= tool.at
    BY <1>2, <1>9 DEF ToolOK, KeptOK
  <2>3. tool.at \in Nat
    BY <1>1 DEF Tools
  <2> QED BY <1>8, <2>1, <2>2, <2>3
<1>10. CASE tool.st = "none"
  <2>1. More = <<Message("use", Next1), r>>
    BY <1>10, <1>11
  <2>2. Uses = {}
    BY <1>2, <1>10 DEF ToolOK, KeptOK
  <2>3. \A i \in HeardOwn(Given) : i <= Next1
    BY <1>1, <1>2, LineFacts DEF HeardOwn
  <2> QED BY <1>1, <1>8, <2>1, <2>2, <2>3
<1> QED BY <1>1, <1>7, <1>9, <1>10 DEF Tools

\* A notification of the tool call, kind by kind.
LEMMA ToldTool == ASSUME HInv, Told PROVE ToolOK'
<1> USE DEF HInv
<1>1. /\ Reads /\ Line.k \in TurnKinds /\ Line.k \notin {"ask", "huge"} /\ Line.old \in BOOLEAN /\ Line = spoken[Next1]
      /\ sent' = sent \o More /\ sent \in Seq(Sendings) /\ More \in Seq(Sendings)
  BY ReadsMore, ToldFacts DEF Told, Reads, TypesOK, OutTypes
<1>2. CASE Line.old \/ Line.k \in {"text", "gaveup", "turnEnd"}
  <2>1. \A x \in 1..Len(More) : More[x].old \/ More[x].k \notin {"use", "result"}
    <3>1. CASE Line.old
      BY <3>1, ToldFacts
    <3>2. CASE Line.k \in Texts
      BY <3>2, ToldFacts DEF Texts
    <3>3. CASE Line.k = "turnEnd"
      <4>1. More = <<>>
        BY <1>1, <3>3, ShowsOf, ToldFacts DEF More
      <4> QED BY <4>1
    <3> QED BY <1>2, <3>1, <3>2, <3>3 DEF Texts
  <2>2. /\ Uses' = Uses /\ Results' = Results
        /\ \A i \in Uses : sent'[i] = sent[i]
    <3>1. ASSUME NEW kinds, kinds \subseteq {"use", "result"}
          PROVE  Shown(kinds)' = Shown(kinds) /\ \A i \in Shown(kinds) : sent'[i] = sent[i]
      <4>1. \A j : j \in Shown(kinds)' <=>
              \/ j \in Shown(kinds)
              \/ \E x \in 1..Len(More) : j = Len(sent) + x /\ ~More[x].old /\ More[x].k \in kinds
        BY <1>1, ShownGrows
      <4>2. \A x \in 1..Len(More) : More[x].old \/ More[x].k \notin kinds
        BY <2>1, <3>1
      <4>3. \A j : j \in Shown(kinds)' <=> j \in Shown(kinds)
        BY <4>1, <4>2
      <4>4. \A i \in Shown(kinds) : sent'[i] = sent[i]
        BY <1>1, ShownGrows
      <4> QED BY <4>3, <4>4 DEF Shown
    <3> QED BY <3>1 DEF Uses, Results
  <2>3. ~(IsOwn(Next1) /\ Line.k \in {"start", "open", "args", "done"})
    BY <1>1, <1>2 DEF IsOwn
  <2>4. /\ HeardOwn({"done"})' = HeardOwn({"done"}) /\ HeardOwn({"start"})' = HeardOwn({"start"})
        /\ HeardOwn({"open"})' = HeardOwn({"open"}) /\ HeardOwn({"start", "open"})' = HeardOwn({"start", "open"})
        /\ HeardOwn(Given)' = HeardOwn(Given)
    BY <1>1, <2>3, ReadsMore DEF Given
  <2>5. tools'[FALSE] = tools[FALSE]
    <3>1. CASE Line.old
      BY <3>1, ToldFacts
    <3>2. CASE Line.old = FALSE
      <4>1. Line.k \in Texts \cup {"turnEnd", "ask", "huge"} /\ tools[FALSE] \in Tools
        BY <1>2, <3>2, ToldFacts DEF Texts
      <4>2. Tracks(Line, Next1, tools[FALSE]) = tools[FALSE]
        BY <1>1, <4>1, ShowsOf
      <4> QED BY <3>2, <4>2, ToldFacts
    <3> QED BY <1>1, <3>1, <3>2
  <2> QED BY <2>2, <2>4, <2>5, ToolStays
<1>3. CASE ~Line.old /\ Line.k \in {"start", "open", "args", "done"}
  BY <1>3, StartTold, OpenTold, DoneTold
<1> QED BY <1>1, <1>2, <1>3 DEF TurnKinds

\* The reader dispatches a notification.
LEMMA NoteReadKeeps == ASSUME HInv, handleNotification PROVE HInv'
<1> USE DEF HInv
<1>1. /\ Reads /\ Line.k \notin {"answer", "ask"}
      /\ UNCHANGED <<resume, model, ending, stage, step, servers, sid, gate, final>>
      /\ UNCHANGED <<ctx, child, held, asked, advertised, errSaid, res, pending, slot>>
  BY DEF handleNotification, CanRead, Reads, optVars, runVars, procVars, childVars, errVars
<1>2. Line \in NoteSet /\ Line = spoken[Next1] /\ Line.what \in Reasons
  BY <1>1, ReadsMore, LineKinds
<1>3. SlotOK'
  <2>1. \A s : HeardAnswer(s) => HeardAnswer(s)'
    BY <1>1, ReadsMore
  <2> QED BY <1>1, <2>1 DEF SlotOK, Reads
<1>4. CASE ~gate
  <2>1. UNCHANGED <<sent, tools, promptDone>>
    BY <1>4 DEF handleNotification, acceptNotification
  <2>2. LateOK' /\ TextOK' /\ ToolOK'
    BY <1>1, <1>4, <2>1, ReadNothing
  <2>3. RpcTypes' /\ sent' \in Seq(Sendings) /\ (promptDone' = "cancelled" => Cancelled)
    BY <1>1, <2>1, TypesStay DEF TypesOK, OutTypes, EndOK
  <2> QED BY <1>1, <1>3, <2>1, <2>2, <2>3, ReadKeeps
<1>5. CASE gate
  <2>1. /\ sent' = sent \o More
        /\ tools' = [tools EXCEPT ![Line.old] = Tracks(Line, Next1, @)]
        /\ IF Line.k = "turnEnd" THEN onPromptDone(Line.what) ELSE UNCHANGED promptDone
    BY <1>5 DEF handleNotification, acceptNotification, More, Next1
  <2>2. Told
    BY <1>1, <1>5, <2>1 DEF Told
  <2>3. LateOK' /\ TextOK' /\ ToolOK'
    BY <2>2, ToldLate, ToldText, ToldTool
  <2>4. promptDone' = promptDone \/ (Line.k = "turnEnd" /\ promptDone' = Line.what)
    BY <2>1 DEF onPromptDone
  <2>5. RpcTypes'
    <3>1. tools' \in [BOOLEAN -> Tools]
      BY <2>2, ToldFacts
    <3> QED BY <1>1, <1>2, <2>4, <3>1 DEF TypesOK, RpcTypes
  <2>6. sent' \in Seq(Sendings)
    <3>1. More \in Seq(Sendings)
      BY <2>2, ToldFacts
    <3> QED BY <2>1, <3>1, Appended DEF TypesOK, OutTypes
  <2>7. promptDone' = "cancelled" => Cancelled
    <3>1. CASE promptDone' = promptDone
      BY <3>1 DEF EndOK
    <3>2. CASE Line.k = "turnEnd" /\ promptDone' = Line.what
      <4> SUFFICES ASSUME Line.what = "cancelled" PROVE Cancelled
        BY <3>2
      <4>1. Next1 \in 1..Len(spoken) /\ CancelLine(Next1)
        BY <1>1, <1>2, <3>2, ReadsMore DEF CancelLine
      <4>2. spoken[Next1].old => LateEnd
        <5> SUFFICES ASSUME spoken[Next1].old PROVE LateEnd
          OBVIOUS
        <5>1. PICK j \in 1..heard : IsAnswer(j, "session")
          BY <1>5 DEF GateOK, HeardAnswer
        <5>2. j \in 1..Len(spoken) /\ Answered("session")
          BY <5>1, LineFacts DEF Answered, IsAnswer
        <5>3. IsAnswer(SessionAnswer, "session") /\ SessionAnswer \in 1..Len(spoken)
          BY <5>1, <5>2 DEF SessionAnswer, IsAnswer
        <5>4. Next1 > SessionAnswer
          BY <1>1, <1>5, <5>3, GateIsLate, LineFacts DEF Late, Next1
        <5>5. Next1 \in SaidOf(TRUE, {"turnEnd"})
          <6>1. spoken[Next1].old = TRUE
            BY <1>2 DEF NoteSet
          <6> QED BY <1>2, <3>2, <4>1, <6>1 DEF SaidOf
        <5> QED BY <5>2, <5>4, <5>5 DEF LateEnd
      <4> QED BY <4>1, <4>2 DEF Cancelled
    <3> QED BY <2>4, <3>1, <3>2
  <2> QED BY <1>1, <1>3, <1>5, <2>3, <2>5, <2>6, <2>7, ReadKeeps
<1> QED BY <1>4, <1>5

-----------------------------------------------------------------------------
(* What the child says.                                                    *)

Says(l, n) == /\ spoken' = Append(spoken, l) /\ n = Len(spoken) + 1
              /\ heard' = heard

\* A line is said: no other changes, and none is read.
LEMMA SaysMore ==
  ASSUME TypesOK, NEW l \in Lines, NEW n, Says(l, n)
  PROVE  /\ Len(spoken) \in Nat /\ n \in Nat /\ spoken' \in Seq(Lines) /\ Len(spoken') = n
         /\ heard' \in Nat /\ heard' <= Len(spoken')
         /\ 1..Len(spoken') = 1..Len(spoken) \cup {n} /\ n \notin 1..Len(spoken)
         /\ \A i \in 1..Len(spoken) : spoken'[i] = spoken[i] /\ i < n
         /\ spoken'[n] = l
         /\ \A i \in 1..Len(spoken) : (IsOwn(i)' <=> IsOwn(i)) /\ \A s : IsAnswer(i, s)' <=> IsAnswer(i, s)
         /\ IsOwn(n)' <=> l.k # "answer" /\ ~l.old
         /\ \A s : IsAnswer(n, s)' <=> l.k = "answer" /\ l.to = s
         /\ \A s : Answered(s)' <=> Answered(s) \/ (l.k = "answer" /\ l.to = s)
         /\ \A s : HeardAnswer(s)' <=> HeardAnswer(s)
         /\ \A kinds : HeardOwn(kinds)' = HeardOwn(kinds)
         /\ \A old, kinds : SaidOf(old, kinds) \subseteq SaidOf(old, kinds)'
<1>1. /\ Len(spoken) \in Nat /\ spoken \in Seq(Lines) /\ heard' = heard /\ spoken' = Append(spoken, l)
      /\ heard \in Nat /\ heard <= Len(spoken) /\ \A i \in 1..heard : i \in 1..Len(spoken)
  BY LineFacts DEF Says
<1>2. /\ n \in Nat /\ spoken' \in Seq(Lines) /\ Len(spoken') = n
      /\ 1..Len(spoken') = 1..Len(spoken) \cup {n} /\ n \notin 1..Len(spoken)
      /\ \A i \in 1..Len(spoken) : spoken'[i] = spoken[i] /\ i < n
      /\ spoken'[n] = l
  BY <1>1 DEF Says
<1>3. /\ \A i \in 1..Len(spoken) : (IsOwn(i)' <=> IsOwn(i)) /\ \A s : IsAnswer(i, s)' <=> IsAnswer(i, s)
      /\ IsOwn(n)' <=> l.k # "answer" /\ ~l.old
      /\ \A s : IsAnswer(n, s)' <=> l.k = "answer" /\ l.to = s
  BY <1>1, <1>2 DEF IsOwn, IsAnswer
<1>4. \A s : Answered(s)' <=> Answered(s) \/ (l.k = "answer" /\ l.to = s)
  BY <1>2 DEF Answered
<1>5. \A s : HeardAnswer(s)' <=> HeardAnswer(s)
  BY <1>1, <1>2 DEF HeardAnswer, IsAnswer
<1>6. \A kinds : HeardOwn(kinds)' = HeardOwn(kinds)
  BY <1>1, <1>2 DEF HeardOwn, IsOwn
<1>7. \A old, kinds : SaidOf(old, kinds) \subseteq SaidOf(old, kinds)'
  BY <1>2 DEF SaidOf
<1> QED BY <1>1, <1>2, <1>3, <1>4, <1>5, <1>6, <1>7

\* How far the turn is, after one more line.
LEMMA RanksMore ==
  ASSUME TypesOK, NEW l \in Lines, NEW n, Says(l, n)
  PROVE  /\ \A i \in 1..Len(spoken) : Rank(i)' = Rank(i)
         /\ Count(FALSE) \in Nat
         /\ l.k = "answer" \/ l.old => Count(FALSE)' = Count(FALSE)
         /\ l.k # "answer" /\ ~l.old => Count(FALSE)' = Count(FALSE) + 1 /\ Rank(n)' = Count(FALSE) + 1
<1> DEFINE S == {x \in 1..Len(spoken) : IsOwn(x)}
<1>1. Len(spoken) \in Nat /\ (\A x \in 1..Len(spoken) : spoken[x] \in Lines) /\ spoken' \in Seq(Lines)
      /\ \A x \in 1..Len(spoken') : spoken'[x] \in Lines
  <2>1. spoken' \in Seq(Lines)
    BY SaysMore
  <2> QED BY <2>1, LineFacts
<1>2. /\ 1..Len(spoken') = 1..Len(spoken) \cup {n} /\ n \notin 1..Len(spoken) /\ Len(spoken') = n /\ n \in Nat
      /\ \A i \in 1..Len(spoken) : (IsOwn(i)' <=> IsOwn(i)) /\ i < n
      /\ IsOwn(n)' <=> l.k # "answer" /\ ~l.old
  BY SaysMore
<1>3. IsFiniteSet(S) /\ Cardinality(S) \in Nat
  <2>1. IsFiniteSet(1..Len(spoken)) /\ S \subseteq 1..Len(spoken)
    BY <1>1, FS_Interval
  <2> QED BY <2>1, FS_Subset, FS_CardinalityType
<1>4. Count(FALSE) = Cardinality(S)
  <2>1. {x \in 1..Len(spoken) : spoken[x].k # "answer" /\ spoken[x].old = FALSE} = S
    BY <1>1, LineKinds DEF IsOwn
  <2> QED BY <2>1 DEF Count
<1>5. Count(FALSE)' = Cardinality({x \in 1..Len(spoken') : IsOwn(x)'})
  <2>1. {x \in 1..Len(spoken') : spoken'[x].k # "answer" /\ spoken'[x].old = FALSE} = {x \in 1..Len(spoken') : IsOwn(x)'}
    BY <1>1, LineKinds DEF IsOwn
  <2> QED BY <2>1 DEF Count
<1>6. {x \in 1..Len(spoken') : IsOwn(x)'} = IF l.k # "answer" /\ ~l.old THEN S \cup {n} ELSE S
  BY <1>2
<1>7. n \notin S /\ Cardinality(S \cup {n}) = Cardinality(S) + 1
  BY <1>2, <1>3, FS_AddElement
<1>8. Rank(n)' = Cardinality({x \in 1..Len(spoken') : IsOwn(x)'})
  BY <1>2 DEF Rank
<1>9. ASSUME NEW i \in 1..Len(spoken) PROVE Rank(i)' = Rank(i)
  <2>1. \A x \in 1..i : x \in 1..Len(spoken)
    BY <1>1
  <2>2. {x \in 1..i : IsOwn(x)'} = {x \in 1..i : IsOwn(x)}
    BY <1>2, <2>1
  <2> QED BY <2>2 DEF Rank
<1> HIDE DEF S
<1>10. l.k = "answer" \/ l.old => Count(FALSE)' = Count(FALSE)
  BY <1>4, <1>5, <1>6
<1>11. l.k # "answer" /\ ~l.old => Count(FALSE)' = Count(FALSE) + 1 /\ Rank(n)' = Count(FALSE) + 1
  BY <1>4, <1>5, <1>6, <1>7, <1>8
<1> QED BY <1>3, <1>4, <1>9, <1>10, <1>11

\* A line of the turn goes on with a script.
LEMMA ScriptGoesOn ==
  ASSUME TypesOK, ScriptOK, NEW l \in Lines, NEW n, Says(l, n),
         l.k # "answer" /\ ~l.old => MayNote(l.k)
  PROVE  ScriptOK'
<1>1. /\ 1..Len(spoken') = 1..Len(spoken) \cup {n} /\ spoken'[n] = l
      /\ \A i \in 1..Len(spoken) : (IsOwn(i)' <=> IsOwn(i)) /\ spoken'[i] = spoken[i]
      /\ IsOwn(n)' <=> l.k # "answer" /\ ~l.old
  BY SaysMore
<1>2. \A i \in 1..Len(spoken) : Rank(i)' = Rank(i)
  BY RanksMore
<1>3. CASE l.k = "answer" \/ l.old
  <2>1. Count(FALSE)' = Count(FALSE)
    BY <1>3, RanksMore
  <2>2. \A t \in Turns : Begins(t) => Begins(t)'
    BY <1>1, <1>2, <1>3 DEF Begins
  <2>3. (\E i \in 1..Len(spoken) : IsOwn(i))' => \E i \in 1..Len(spoken) : IsOwn(i)
    BY <1>1, <1>3
  <2> QED BY <2>1, <2>2, <2>3 DEF ScriptOK
<1>4. CASE l.k # "answer" /\ ~l.old
  <2>1. PICK t \in Turns : Count(FALSE) < Len(t) /\ Begins(t) /\ t[Count(FALSE) + 1] = l.k
    BY <1>4 DEF MayNote
  <2>2. Count(FALSE) \in Nat /\ Count(FALSE)' = Count(FALSE) + 1 /\ Rank(n)' = Count(FALSE) + 1
    BY <1>4, RanksMore
  <2>3. Begins(t)'
    BY <1>1, <1>2, <2>1, <2>2 DEF Begins
  <2>4. Len(t) \in Nat
    BY <2>1, HermesAssumption
  <2>5. Count(FALSE)' <= Len(t)
    <3>1. \A x, y \in Nat : x < y => x + 1 <= y
      OBVIOUS
    <3>2. Count(FALSE) < Len(t)
      BY <2>1
    <3>3. Count(FALSE) + 1 <= Len(t)
      BY <2>2, <2>4, <3>1, <3>2, Zenon
    <3> QED BY <2>2, <3>3, Zenon
  <2> QED BY <2>1, <2>3, <2>5 DEF ScriptOK
<1> QED BY <1>3, <1>4

\* What the child has to keep when it speaks.
LEMMA SaysKeeps ==
  ASSUME HInv, child = "running", NEW l \in Lines, NEW n, Says(l, n),
         l.k = "answer" => asked = l.to /\ asked' = "none",
         l.k # "answer" => asked' = asked,
         l.k # "answer" /\ ~l.old => asked = "prompt" /\ MayNote(l.k),
         l.k = "gaveup" => ~l.old,
         asked # "init" => advertised' = advertised,
         UNCHANGED <<resume, model, ending, stage, step, servers, sid, gate, final>>,
         UNCHANGED <<pending, slot, promptDone, tools, ctx, child, held, over, errSaid, sent, res>>
  PROVE  HInv'
<1> USE DEF HInv
<1>1. /\ Len(spoken) \in Nat /\ n \in Nat /\ spoken' \in Seq(Lines) /\ Len(spoken') = n
      /\ heard' \in Nat /\ heard' <= Len(spoken') /\ heard' = heard
      /\ 1..Len(spoken') = 1..Len(spoken) \cup {n} /\ n \notin 1..Len(spoken)
      /\ \A i \in 1..Len(spoken) : spoken'[i] = spoken[i] /\ i < n
      /\ spoken'[n] = l
  BY SaysMore DEF Says
<1>2. /\ \A i \in 1..Len(spoken) : (IsOwn(i)' <=> IsOwn(i)) /\ \A s : IsAnswer(i, s)' <=> IsAnswer(i, s)
      /\ IsOwn(n)' <=> l.k # "answer" /\ ~l.old
      /\ \A s : IsAnswer(n, s)' <=> l.k = "answer" /\ l.to = s
      /\ \A s : Answered(s)' <=> Answered(s) \/ (l.k = "answer" /\ l.to = s)
      /\ \A s : HeardAnswer(s)' <=> HeardAnswer(s)
  BY SaysMore
<1>3. /\ \A kinds : HeardOwn(kinds)' = HeardOwn(kinds)
      /\ \A old, kinds : SaidOf(old, kinds) \subseteq SaidOf(old, kinds)'
  BY SaysMore
<1>4. l.k = "answer" => l.to \in Requests /\ ~Answered(l.to)
  BY LineKinds DEF AskOK
<1>5. "none" \notin Requests
  BY RequestStages
<1>6. \A i \in 1..heard : i \in 1..Len(spoken)
  BY LineFacts
<1>7. TypesOK'
  <2>1. ChildTypes'
    BY <1>1 DEF TypesOK, ChildTypes
  <2> QED BY <2>1, TypesStay DEF TypesOK
<1>8. AskOK'
  <2>1. \A s \in Requests : (asked = s \/ Answered(s))' => (stage \in Past[s] \/ (stage = s /\ step = "await"))'
    <3> SUFFICES ASSUME NEW s \in Requests, (asked = s \/ Answered(s))'
                 PROVE  (stage \in Past[s] \/ (stage = s /\ step = "await"))'
      OBVIOUS
    <3>1. asked = s \/ Answered(s)
      BY <1>2, <1>5
    <3>2. stage \in Past[s] \/ (stage = s /\ step = "await")
      BY <3>1 DEF AskOK
    <3> QED BY <3>2 DEF Past
  <2>2. \A s \in Requests : (asked = s)' => ~Answered(s)'
    BY <1>2, <1>5 DEF AskOK
  <2>3. (\A s \in Requests, i, j \in 1..Len(spoken) : IsAnswer(i, s) /\ IsAnswer(j, s) => i = j)'
    <3> SUFFICES ASSUME NEW s \in Requests, NEW i \in 1..Len(spoken'), NEW j \in 1..Len(spoken'),
                        IsAnswer(i, s)', IsAnswer(j, s)'
                 PROVE  i = j
      BY Zenon
    <3>1. CASE i \in 1..Len(spoken) /\ j \in 1..Len(spoken)
      BY <1>2, <3>1 DEF AskOK
    <3>2. CASE i = n \/ j = n
      <4>1. l.k = "answer" /\ l.to = s /\ ~Answered(s)
        BY <1>2, <1>4, <3>2
      <4>2. \A x \in 1..Len(spoken) : ~IsAnswer(x, s)
        BY <4>1 DEF Answered, IsAnswer
      <4> QED BY <1>1, <1>2, <3>2, <4>2
    <3> QED BY <1>1, <3>1, <3>2
  <2>4. (\A s \in {"init", "session"} : stage \in Past[s] \ Left => HeardAnswer(s))'
    BY <1>2 DEF AskOK, Past
  <2> QED BY <2>1, <2>2, <2>3, <2>4 DEF AskOK
<1>9. SlotOK'
  BY <1>2 DEF SlotOK
<1>10. ServersOK'
  <2>1. CASE asked = "init"
    <3>1. stage # "session"
      <4> SUFFICES ASSUME stage = "session" PROVE FALSE
        OBVIOUS
      <4>1. HeardAnswer("init")
        BY RequestStages DEF AskOK, Left
      <4>2. Answered("init")
        BY <1>6, <4>1 DEF HeardAnswer, Answered, IsAnswer
      <4> QED BY <2>1, <4>2, RequestStages DEF AskOK
    <3> QED BY <2>1, <3>1 DEF ServersOK
  <2>2. CASE asked # "init"
    BY <2>2 DEF ServersOK
  <2> QED BY <2>1, <2>2
<1>11. GateOK'
  <2>1. (asked = "prompt" \/ Answered("prompt"))' => gate
    BY <1>2 DEF GateOK
  <2>2. ~gate => \A i \in 1..Len(spoken') : ~IsOwn(i)'
    BY <1>1, <1>2 DEF GateOK
  <2> QED BY <1>2, <2>1, <2>2 DEF GateOK, NoTool
<1>12. LateOK'
  <2>1. CASE l.k = "answer" /\ l.to = "session"
    <3>1. ~gate
      <4>1. ~Answered("session")
        BY <1>4, <2>1
      <4> QED BY <1>6, <4>1 DEF GateOK, HeardAnswer, Answered, IsAnswer
    <3>2. sent = <<>> /\ \A old \in BOOLEAN : tools[old].st = "none"
      BY <3>1 DEF GateOK, NoTool
    <3> QED BY <3>2 DEF LateOK
  <2>2. CASE ~(l.k = "answer" /\ l.to = "session")
    <3>1. \A i : Late(i)' <=> Late(i)
      BY <1>1, <1>2, <2>2 DEF Late
    <3> QED BY <3>1 DEF LateOK
  <2> QED BY <2>1, <2>2
<1>13. ScriptOK'
  BY ScriptGoesOn
<1>14. TextOK'
  <2>1. (\A i \in 1..Len(sent) : sent[i].k \in Texts =>
       sent[i].at \in 1..heard /\ spoken[sent[i].at].k = sent[i].k /\ spoken[sent[i].at].old = sent[i].old)'
    BY <1>1, <1>6 DEF TextOK
  <2>2. (\A h \in 1..heard : IsOwn(h) /\ spoken[h].k \in Texts =>
       \E i \in 1..Len(sent) : sent[i].k = spoken[h].k /\ ~sent[i].old /\ sent[i].at = h)'
    BY <1>1, <1>2, <1>6 DEF TextOK
  <2>3. (\A i, j \in 1..Len(sent) : i < j /\ sent[i].k \in Texts /\ sent[j].k \in Texts =>
       sent[i].at < sent[j].at)'
    BY DEF TextOK
  <2>4. (\A i \in 1..Len(spoken) : spoken[i].k = "gaveup" => IsOwn(i))'
    BY <1>1, <1>2 DEF TextOK
  <2> QED BY <2>1, <2>2, <2>3, <2>4 DEF TextOK
<1>15. ToolOK'
  <2>1. Uses' = Uses /\ Results' = Results
    BY DEF Uses, Results, Shown
  <2> QED BY <1>1, <1>3, <2>1 DEF ToolOK, CallOK, KeptOK
<1>16. Cancelled => Cancelled'
  <2> SUFFICES ASSUME Cancelled PROVE Cancelled'
    OBVIOUS
  <2>1. PICK i \in 1..Len(spoken) : CancelLine(i) /\ (spoken[i].k = "turnEnd" /\ spoken[i].old => LateEnd)
    BY DEF Cancelled
  <2>2. LateEnd => LateEnd'
    <3> SUFFICES ASSUME LateEnd PROVE LateEnd'
      OBVIOUS
    <3>1. PICK x \in SaidOf(TRUE, {"turnEnd"}) : Answered("session") /\ x > SessionAnswer
      BY DEF LateEnd
    <3>2. SessionAnswer \in 1..Len(spoken) /\ IsAnswer(SessionAnswer, "session")
      BY <3>1 DEF Answered, SessionAnswer, IsAnswer
    <3>3. Answered("session")'
      BY <1>2, <3>1
    <3>4. SessionAnswer' \in 1..Len(spoken') /\ IsAnswer(SessionAnswer, "session")'
      BY <3>3 DEF Answered, SessionAnswer, IsAnswer
    <3>5. spoken'[SessionAnswer].k = "answer" /\ spoken'[SessionAnswer].to = "session"
      BY <1>1, <3>2 DEF IsAnswer
    <3>6. SessionAnswer' = SessionAnswer
      <4> DEFINE a == SessionAnswer  b == SessionAnswer'
      <4>1. a \in 1..Len(spoken') /\ b \in 1..Len(spoken')
        BY <1>1, <3>2, <3>4
      <4>2. spoken'[b].k = "answer" /\ spoken'[b].to = "session"
        BY <3>4 DEF IsAnswer
      <4>3. \A x1, y1 \in 1..Len(spoken') :
              /\ spoken'[x1].k = "answer" /\ spoken'[x1].to = "session"
              /\ spoken'[y1].k = "answer" /\ spoken'[y1].to = "session"
              => x1 = y1
        BY <1>8, RequestStages DEF AskOK, IsAnswer
      <4> HIDE DEF a, b
      <4>4. spoken'[a].k = "answer" /\ spoken'[a].to = "session"
        BY <3>5 DEF a
      <4>5. a = b
        BY <4>1, <4>2, <4>3, <4>4
      <4> QED BY <4>5 DEF a, b
    <3>7. x \in SaidOf(TRUE, {"turnEnd"})'
      BY <1>3
    <3> QED BY <3>1, <3>3, <3>6, <3>7 DEF LateEnd
  <2>3. i \in 1..Len(spoken') /\ CancelLine(i)' /\ spoken'[i] = spoken[i]
    BY <1>1, <2>1 DEF CancelLine
  <2> QED BY <2>1, <2>2, <2>3 DEF Cancelled
<1>17. EndOK'
  <2>1. Lasts /\ (Reported' <=> Reported) /\ res.status # "completed"
    BY <1>2, <1>3, <1>16 DEF Lasts, Readable, GaveUp, Reported, EndOK, Sound
  <2>2. CASE stage = "drain"
    <3>1. Cause(final, sid) /\ ~Reported
      BY <2>2 DEF EndOK, Left
    <3>2. Cause(final, sid)'
      BY <2>1, <3>1, CauseLasts
    <3> QED BY <1>16, <2>1, <3>1, <3>2 DEF EndOK
  <2>3. CASE Reported
    <3>1. Cause(res, res.id) /\ stage # "drain"
      BY <2>3 DEF EndOK, Left
    <3>2. Cause(res, res.id)'
      BY <2>1, <3>1, CauseLasts
    <3> QED BY <1>16, <2>1, <3>1, <3>2 DEF EndOK
  <2>4. CASE stage # "drain" /\ ~Reported
    BY <1>16, <2>1, <2>4 DEF EndOK
  <2> QED BY <2>2, <2>3, <2>4
<1> QED BY <1>7, <1>8, <1>9, <1>10, <1>11, <1>12, <1>13, <1>14, <1>15, <1>17

\* Answers, replays and notifications do.
LEMMA SpeakersKeep == ASSUME HInv, Answer \/ Replay \/ Note PROVE HInv'
<1> USE DEF HInv
<1> DEFINE n == Len(spoken) + 1
<1>1. ASSUME Answer PROVE HInv'
  <2>1. PICK what \in Outcomes(asked) : spoken' = Append(spoken, [k |-> "answer", to |-> asked, what |-> what])
    BY <1>1 DEF Answer, Speak
  <2>2. /\ child = "running" /\ asked \in Requests /\ asked' = "none" /\ heard' = heard
        /\ asked # "init" => advertised' = advertised
        /\ UNCHANGED <<resume, model, ending, stage, step, servers, sid, gate, final>>
        /\ UNCHANGED <<pending, slot, promptDone, tools, ctx, child, held, over, errSaid, sent, res>>
    <3>1. /\ child = "running" /\ asked # "none" /\ asked' = "none" /\ heard' = heard
          /\ UNCHANGED <<resume, model, ending, stage, step, servers, sid, gate, final>>
          /\ UNCHANGED <<pending, slot, promptDone, tools, ctx, child, held, over, errSaid, sent, res>>
      BY <1>1 DEF Answer, Idle, optVars, runVars, rpcVars, procVars, readVars, errVars, outVars
    <3>2. asked # "init" => advertised' = advertised
      BY <1>1 DEF Answer
    <3>3. asked \in {"none"} \cup Requests
      BY DEF TypesOK, ChildTypes
    <3> QED BY <3>1, <3>2, <3>3
  <2>3. what \in Answers
    <3>1. asked = "session" => servers \subseteq advertised \cup {"stdio"}
      BY DEF ServersOK
    <3> QED BY <2>2, <3>1, RequestStages DEF Outcomes, Answers
  <2> DEFINE l == [k |-> "answer", to |-> asked, what |-> what]
  <2>4. l \in Lines /\ l.k = "answer" /\ l.to = asked
    BY <2>2, <2>3 DEF Lines, AnswerSet
  <2>5. PICK line \in Lines : line = l
    BY <2>4
  <2>6. PICK m \in Nat : m = n
    BY LineFacts
  <2>7. Says(line, m) /\ line.k = "answer" /\ line.to = asked
    BY <2>1, <2>2, <2>4, <2>5, <2>6 DEF Says
  <2> HIDE DEF l, n
  <2> QED BY <2>2, <2>7, SaysKeeps
\* A note, of the history or of the turn.
<1>2. ASSUME NEW l \in NoteSet, Says(l, n), child = "running", asked' = asked, advertised' = advertised,
             ~l.old => asked = "prompt" /\ MayNote(l.k), l.k = "gaveup" => ~l.old,
             UNCHANGED <<resume, model, ending, stage, step, servers, sid, gate, final>>,
             UNCHANGED <<pending, slot, promptDone, tools, ctx, child, held, over, errSaid, sent, res>>
      PROVE  HInv'
  <2>1. l \in Lines /\ l.k # "answer"
    BY LineKinds DEF Lines
  <2>2. PICK m \in Nat : m = n
    BY LineFacts
  <2>3. Says(l, m)
    BY <1>2, <2>2
  <2> QED BY <1>2, <2>1, <2>3, SaysKeeps
<1>3. ASSUME Replay PROVE HInv'
  <2>1. PICK x \in OldNotes : spoken' = Append(spoken, [k |-> x[1], old |-> TRUE, what |-> x[2]])
    BY <1>3 DEF Replay, Speak
  <2>2. x[1] \in {"text", "done", "turnEnd"} /\ x[2] \in {"end", "cancelled"}
    BY HermesAssumption
  <2>3. PICK l \in NoteSet : l = [k |-> x[1], old |-> TRUE, what |-> x[2]]
    BY <2>2 DEF NoteSet, TurnKinds, Reasons
  <2>4. l.old /\ l.k # "gaveup"
    BY <2>2, <2>3
  <2>5. /\ child = "running" /\ asked' = asked /\ advertised' = advertised /\ heard' = heard
        /\ UNCHANGED <<resume, model, ending, stage, step, servers, sid, gate, final>>
        /\ UNCHANGED <<pending, slot, promptDone, tools, ctx, child, held, over, errSaid, sent, res>>
    BY <1>3 DEF Replay, Idle, optVars, runVars, rpcVars, procVars, readVars, errVars, outVars
  <2>6. Says(l, n)
    BY <2>1, <2>3, <2>5 DEF Says
  <2> QED BY <1>2, <2>4, <2>5, <2>6
<1>4. ASSUME Note PROVE HInv'
  <2>1. PICK kind \in UNION {Range(t) : t \in Turns}, reason \in {"end", "cancelled"} :
          MayNote(kind) /\ spoken' = Append(spoken, [k |-> kind, old |-> FALSE, what |-> reason])
    BY <1>4 DEF Note, Speak
  <2>2. kind \in TurnKinds
    BY <2>1, HermesAssumption DEF Range
  <2>3. PICK l \in NoteSet : l = [k |-> kind, old |-> FALSE, what |-> reason]
    BY <2>2 DEF NoteSet, Reasons
  <2>4. ~l.old /\ l.k = kind
    BY <2>3
  <2>5. /\ child = "running" /\ asked = "prompt" /\ asked' = asked /\ advertised' = advertised /\ heard' = heard
        /\ UNCHANGED <<resume, model, ending, stage, step, servers, sid, gate, final>>
        /\ UNCHANGED <<pending, slot, promptDone, tools, ctx, child, held, over, errSaid, sent, res>>
    BY <1>4 DEF Note, Idle, optVars, runVars, rpcVars, procVars, readVars, errVars, outVars
  <2>6. Says(l, n)
    BY <2>1, <2>3, <2>5 DEF Says
  <2> QED BY <1>2, <2>1, <2>4, <2>5, <2>6
<1> QED BY <1>1, <1>3, <1>4

-----------------------------------------------------------------------------
(* The invariant.                                                          *)

\* The invariant holds of a run that has not started.
LEMMA StartsWell == ASSUME Init PROVE HInv
<1>1. /\ resume \in BOOLEAN /\ model \in BOOLEAN /\ ending \in {"deadline", "canceled"}
  BY HermesAssumption DEF Init
<1>2. /\ stage = "start" /\ step = "register" /\ sid = "" /\ gate = FALSE
      /\ pending = "none" /\ slot = "none" /\ promptDone = "none" /\ tools = [old \in BOOLEAN |-> NoTool]
      /\ final = [status |-> "completed", error |-> ""]
      /\ ctx = "live" /\ child = "none" /\ held = FALSE
      /\ asked = "none" /\ spoken = <<>> /\ heard = 0 /\ over = FALSE /\ errSaid = {}
      /\ sent = <<>> /\ res = NoRes
  BY DEF Init
<1>0. /\ 1..Len(spoken) = {} /\ 1..Len(sent) = {} /\ DOMAIN sent = {} /\ 1..heard = {}
      /\ heard \in Nat /\ heard <= Len(spoken) /\ spoken \in Seq(Lines) /\ sent \in Seq(Sendings)
  <2>1. \A S : <<>> \in Seq(S) /\ Len(<<>>) = 0
    OBVIOUS
  <2>2. spoken = <<>> /\ sent = <<>> /\ heard = 0
    BY <1>2
  <2>3. spoken \in Seq(Lines) /\ sent \in Seq(Sendings) /\ Len(spoken) = 0 /\ Len(sent) = 0
    BY <2>1, <2>2
  <2>4. DOMAIN sent = 1..Len(sent)
    BY <2>3
  <2>5. 1..0 = {}
    OBVIOUS
  <2> QED BY <2>2, <2>3, <2>4, <2>5
<1>3. TypesOK
  <2>1. RunTypes
    BY <1>1, <1>2 DEF RunTypes, Stages, Statuses, Errors
  <2>2. RpcTypes
    BY <1>2 DEF RpcTypes, Tools, NoTool
  <2>3. ProcTypes /\ ChildTypes
    BY <1>0, <1>2 DEF ProcTypes, ChildTypes
  <2>4. OutTypes
    BY <1>0, <1>2 DEF OutTypes, NoRes, Errors
  <2> QED BY <2>1, <2>2, <2>3, <2>4 DEF TypesOK
<1>4. \A s : ~Answered(s) /\ ~HeardAnswer(s)
  BY <1>0, <1>2 DEF Answered, HeardAnswer
<1>5. \A kinds : HeardOwn(kinds) = {} /\ Shown(kinds) = {}
  BY <1>0, <1>2 DEF HeardOwn, Shown
<1>6. AskOK
  BY <1>0, <1>2, <1>4, RequestStages DEF AskOK, Left
<1>7. SlotOK /\ ServersOK /\ LateOK /\ ScriptOK /\ TextOK
  BY <1>0, <1>2 DEF SlotOK, ServersOK, LateOK, ScriptOK, TextOK, NoTool
<1>8. GateOK
  BY <1>0, <1>2, <1>4 DEF GateOK
<1>9. ToolOK
  BY <1>2, <1>5 DEF ToolOK, CallOK, KeptOK, Uses, Results, NoTool
<1>10. EndOK
  BY <1>2 DEF EndOK, Reported, NoRes, Left
<1> QED BY <1>3, <1>6, <1>7, <1>8, <1>9, <1>10 DEF HInv

\* It speaks of the state alone.
LEMMA StutterKeeps == ASSUME HInv, UNCHANGED vars PROVE HInv'
<1>1. /\ Aside /\ UNCHANGED <<ctx, child, held, errSaid>>
  BY DEF vars, Aside, optVars, runVars, rpcVars, procVars, childVars, readVars, errVars, outVars
<1>2. ProcTypes' /\ (Readable' <=> Readable)
  BY <1>1 DEF HInv, TypesOK, ProcTypes, Readable
<1> QED BY <1>1, <1>2, AsideKeeps

\* Every step preserves it.
LEMMA NextKeeps == ASSUME HInv, [Next]_vars PROVE HInv'
<1>1. ASSUME RunStep PROVE HInv'
  BY <1>1, StartKeeps, RegisterKeeps, WriteKeeps, TakeAnswerKeeps, GiveUpKeeps, OpenGateKeeps, ReportKeeps,
     LeaveKeeps DEF RunStep
<1>2. ASSUME ReaderStep PROVE HInv'
  BY <1>2, AnswerReadKeeps, AskReadKeeps, NoteReadKeeps, ReaderEndsKeeps DEF ReaderStep
<1>3. ASSUME Answer \/ Replay \/ Note PROVE HInv'
  BY <1>3, SpeakersKeep
<1>4. ASSUME ContextEnds \/ KillOnContext \/ Exit \/ Conclude \/ LetGo \/ ReadErr \/ Complain PROVE HInv'
  <2>1. Conclude => Exit
    BY DEF Conclude
  <2> QED BY <1>4, <2>1, AsidesKeep
<1>5. ASSUME UNCHANGED vars PROVE HInv'
  BY <1>5, StutterKeeps
<1> QED BY <1>1, <1>2, <1>3, <1>4, <1>5 DEF Next, ChildStep

\* The invariant of a run of hermes: types, the requests and their answers,
\* the gate, what is shown and kept of a tool call, and the causes of its end.
THEOREM HermesInductive == Spec => []HInv
<1>1. Init => HInv
  BY StartsWell
<1>2. HInv /\ [Next]_vars => HInv'
  BY NextKeeps
<1> QED BY <1>1, <1>2, PTL DEF Spec

\* What is shown was read behind the gate, which opened late enough.
LEMMA HistoryHolds == ASSUME HInv PROVE HistoryStaysOut
<1> USE DEF HInv
<1> SUFFICES ASSUME NEW i \in DOMAIN sent
             PROVE  Answered("session") /\ sent[i].at > SessionAnswer
  BY DEF HistoryStaysOut
<1>1. i \in 1..Len(sent) /\ sent[i] \in Sendings /\ sent # <<>>
  BY LineFacts
<1>2. PICK j \in 1..heard : IsAnswer(j, "session")
  BY <1>1 DEF GateOK, HeardAnswer
<1>3. Answered("session")
  BY <1>2, LineFacts DEF Answered, IsAnswer
<1>4. SessionAnswer \in 1..Len(spoken) /\ IsAnswer(SessionAnswer, "session")
  BY <1>3 DEF Answered, SessionAnswer, IsAnswer
<1>5. SessionAnswer < sent[i].at
  BY <1>1, <1>4 DEF LateOK, Late
<1>6. sent[i].at \in Nat
  BY <1>1 DEF Sendings
<1> QED BY <1>3, <1>4, <1>5, <1>6, LineFacts

\* Nothing that a child replays of a resumed session before it answers for it
\* is shown, whatever it flushes later.
THEOREM HistoryIsOut == Spec => []HistoryStaysOut
  BY HermesInductive, HistoryHolds, PTL

\* What was heard of the turn, in the properties' words.
LEMMA HeardIsSaid ==
  ASSUME TypesOK, NEW kinds, "answer" \notin kinds
  PROVE  SaidOf(FALSE, kinds) \cap 1..heard = HeardOwn(kinds)
<1>1. \A i \in 1..heard : i \in 1..Len(spoken) /\ spoken[i] \in Lines
  BY LineFacts
<1>2. \A i \in 1..heard : IsOwn(i) <=> spoken[i].k # "answer" /\ spoken[i].old = FALSE
  BY <1>1, LineKinds DEF IsOwn
<1> QED BY <1>1, <1>2 DEF SaidOf, HeardOwn

\* The texts and the tool call, as the property speaks of them.
LEMMA TurnHolds == ASSUME HInv PROVE TurnIsShown
<1> USE DEF HInv
<1> DEFINE texts == Shown({"text", "gaveup"})
<1>1. DOMAIN sent = 1..Len(sent) /\ \A i \in 1..Len(sent) : sent[i] \in Sendings /\ sent[i].old \in BOOLEAN
  BY LineFacts DEF Sendings
<1>2. SaidOf(FALSE, Texts) \cap 1..heard = HeardOwn(Texts) /\ SaidOf(FALSE, {"done"}) \cap 1..heard = HeardOwn({"done"})
  BY HeardIsSaid DEF Texts
<1>3. \A i \in texts : sent[i].at \in HeardOwn(Texts)
  <2> SUFFICES ASSUME NEW i \in texts PROVE sent[i].at \in HeardOwn(Texts)
    OBVIOUS
  <2>1. i \in 1..Len(sent) /\ sent[i].k \in Texts /\ ~sent[i].old
    BY <1>1 DEF Shown, Texts
  <2>2. sent[i].at \in 1..heard /\ spoken[sent[i].at].k \in Texts /\ ~spoken[sent[i].at].old
    BY <2>1 DEF TextOK
  <2> QED BY <2>2 DEF HeardOwn, IsOwn, Texts
<1>4. \A h \in HeardOwn(Texts) : \E i \in texts : sent[i].at = h
  <2> SUFFICES ASSUME NEW h \in HeardOwn(Texts) PROVE \E i \in texts : sent[i].at = h
    OBVIOUS
  <2>1. h \in 1..heard /\ IsOwn(h) /\ spoken[h].k \in Texts
    BY DEF HeardOwn
  <2>2. PICK i \in 1..Len(sent) : sent[i].k = spoken[h].k /\ ~sent[i].old /\ sent[i].at = h
    BY <2>1 DEF TextOK
  <2> QED BY <1>1, <2>1, <2>2 DEF Shown, Texts
<1>5. {sent[i].at : i \in texts} = SaidOf(FALSE, {"text", "gaveup"}) \cap 1..heard
  BY <1>2, <1>3, <1>4 DEF Texts
<1>6. \A i, j \in texts : i < j => sent[i].at < sent[j].at
  BY <1>1 DEF Shown, TextOK, Texts
<1>7. ASSUME NEW u \in Uses, NEW i \in SaidOf(FALSE, Given) PROVE i <= sent[u].at
  <2>1. i \in 1..Len(spoken) /\ IsOwn(i) /\ spoken[i].k \in Given
    BY DEF SaidOf, IsOwn
  <2>2. u \in 1..Len(sent) /\ sent[u].at \in Nat /\ Len(spoken) \in Nat /\ heard \in Nat /\ i \in Nat
    BY <1>1, <2>1, LineFacts DEF Uses, Shown, Sendings
  <2>3. CASE sent[u].at \in HeardOwn({"start"})
    <3>1. sent[u].at \in 1..Len(spoken) /\ IsOwn(sent[u].at) /\ spoken[sent[u].at].k = "start"
      BY <2>3, LineFacts DEF HeardOwn
    <3>2. ~(sent[u].at < i)
      BY <2>1, <3>1, OneCall DEF Given
    <3> QED BY <2>2, <3>2
  <2>4. CASE HeardOwn({"done"}) # {} /\ \A x \in HeardOwn(Given) : x <= sent[u].at
    <3>1. PICK d \in HeardOwn({"done"}) : TRUE
      BY <2>4
    <3>2. d \in 1..heard /\ d \in 1..Len(spoken) /\ IsOwn(d) /\ spoken[d].k = "done"
      BY LineFacts DEF HeardOwn
    <3>3. ~(d < i)
      BY <2>1, <3>2, OneCall DEF Given
    <3>4. i \in 1..heard
      BY <2>1, <2>2, <3>2, <3>3
    <3>5. i \in HeardOwn(Given)
      BY <2>1, <3>4 DEF HeardOwn
    <3> QED BY <2>4, <3>5
  <2> QED BY <2>3, <2>4 DEF ToolOK, CallOK
<1>8. /\ \A i, j \in Uses : i = j
      /\ \A i, j \in Results : i = j
      /\ Results # {} <=> SaidOf(FALSE, {"done"}) \cap 1..heard # {}
      /\ \A r \in Results : \E u \in Uses : u < r
  BY <1>2 DEF ToolOK, CallOK
<1> HIDE DEF texts
<1>9. /\ {sent[i].at : i \in texts} = SaidOf(FALSE, {"text", "gaveup"}) \cap 1..heard
      /\ \A i, j \in texts : i < j => sent[i].at < sent[j].at
  BY <1>5, <1>6
<1> QED BY <1>7, <1>8, <1>9 DEF TurnIsShown, Uses, Results, Given, texts

\* Every text of the turn that was read since the prompt went out is shown
\* once and in order, and its tool call once, with its last arguments, before
\* its result.
THEOREM TurnShown == Spec => []TurnIsShown
  BY HermesInductive, TurnHolds, PTL

\* The causes imply the property.
LEMMA CauseHolds == ASSUME HInv PROVE ResultTellsWhy
<1> USE DEF HInv
<1>1. res.status \in Statuses \cup {"none"} /\ res.error \in Errors
  BY DEF TypesOK, OutTypes
<1>2. CASE ~Reported
  BY <1>2 DEF ResultTellsWhy, Reported
<1>3. CASE Reported
  <2>1. Cause(res, res.id)
    BY <1>3 DEF EndOK
  <2>2. res.status = "aborted" =>
     \/ ctx = "canceled"
     \/ \E i \in 1..Len(spoken) : spoken[i].k \in {"answer", "turnEnd"} /\ spoken[i].what = "cancelled"
                                  /\ (spoken[i].k = "turnEnd" /\ spoken[i].old => LateEnd)
    BY <2>1 DEF Cause, Cancelled, CancelLine
  <2>3. res.status = "completed" =>
     /\ Answered("prompt")
     /\ "fatal" \notin errSaid /\ (errSaid = {} \/ Output # {})
     /\ SaidOf(FALSE, {"gaveup"}) \cap 1..heard = {}
    <3>1. SaidOf(FALSE, {"gaveup"}) \cap 1..heard = HeardOwn({"gaveup"})
      BY HeardIsSaid
    <3> QED BY <2>1, <3>1 DEF Cause, EndOK, Sound
  <2>4. res.status = "failed" =>
     CASE res.error = "exited"   -> over
       [] res.error = "write"    -> ~Readable
       [] res.error = "context"  -> ctx # "live" /\ ~Answered("prompt")
       [] res.error = "provider" -> errSaid # {} \/ SaidOf(FALSE, {"gaveup"}) \cup SaidOf(TRUE, {"text"}) # {}
       [] res.error = "noid"     -> ~resume
       [] OTHER -> res.error \in {"error", "gone"}
    <3>1. Answered("prompt") => gate
      BY DEF GateOK
    <3> QED BY <1>1, <2>1, <3>1 DEF Cause, Errors, GaveUp
  <2>5. resume /\ res.error = "gone" /\ res.status = "failed" => res.id = ""
    BY <2>1 DEF Cause
  <2>6. res.status = "timeout" => ctx = "deadline"
    BY <2>1 DEF Cause
  <2> QED BY <2>2, <2>3, <2>4, <2>5, <2>6 DEF ResultTellsWhy
<1> QED BY <1>2, <1>3

\* The status and the error of a run have a cause, whenever the child, its
\* descendants and the context end.
THEOREM ResultHasACause == Spec => []ResultTellsWhy
  BY HermesInductive, CauseHolds, PTL
=============================================================================
