-------------------------- MODULE AgentStream_proofs --------------------------
(***************************************************************************)
(* What the Result of claude, copilot and pi says, and what a run leaves   *)
(* behind, for any lines of the child, any capacity of the pipes and any   *)
(* length of the prompt.                                                   *)
(*                                                                         *)
(* NothingLeftBehind speaks of the ends of a run; what keeps it is where   *)
(* each resource is given back on the way there (PhaseOK).  ResultTellsWhy *)
(* speaks of what the child has said, the code of what it made of it line  *)
(* by line, and when it stopped (StateOK, EndOK).                          *)
(***************************************************************************)
EXTENDS AgentStreamProps, FiniteSetTheorems, WellFoundedInduction, TLAPS

AllBackends == {"claude", "copilot", "pi"}
Phases      == {"create", "spawn", "refused", "read", "answer", "reap", "close", "release", "done"}
Over        == {"close", "release", "done"}
States == [failed : BOOLEAN, async : BOOLEAN, id : {"", "asked", "fresh"}, output : Seq(Nat),
           attempt : Seq(Nat), emitted : BOOLEAN, open : BOOLEAN, good : BOOLEAN,
           stashed : BOOLEAN, broken : BOOLEAN, waitErr : BOOLEAN]

RunTypes   == backend \in AllBackends /\ resume \in BOOLEAN /\ landed \in BOOLEAN
PhaseTypes ==
  /\ pc \in Phases /\ ctx \in {"live", "deadline", "canceled", "released"}
  /\ temp \in BOOLEAN /\ child \in {"none", "running", "exit0", "exitN", "killed"}
LineTypes  ==
  /\ spoken \in Seq(LineKinds[backend]) /\ heard \in Nat /\ heard <= Len(spoken)
FlagTypes  ==
  /\ held \in BOOLEAN /\ outShut \in BOOLEAN /\ inShut \in BOOLEAN /\ writeErr \in BOOLEAN
  /\ pipeClosed \in BOOLEAN

TypesOK == RunTypes /\ PhaseTypes /\ LineTypes /\ FlagTypes /\ st \in States

\* Where the run is, and what it has taken and given back.
PhaseOK ==
  /\ child = "none" <=> pc \in Idle
  /\ pc \in {"create", "refused"} => ~temp
  /\ pc \in {"spawn", "read", "answer", "reap"} => temp = NeedsTemp
  /\ pc \in Over => ~temp /\ child # "running"
  /\ Reported <=> pc \in Over
  /\ pc \in {"release", "done"} => pipeClosed
  /\ pc = "done" => ctx # "live"
  /\ pc = "refused" /\ backend = "claude" => ctx # "live"
  /\ ctx = "released" => pc \in {"refused", "done"}
  /\ outShut => ctx # "live"
  /\ backend = "claude" /\ pc \in {"reap"} \cup Over => inShut
  /\ backend = "claude" /\ pc \in Over => ~Writing

\* Which of the lines that were read are of these kinds.
Heard(kinds) == {i \in 1..heard : spoken[i] \in kinds}

\* The reader's state is that of the lines it has read.
ClaudeOK ==
  /\ st.failed <=> Heard({"failed"}) # {}
  /\ st.async <=> Heard({"async"}) # {}
  /\ resume /\ ~landed => st.id \in {"", "fresh"}
CopilotOK == (st.failed <=> Heard({"error", "badexit"}) # {}) /\ ~st.async

Attempts == {"start", "ok", "bad", "retry", "gaveup"}
\* What the last line about an attempt has left.
Left(l) ==
  /\ l = "ok" => ~st.open /\ ~st.stashed /\ st.good
  /\ l = "start" => st.open
  /\ l \in {"bad", "retry", "gaveup"} => st.stashed
PiOK ==
  /\ st.failed <=> Heard({"fatal"}) # {}
  /\ ~st.async
  /\ ~st.failed => \/ Heard(Attempts) = {} /\ ~st.good
                   \/ \E i \in Heard(Attempts) :
                        (\A j \in Heard(Attempts) : j <= i) /\ Left(spoken[i])
RetryOK == \A i \in 1..Len(spoken) :
  spoken[i] \in {"retry", "gaveup"} => i - 1 \in 1..Len(spoken) /\ spoken[i - 1] = "bad"

StateOK ==
  /\ backend = "claude" => ClaudeOK
  /\ backend = "copilot" => CopilotOK
  /\ backend = "pi" => PiOK /\ RetryOK

\* Why the reader has stopped, while its context lives.
EndOK == pc = "reap" /\ ctx = "live" => AtEOF \/ (Choked /\ (backend = "pi" => st.broken))

\* What was shown of claude's and copilot's texts: those that were heard,
\* once and in order.
Shown == Flat(sent)
TextsOK(kinds) ==
  /\ \A i \in 1..Len(Shown) : Shown[i] \in Heard(kinds)
  /\ \A i, j \in 1..Len(Shown) : i < j => Shown[i] < Shown[j]
  /\ Len(Shown) = Cardinality(Heard(kinds))

\* What was shown of pi's is its output, every text of it vouched for; the
\* texts of the open attempt are followed by nothing else.
InFlight(i) == i \in 1..heard /\ \A k \in i..heard : spoken[k] = "delta"
VouchedOK ==
  /\ Shown = st.output
  /\ \A p \in 1..Len(st.output) : st.output[p] \in 1..heard /\ Vouched(st.output[p])
  /\ \A p \in 1..Len(st.attempt) : InFlight(st.attempt[p])

ShownOK ==
  /\ sent \in Seq(Seq(Nat))
  /\ backend = "claude" => TextsOK({"text"})
  /\ backend = "copilot" => TextsOK({"delta"})
  /\ backend = "pi" => VouchedOK

\* The Result of a completed run is of all its lines.
WholeOK == res.status = "completed" => (Choked \/ heard = Len(spoken)) /\ res.output = st.output

SInv == TypesOK /\ PhaseOK /\ StateOK /\ EndOK /\ ResultTellsWhy /\ ShownOK /\ WholeOK

-----------------------------------------------------------------------------
(* Types.                                                                  *)

\* The lines each backend's child may write.
LEMMA KindsOf ==
  /\ LineKinds["claude"] = {"text", "system", "async", "result", "failed", "ctl", "huge"}
  /\ LineKinds["copilot"] = {"begin", "delta", "message", "error", "result", "badexit", "huge"}
  /\ LineKinds["pi"] = {"start", "delta", "ok", "bad", "retry", "gaveup", "fatal", "huge"}
  BY DEF LineKinds

\* What has been heard is part of what was said.
LEMMA LineFacts ==
  ASSUME LineTypes
  PROVE  /\ heard \in Nat /\ Len(spoken) \in Nat /\ heard <= Len(spoken)
         /\ \A i \in 1..heard : i \in 1..Len(spoken)
         /\ \A i \in 1..Len(spoken) : spoken[i] \in LineKinds[backend]
<1>1. spoken \in Seq(LineKinds[backend]) /\ heard \in Nat /\ heard <= Len(spoken)
  BY DEF LineTypes
<1>2. Len(spoken) \in Nat /\ \A i \in 1..Len(spoken) : spoken[i] \in LineKinds[backend]
  BY <1>1
<1>3. \A i \in 1..heard : i \in 1..Len(spoken)
  BY <1>1, <1>2
<1> QED BY <1>1, <1>2, <1>3

\* Messages of numbers stay so under concatenation.
LEMMA Appended ==
  ASSUME NEW q \in Seq(Nat), NEW r \in Seq(Nat), NEW i \in Nat
  PROVE  Append(q, i) \in Seq(Nat) /\ q \o r \in Seq(Nat) /\ <<i>> \in Seq(Nat) /\ <<>> \in Seq(Nat)
  OBVIOUS

\* What a line makes of the reader's state, kind by kind.
LEMMA ClaudeState ==
  ASSUME st \in States, backend = "claude", NEW l \in LineKinds["claude"] \ {"huge"}, NEW i \in Nat,
         NEW s, s = Hears(l, i)
  PROVE  /\ s \in States
         /\ s.failed = (IF l = "failed" THEN TRUE ELSE st.failed)
         /\ s.async = (IF l = "async" THEN TRUE ELSE st.async)
         /\ s.id \in {st.id, ChildId}
<1>1. s = ClaudeHears(l, i)
  BY DEF Hears
<1>2. <<i>> \in Seq(Nat) /\ Append(st.output, i) \in Seq(Nat) /\ ChildId \in {"asked", "fresh"}
  <2>1. st.output \in Seq(Nat)
    BY DEF States
  <2>2. Append(st.output, i) \in Seq(Nat) /\ <<i>> \in Seq(Nat)
    BY <2>1, Appended
  <2>3. ChildId \in {"asked", "fresh"}
    BY DEF ChildId
  <2> QED BY <2>2, <2>3
<1> HIDE DEF ChildId
<1>3. CASE l = "text"
  <2>1. s = [st EXCEPT !.output = Append(st.output, i)]
    BY <1>1, <1>3 DEF ClaudeHears
  <2> QED BY <1>2, <1>3, <2>1 DEF States
<1>4. CASE l = "system"
  <2>1. s = [st EXCEPT !.id = ChildId]
    BY <1>1, <1>4 DEF ClaudeHears
  <2> QED BY <1>2, <1>4, <2>1 DEF States
<1>5. CASE l = "async"
  <2>1. s = [st EXCEPT !.async = TRUE]
    BY <1>1, <1>5 DEF ClaudeHears
  <2> QED BY <1>2, <1>5, <2>1 DEF States
<1>6. CASE l = "result"
  <2>1. s = [st EXCEPT !.id = ChildId, !.output = <<i>>]
    BY <1>1, <1>6 DEF ClaudeHears
  <2> QED BY <1>2, <1>6, <2>1 DEF States
<1>7. CASE l = "failed"
  <2>1. s = [st EXCEPT !.id = ChildId, !.output = <<i>>, !.failed = TRUE]
    BY <1>1, <1>7 DEF ClaudeHears
  <2> QED BY <1>2, <1>7, <2>1 DEF States
<1>8. CASE l = "ctl"
  <2>1. s = st
    BY <1>1, <1>8 DEF ClaudeHears
  <2> QED BY <1>8, <2>1 DEF States
<1> QED BY <1>3, <1>4, <1>5, <1>6, <1>7, <1>8, KindsOf

\* A line of copilot: what fails stays failed.
LEMMA CopilotState ==
  ASSUME st \in States, backend = "copilot", NEW l \in LineKinds["copilot"] \ {"huge"}, NEW i \in Nat,
         NEW s, s = Hears(l, i)
  PROVE  /\ s \in States
         /\ s.failed = (IF l \in {"error", "badexit"} THEN TRUE ELSE st.failed)
         /\ s.async = st.async
<1>1. s = CopilotHears(l, i)
  BY DEF Hears
<1>2. Append(st.output, i) \in Seq(Nat)
  <2>1. st.output \in Seq(Nat)
    BY DEF States
  <2> QED BY <2>1, Appended
<1>3. CASE l = "begin" \/ l = "result"
  <2>1. s = [st EXCEPT !.id = "fresh"]
    BY <1>1, <1>3 DEF CopilotHears
  <2> QED BY <1>3, <2>1 DEF States
<1>4. CASE l = "delta"
  <2>1. s = [st EXCEPT !.output = Append(st.output, i), !.open = TRUE]
    BY <1>1, <1>4 DEF CopilotHears
  <2> QED BY <1>2, <1>4, <2>1 DEF States
<1>5. CASE l = "message"
  <2>1. PICK out \in Seq(Nat) : s = [st EXCEPT !.output = out, !.open = FALSE]
    <3>1. s = [st EXCEPT !.output = IF st.open THEN st.output ELSE Append(st.output, i), !.open = FALSE]
      BY <1>1, <1>5 DEF CopilotHears
    <3> QED BY <1>2, <3>1 DEF States
  <2> QED BY <1>5, <2>1 DEF States
<1>6. CASE l = "error"
  <2>1. s = [st EXCEPT !.failed = TRUE]
    BY <1>1, <1>6 DEF CopilotHears
  <2> QED BY <1>6, <2>1 DEF States
<1>7. CASE l = "badexit"
  <2>1. s = [st EXCEPT !.id = "fresh", !.failed = TRUE]
    BY <1>1, <1>7 DEF CopilotHears
  <2> QED BY <1>7, <2>1 DEF States
<1> QED BY <1>3, <1>4, <1>5, <1>6, <1>7, KindsOf

PiTurns(l, s) ==
  /\ s \in States
  /\ s.failed = (IF l = "fatal" THEN TRUE ELSE st.failed)
  /\ s.async = st.async
  /\ l = "start" => s.open /\ s.stashed = st.stashed
  /\ l = "ok" => ~s.open /\ ~s.stashed /\ s.good
  /\ l \in {"bad", "gaveup"} => s.stashed
  /\ l = "retry" => s.stashed = st.stashed
  /\ l = "delta" => s.open = st.open /\ s.stashed = st.stashed /\ s.good = st.good

\* A line of pi: the text of an attempt is committed or dropped with it.
LEMMA PiState ==
  ASSUME st \in States, backend = "pi", NEW l \in LineKinds["pi"] \ {"huge"}, NEW i \in Nat,
         NEW s, s = Hears(l, i)
  PROVE  PiTurns(l, s)
<1> USE DEF PiTurns
<1>1. s = PiHears(l, i)
  BY DEF Hears
<1>2. /\ Append(st.attempt, i) \in Seq(Nat) /\ st.output \o st.attempt \in Seq(Nat)
      /\ <<>> \in Seq(Nat)
  <2>1. st.output \in Seq(Nat) /\ st.attempt \in Seq(Nat)
    BY DEF States
  <2> QED BY <2>1, Appended
<1>3. CASE l = "start"
  <2>1. s = [st EXCEPT !.open = TRUE, !.emitted = FALSE, !.attempt = <<>>]
    BY <1>1, <1>3 DEF PiHears
  <2> QED BY <1>2, <1>3, <2>1 DEF States
<1>4. CASE l = "delta"
  <2>1. s = [st EXCEPT !.attempt = Append(st.attempt, i)]
    BY <1>1, <1>4 DEF PiHears
  <2> QED BY <1>2, <1>4, <2>1 DEF States
<1>5. CASE l = "ok"
  <2>1. PICK out \in Seq(Nat) : s = [st EXCEPT !.output = out, !.emitted = TRUE, !.attempt = <<>>,
                                     !.open = FALSE, !.stashed = FALSE, !.good = TRUE]
    <3> DEFINE text == IF st.emitted THEN st.output ELSE st.output \o st.attempt
    <3>1. s = [st EXCEPT !.output = text, !.emitted = TRUE, !.attempt = <<>>,
                         !.open = FALSE, !.stashed = FALSE, !.good = TRUE]
      BY <1>1, <1>5 DEF PiHears
    <3>2. text \in Seq(Nat)
      <4>1. st.output \in Seq(Nat)
        BY DEF States
      <4> QED BY <1>2, <4>1
    <3> HIDE DEF text
    <3> QED BY <3>1, <3>2
  <2>2. PICK base \in States : base = [st EXCEPT !.output = out, !.emitted = TRUE, !.attempt = <<>>]
    BY <1>2 DEF States
  <2>3. base.async = st.async /\ base.failed = st.failed
    BY <2>2 DEF States
  <2>4. s = [base EXCEPT !.open = FALSE, !.stashed = FALSE, !.good = TRUE]
    BY <2>1, <2>2 DEF States
  <2>5. s \in States
    BY <2>2, <2>4 DEF States
  <2>6. /\ s.failed = st.failed /\ s.async = st.async
        /\ s.open = FALSE /\ s.stashed = FALSE /\ s.good = TRUE
    BY <2>2, <2>3, <2>4 DEF States
  <2> QED BY <1>5, <2>5, <2>6
<1>6. CASE l = "bad"
  <2>1. s = [[st EXCEPT !.open = FALSE, !.attempt = <<>>] EXCEPT !.stashed = TRUE]
    BY <1>1, <1>6 DEF PiHears, Discarded
  <2> QED BY <1>2, <1>6, <2>1 DEF States
<1>7. CASE l = "retry"
  <2>1. s = [st EXCEPT !.open = FALSE, !.emitted = FALSE, !.attempt = <<>>]
    BY <1>1, <1>7 DEF PiHears
  <2> QED BY <1>2, <1>7, <2>1 DEF States
<1>8. CASE l = "gaveup"
  <2>1. s = [st EXCEPT !.stashed = TRUE]
    BY <1>1, <1>8 DEF PiHears
  <2> QED BY <1>8, <2>1 DEF States
<1>9. CASE l = "fatal"
  <2>1. s = [[st EXCEPT !.open = FALSE, !.attempt = <<>>] EXCEPT !.failed = TRUE]
    BY <1>1, <1>9 DEF PiHears, Discarded
  <2> QED BY <1>2, <1>9, <2>1 DEF States
<1> QED BY <1>3, <1>4, <1>5, <1>6, <1>7, <1>8, <1>9, KindsOf

\* The line that is read.
LEMMA Reading ==
  ASSUME TypesOK, ReadLine
  PROVE  \E n \in Nat : \E l \in LineKinds[backend] \ {"huge"} :
           /\ n = heard + 1 /\ n \in 1..Len(spoken) /\ heard' = n /\ l = spoken[n] /\ st' = Hears(l, n)
<1>1. heard + 1 \in Nat /\ heard + 1 \in 1..Len(spoken)
  <2>1. heard \in Nat /\ Len(spoken) \in Nat /\ heard < Len(spoken)
    BY LineFacts DEF ReadLine, TypesOK
  <2> QED BY <2>1
<1>2. spoken[heard + 1] \in LineKinds[backend] \ {"huge"}
  BY <1>1, LineFacts DEF ReadLine, Choked, TypesOK
<1>3. heard' = heard + 1 /\ st' = Hears(spoken[heard + 1], heard + 1)
  BY DEF ReadLine
<1> QED BY <1>1, <1>2, <1>3

\* A line that can be read leaves a state of the reader.
LEMMA ReadingState ==
  ASSUME TypesOK, NEW n \in Nat, NEW l \in LineKinds[backend] \ {"huge"}, st' = Hears(l, n)
  PROVE  st' \in States
<1>1. backend \in AllBackends /\ st \in States
  BY DEF TypesOK, RunTypes
<1> QED BY <1>1, ClaudeState, CopilotState, PiState DEF AllBackends, PiTurns

\* What a step leaves alone keeps its types.
LEMMA TypeFrames ==
  /\ RunTypes /\ UNCHANGED runVars => RunTypes'
  /\ PhaseTypes /\ UNCHANGED <<pc, ctx, temp, child>> => PhaseTypes'
  /\ LineTypes /\ UNCHANGED <<backend, spoken, heard>> => LineTypes'
  /\ FlagTypes /\ UNCHANGED <<held, outShut, inShut, writeErr, pipeClosed>> => FlagTypes'
  /\ st \in States /\ UNCHANGED st => (st \in States)'
  BY DEF RunTypes, PhaseTypes, LineTypes, FlagTypes, runVars

\* Whether Wait fails is yes or no, a descendant holding stdout or not.
LEMMA WaitFailsIs ==
  ASSUME held \in BOOLEAN, NEW w \in WaitFails
  PROVE  w \in BOOLEAN
  BY DEF WaitFails

\* Every step keeps the types.
LEMMA TypesStep == TypesOK /\ [Next]_vars => TypesOK'
<1> SUFFICES ASSUME TypesOK, [Next]_vars
             PROVE  TypesOK'
  OBVIOUS
<1> USE TypeFrames
<1>1. RunTypes /\ PhaseTypes /\ LineTypes /\ FlagTypes /\ st \in States
  BY DEF TypesOK
<1>2. CASE CreateTemp
  <2>1. PhaseTypes'
    <3>1. pc' \in {"spawn", "refused"} /\ ctx' \in {ctx, "released"} /\ child' = child
      BY <1>2 DEF CreateTemp, childVars
    <3>2. temp' \in BOOLEAN
      <4>1. temp' = temp \/ temp' = TRUE \/ temp' = FALSE
        BY <1>2 DEF CreateTemp, NeedsTemp
      <4> QED BY <1>1, <4>1 DEF PhaseTypes
    <3> QED BY <1>1, <3>1, <3>2 DEF PhaseTypes, Phases
  <2> QED BY <1>1, <1>2, <2>1 DEF CreateTemp, TypesOK, runVars, childVars, inVars, msgVars
<1>3. CASE Spawn
  <2>1. PhaseTypes'
    BY <1>1, <1>3 DEF Spawn, Refuse, PhaseTypes, Phases
  <2> QED BY <1>1, <1>3, <2>1 DEF Spawn, TypesOK, runVars, inVars, msgVars
<1>4. CASE ContextEnds
  <2>1. PhaseTypes'
    BY <1>1, <1>4 DEF ContextEnds, PhaseTypes, childVars
  <2> QED BY <1>1, <1>4, <2>1 DEF ContextEnds, TypesOK, runVars, childVars, inVars, msgVars
<1>5. CASE KillOnContext
  <2>1. PhaseTypes'
    BY <1>1, <1>5 DEF KillOnContext, PhaseTypes
  <2>2. FlagTypes'
    BY <1>1, <1>5 DEF KillOnContext, FlagTypes, inVars, msgVars
  <2> QED BY <1>1, <1>5, <2>1, <2>2 DEF KillOnContext, TypesOK, runVars
<1>6. CASE WatchContext
  <2>1. FlagTypes'
    BY <1>1, <1>6 DEF WatchContext, FlagTypes, childVars, msgVars
  <2> QED BY <1>1, <1>6, <2>1 DEF WatchContext, TypesOK, runVars, childVars
<1>7. CASE Say
  <2>1. PICK l \in LineKinds[backend] : spoken' = Append(spoken, l)
    BY <1>7 DEF Say
  <2>2. heard' = heard /\ backend' = backend
    BY <1>7 DEF Say, runVars
  <2>3. LineTypes'
    BY <1>1, <2>1, <2>2 DEF LineTypes
  <2> QED BY <1>1, <1>7, <2>3 DEF Say, TypesOK, runVars, inVars, msgVars
<1>8. CASE Stall
  BY <1>1, <1>8 DEF Stall, TypesOK, runVars, inVars, msgVars
<1>9. CASE ReadStdin
  BY <1>1, <1>9 DEF ReadStdin, TypesOK, runVars, childVars, msgVars
<1>10. ASSUME NEW how \in {"exit0", "exitN"}, Exit(how)
       PROVE  TypesOK'
  <2>1. PhaseTypes'
    BY <1>1, <1>10 DEF Exit, PhaseTypes
  <2>2. FlagTypes'
    BY <1>1, <1>10 DEF Exit, FlagTypes, inVars, msgVars
  <2> QED BY <1>1, <1>10, <2>1, <2>2 DEF Exit, TypesOK, runVars
<1>11. CASE LetGo
  <2>1. FlagTypes'
    BY <1>1, <1>11 DEF LetGo, FlagTypes, inVars, msgVars
  <2> QED BY <1>1, <1>11, <2>1 DEF LetGo, TypesOK, runVars
<1>12. CASE WritePrompt
  <2>1. FlagTypes'
    BY <1>1, <1>12 DEF WritePrompt, FlagTypes, childVars, msgVars
  <2> QED BY <1>1, <1>12, <2>1 DEF WritePrompt, TypesOK, runVars, childVars
<1>13. CASE ReadLine
  <2>1. PICK n \in Nat : \E l \in LineKinds[backend] \ {"huge"} :
          n \in 1..Len(spoken) /\ heard' = n /\ l = spoken[n] /\ st' = Hears(l, n)
    BY <1>13, Reading
  <2>2. (st \in States)'
    BY <2>1, ReadingState
  <2>3. LineTypes'
    BY <1>1, <1>13, <2>1, LineFacts DEF LineTypes, ReadLine, runVars, childVars
  <2>4. PhaseTypes'
    BY <1>1, <1>13 DEF ReadLine, PhaseTypes, Phases, childVars
  <2>5. FlagTypes'
    BY <1>1, <1>13 DEF ReadLine, LineEndsInput, Send, FlagTypes, childVars
  <2> QED BY <1>1, <1>13, <2>2, <2>3, <2>4, <2>5 DEF ReadLine, TypesOK, runVars
<1>14. CASE Answer
  <2>1. PhaseTypes'
    BY <1>1, <1>14 DEF Answer, PhaseTypes, Phases, childVars
  <2> QED BY <1>1, <1>14, <2>1 DEF Answer, TypesOK, runVars, childVars, msgVars
<1>15. CASE StopReading
  <2>1. PhaseTypes'
    BY <1>1, <1>15 DEF StopReading, PhaseTypes, Phases
  <2>2. FlagTypes'
    BY <1>1, <1>15 DEF StopReading, FlagTypes, msgVars
  <2>3. (st \in States)'
    <3>1. PICK broken \in BOOLEAN : st' = [st EXCEPT !.broken = broken]
      BY <1>15 DEF StopReading
    <3> QED BY <1>1, <3>1 DEF States
  <2> QED BY <1>1, <1>15, <2>1, <2>2, <2>3 DEF StopReading, TypesOK, runVars
<1>16. CASE Report
  <2>1. PhaseTypes'
    BY <1>1, <1>16 DEF Report, PhaseTypes, Phases, childVars
  <2>2. FlagTypes'
    BY <1>1, <1>16 DEF Report, Send, FlagTypes, childVars, inVars
  <2>3. (st \in States)'
    <3>1. PICK w \in WaitFails : st' = [st EXCEPT !.waitErr = w]
      BY <1>16 DEF Report
    <3>2. w \in BOOLEAN
      BY <1>1, WaitFailsIs DEF FlagTypes
    <3> QED BY <1>1, <3>1, <3>2 DEF States
  <2> QED BY <1>1, <1>16, <2>1, <2>2, <2>3 DEF Report, TypesOK, runVars, childVars
<1>17. CASE ClosePipe
  <2>1. PhaseTypes'
    BY <1>1, <1>17 DEF ClosePipe, PhaseTypes, Phases, childVars
  <2>2. FlagTypes'
    BY <1>1, <1>17 DEF ClosePipe, FlagTypes, childVars, inVars
  <2> QED BY <1>1, <1>17, <2>1, <2>2 DEF ClosePipe, TypesOK, runVars, childVars
<1>18. CASE Release
  <2>1. PhaseTypes'
    BY <1>1, <1>18 DEF Release, PhaseTypes, Phases, childVars
  <2> QED BY <1>1, <1>18, <2>1 DEF Release, TypesOK, runVars, childVars, inVars, msgVars
<1>19. CASE UNCHANGED vars
  BY <1>1, <1>19 DEF vars, TypesOK, runVars, childVars, inVars, msgVars
<1> QED BY <1>2, <1>3, <1>4, <1>5, <1>6, <1>7, <1>8, <1>9, <1>10, <1>11, <1>12, <1>13, <1>14,
           <1>15, <1>16, <1>17, <1>18, <1>19 DEF Next, ChildStep, RunStep, Conclude

-----------------------------------------------------------------------------
(* Where the run is, and what it holds.                                    *)

\* The context has the last word on a status.
LEMMA StatusIs ==
  ASSUME NEW w
  PROVE  /\ Status(w) \in {"timeout", "aborted", "completed", "failed"}
         /\ Status(w) = "timeout" <=> ctx = "deadline"
         /\ Status(w) = "aborted" <=> ctx = "canceled"
         /\ ctx \notin {"deadline", "canceled"} => Status(w) = RanStatus(w)
  BY DEF Status, RanStatus

\* Which backend has a temporary file does not change.
LEMMA TempFrame ==
  /\ NeedsTemp \in BOOLEAN
  /\ UNCHANGED backend => NeedsTemp' = NeedsTemp
  BY DEF NeedsTemp

\* A step that leaves the run where it is and takes nothing new.
LEMMA PhaseCalm ==
  ASSUME PhaseOK, UNCHANGED <<backend, pc, temp, res, pipeClosed>>,
         child' = "none" <=> child = "none", child' = "running" => child = "running",
         ctx # "live" => ctx' # "live", ctx' = "released" => ctx = "released",
         outShut' => outShut \/ ctx # "live", inShut => inShut', ~Writing => ~Writing'
  PROVE  PhaseOK'
<1> USE TempFrame
<1> HIDE DEF NeedsTemp, Writing
<1> QED BY DEF PhaseOK, Idle, Over, Reported

\* Every step keeps the phases in order.
LEMMA PhaseStep == TypesOK /\ PhaseOK /\ [Next]_vars => PhaseOK'
<1> SUFFICES ASSUME TypesOK, PhaseOK, [Next]_vars
             PROVE  PhaseOK'
  OBVIOUS
<1> USE PhaseCalm
<1>1. CASE CreateTemp
  <2>1. /\ pc = "create" /\ UNCHANGED <<backend, child, res, outShut, inShut>> /\ UNCHANGED pipeClosed
        /\ UNCHANGED Writing
    BY <1>1 DEF CreateTemp, runVars, childVars, inVars, msgVars, Writing
  <2>2. CASE pc' = "spawn" /\ temp' = NeedsTemp /\ UNCHANGED ctx
    BY <2>1, <2>2, TempFrame DEF PhaseOK, Idle, Over, Reported
  <2>3. CASE /\ pc' = "refused" /\ UNCHANGED temp
             /\ ctx' = IF backend = "claude" /\ ctx = "live" THEN "released" ELSE ctx
    BY <2>1, <2>3, TempFrame DEF PhaseOK, Idle, Over, Reported
  <2> QED BY <1>1, <2>2, <2>3 DEF CreateTemp
<1>2. CASE Spawn
  <2>1. /\ pc = "spawn" /\ UNCHANGED <<backend, res, outShut, inShut>> /\ UNCHANGED pipeClosed
        /\ UNCHANGED Writing
    BY <1>2 DEF Spawn, runVars, inVars, msgVars, Writing
  <2>2. CASE Refuse
    BY <2>1, <2>2, TempFrame DEF Refuse, PhaseOK, Idle, Over, Reported
  <2>3. CASE ctx = "live" /\ pc' = "read" /\ child' = "running" /\ UNCHANGED <<temp, ctx>>
    BY <2>1, <2>3, TempFrame DEF PhaseOK, Idle, Over, Reported
  <2> QED BY <1>2, <2>2, <2>3 DEF Spawn
<1>3. CASE ContextEnds
  BY <1>3 DEF ContextEnds, runVars, childVars, inVars, msgVars, Writing
<1>4. CASE KillOnContext
  BY <1>4 DEF KillOnContext, runVars, inVars, msgVars, Writing
<1>5. CASE WatchContext
  BY <1>5 DEF WatchContext, runVars, childVars, msgVars, Writing
<1>6. CASE Say
  BY <1>6 DEF Say, runVars, inVars, msgVars, Writing
<1>7. CASE Stall
  BY <1>7 DEF Stall, runVars, inVars, msgVars, Writing
<1>8. CASE ReadStdin
  BY <1>8 DEF ReadStdin, runVars, childVars, msgVars, Writing
<1>9. ASSUME NEW how \in {"exit0", "exitN"}, Exit(how)
      PROVE  PhaseOK'
  BY <1>9 DEF Exit, runVars, inVars, msgVars, Writing
<1>10. CASE LetGo
  BY <1>10 DEF LetGo, runVars, inVars, msgVars, Writing
<1>11. CASE WritePrompt
  BY <1>11 DEF WritePrompt, Takes, runVars, childVars, msgVars
<1>12. CASE ReadLine
  <2>1. /\ pc = "read" /\ pc' \in {"read", "answer"}
        /\ UNCHANGED <<backend, ctx, temp, child, outShut, res>> /\ UNCHANGED pipeClosed
    BY <1>12 DEF ReadLine, Send, runVars, childVars
  <2> QED BY <2>1, TempFrame DEF PhaseOK, Idle, Over, Reported
<1>13. CASE Answer
  <2>1. /\ pc = "answer" /\ pc' \in {"read", "answer"}
        /\ UNCHANGED <<backend, ctx, temp, child, outShut, res>> /\ UNCHANGED pipeClosed
    BY <1>13 DEF Answer, runVars, childVars, msgVars
  <2> QED BY <2>1, TempFrame DEF PhaseOK, Idle, Over, Reported
<1>14. CASE StopReading
  <2>1. /\ pc = "read" /\ pc' = "reap" /\ inShut' = (inShut \/ backend = "claude")
        /\ child' \in {child, "killed"}
        /\ UNCHANGED <<backend, ctx, temp, outShut, res>> /\ UNCHANGED pipeClosed
    BY <1>14 DEF StopReading, runVars, msgVars
  <2> QED BY <2>1, TempFrame DEF PhaseOK, Idle, Over, Reported
<1>15. CASE Report
  <2>1. /\ pc = "reap" /\ pc' = "close" /\ temp' = FALSE /\ child # "running"
        /\ UNCHANGED <<backend, ctx, child, outShut, inShut>> /\ UNCHANGED pipeClosed
        /\ UNCHANGED Writing
    BY <1>15 DEF Report, Send, runVars, childVars, inVars, Writing
  <2>2. backend = "claude" => ~Writing
    BY <1>15 DEF Report, PromptSettled, ReadsPrompt
  <2>3. Reported'
    BY <1>15, StatusIs DEF Report, Reported
  <2> QED BY <2>1, <2>2, <2>3 DEF PhaseOK, Idle, Over
<1>16. CASE ClosePipe
  <2>1. /\ pc = "close" /\ pc' = "release" /\ pipeClosed' = TRUE
        /\ UNCHANGED <<backend, ctx, temp, child, outShut, inShut, res>> /\ UNCHANGED Writing
    BY <1>16 DEF ClosePipe, runVars, childVars, inVars, Writing
  <2> QED BY <2>1 DEF PhaseOK, Idle, Over, Reported
<1>17. CASE Release
  <2>1. /\ pc = "release" /\ pc' = "done" /\ ctx' = IF ctx = "live" THEN "released" ELSE ctx
        /\ UNCHANGED <<backend, temp, child, outShut, inShut, res>> /\ UNCHANGED pipeClosed
        /\ UNCHANGED Writing
    BY <1>17 DEF Release, runVars, childVars, inVars, msgVars, Writing
  <2> QED BY <2>1 DEF PhaseOK, Idle, Over, Reported
<1>18. CASE UNCHANGED vars
  BY <1>18 DEF vars, runVars, childVars, inVars, msgVars, Writing
<1> QED BY <1>1, <1>2, <1>3, <1>4, <1>5, <1>6, <1>7, <1>8, <1>9, <1>10, <1>11, <1>12, <1>13,
           <1>14, <1>15, <1>16, <1>17, <1>18 DEF Next, ChildStep, RunStep, Conclude

-----------------------------------------------------------------------------
(* What the reader knows.                                                  *)

\* Speaking changes nothing of what was heard.
LEMMA HeardKept ==
  ASSUME LineTypes, NEW kinds, UNCHANGED heard,
         spoken' = spoken \/ \E l \in LineKinds[backend] : spoken' = Append(spoken, l)
  PROVE  Heard(kinds)' = Heard(kinds) /\ \A i \in 1..heard : spoken'[i] = spoken[i]
<1>1. \A i \in 1..heard : spoken'[i] = spoken[i]
  <2>1. CASE spoken' = spoken
    BY <2>1
  <2>2. ASSUME NEW l \in LineKinds[backend], spoken' = Append(spoken, l)
        PROVE  \A i \in 1..heard : spoken'[i] = spoken[i]
    <3>1. spoken \in Seq(LineKinds[backend])
      BY DEF LineTypes
    <3>2. \A i \in 1..Len(spoken) : spoken'[i] = spoken[i]
      BY <2>2, <3>1
    <3> QED BY <3>2, LineFacts
  <2> QED BY <2>1, <2>2
<1> QED BY <1>1 DEF Heard

\* Reading a line adds this one to those heard of its kind.
LEMMA HeardMore ==
  ASSUME LineTypes, NEW kinds, NEW n \in Nat, n = heard + 1, heard' = n, UNCHANGED spoken
  PROVE  Heard(kinds)' = IF spoken[n] \in kinds THEN Heard(kinds) \cup {n} ELSE Heard(kinds)
<1>1. heard \in Nat
  BY DEF LineTypes
<1>2. 1..n = (1..heard) \cup {n}
  BY <1>1
<1> QED BY <1>2 DEF Heard

\* What StateOK speaks of.
StateFields == <<st.failed, st.async, st.id, st.open, st.good, st.stashed>>

\* A step that is not the reader's leaves what it knows true.
LEMMA StateFrame ==
  ASSUME LineTypes, StateOK, UNCHANGED <<runVars, heard>>, UNCHANGED StateFields,
         spoken' = spoken \/ \E l \in LineKinds[backend] : spoken' = Append(spoken, l),
         RetryOK => RetryOK'
  PROVE  StateOK'
<1>1. UNCHANGED <<backend, resume, landed, heard>>
  BY DEF runVars
<1>2. /\ UNCHANGED st.failed /\ UNCHANGED st.async /\ UNCHANGED st.id /\ UNCHANGED st.open
      /\ UNCHANGED st.good /\ UNCHANGED st.stashed
  BY DEF StateFields
<1>3. \A kinds : Heard(kinds)' = Heard(kinds)
  BY HeardKept
<1>4. \A i \in Heard(Attempts) : spoken'[i] = spoken[i]
  BY HeardKept DEF Heard
<1>5. ClaudeOK => ClaudeOK'
  BY <1>1, <1>2, <1>3 DEF ClaudeOK
<1>6. CopilotOK => CopilotOK'
  BY <1>1, <1>2, <1>3 DEF CopilotOK
<1>7. ASSUME PiOK
      PROVE  PiOK'
  <2>1. Heard({"fatal"})' = Heard({"fatal"}) /\ Heard(Attempts)' = Heard(Attempts)
    BY <1>3
  <2>2. \A i \in Heard(Attempts) : Left(spoken[i]) => Left(spoken[i])'
    BY <1>2, <1>4 DEF Left
  <2> HIDE DEF Heard, Attempts, Left
  <2> QED BY <1>2, <1>7, <2>1, <2>2 DEF PiOK
<1> QED BY <1>1, <1>5, <1>6, <1>7 DEF StateOK

\* A retry, or giving up, follows an attempt that failed, whatever is said next.
LEMMA RetrySays ==
  ASSUME LineTypes, RetryOK, Say
  PROVE  RetryOK'
<1>1. PICK l \in LineKinds[backend] : MaySay(l) /\ spoken' = Append(spoken, l)
  BY DEF Say
<1>2. spoken \in Seq(LineKinds[backend]) /\ Len(spoken) \in Nat
  BY DEF LineTypes
<1>3. /\ Len(spoken') = Len(spoken) + 1 /\ spoken'[Len(spoken) + 1] = l
      /\ \A i \in 1..Len(spoken) : spoken'[i] = spoken[i]
  BY <1>1, <1>2
<1>4. l \in {"retry", "gaveup"} => Len(spoken) \in 1..Len(spoken) /\ spoken[Len(spoken)] = "bad"
  <2>1. l \in {"retry", "gaveup"} => LastLine = "bad"
    BY <1>1 DEF MaySay
  <2>2. LastLine = "bad" => spoken # <<>> /\ spoken[Len(spoken)] = "bad"
    BY DEF LastLine
  <2>3. spoken # <<>> => Len(spoken) \in 1..Len(spoken)
    BY <1>2
  <2> QED BY <2>1, <2>2, <2>3
<1>5. \A i \in 1..Len(spoken') : i \in 1..Len(spoken) \/ i = Len(spoken) + 1
  BY <1>2, <1>3
<1> QED BY <1>2, <1>3, <1>4, <1>5 DEF RetryOK

\* Hearing a line.
LEMMA ClaudeReads ==
  ASSUME TypesOK, StateOK, ReadLine, backend = "claude"
  PROVE  ClaudeOK'
<1>1. PICK n \in Nat : \E l \in LineKinds["claude"] \ {"huge"} :
        n = heard + 1 /\ heard' = n /\ l = spoken[n] /\ st' = Hears(l, n)
  BY Reading
<1>2. PICK l \in LineKinds["claude"] \ {"huge"} : l = spoken[n] /\ st' = Hears(l, n)
  BY <1>1
<1>3. /\ st'.failed = (IF l = "failed" THEN TRUE ELSE st.failed)
      /\ st'.async = (IF l = "async" THEN TRUE ELSE st.async)
      /\ st'.id \in {st.id, ChildId}
  BY <1>2, ClaudeState DEF TypesOK
<1>4. \A kinds : Heard(kinds)' = IF l \in kinds THEN Heard(kinds) \cup {n} ELSE Heard(kinds)
  BY <1>1, <1>2, HeardMore DEF TypesOK, ReadLine, childVars
<1>5. ClaudeOK /\ UNCHANGED <<resume, landed>>
  BY DEF StateOK, ReadLine, runVars
<1>6. /\ Heard({"failed"})' # {} <=> (l = "failed" \/ Heard({"failed"}) # {})
      /\ Heard({"async"})' # {} <=> (l = "async" \/ Heard({"async"}) # {})
  BY <1>4
<1>7. resume /\ ~landed => st'.id \in {"", "fresh"}
  BY <1>3, <1>5 DEF ClaudeOK, ChildId
<1> HIDE DEF Heard
<1> QED BY <1>3, <1>5, <1>6, <1>7 DEF ClaudeOK

\* Reading a line keeps what the reader of copilot knows true.
LEMMA CopilotReads ==
  ASSUME TypesOK, StateOK, ReadLine, backend = "copilot"
  PROVE  CopilotOK'
<1>1. PICK n \in Nat : \E l \in LineKinds["copilot"] \ {"huge"} :
        n = heard + 1 /\ heard' = n /\ l = spoken[n] /\ st' = Hears(l, n)
  BY Reading
<1>2. PICK l \in LineKinds["copilot"] \ {"huge"} : l = spoken[n] /\ st' = Hears(l, n)
  BY <1>1
<1>3. /\ st'.failed = (IF l \in {"error", "badexit"} THEN TRUE ELSE st.failed)
      /\ st'.async = st.async
  BY <1>2, CopilotState DEF TypesOK
<1>4. \A kinds : Heard(kinds)' = IF l \in kinds THEN Heard(kinds) \cup {n} ELSE Heard(kinds)
  BY <1>1, <1>2, HeardMore DEF TypesOK, ReadLine, childVars
<1>5. CopilotOK
  BY DEF StateOK
<1>6. Heard({"error", "badexit"})' # {}
        <=> (l \in {"error", "badexit"} \/ Heard({"error", "badexit"}) # {})
  BY <1>4
<1> HIDE DEF Heard
<1> QED BY <1>3, <1>5, <1>6 DEF CopilotOK

\* Reading a line keeps what the reader of pi knows true.
LEMMA PiReads ==
  ASSUME TypesOK, StateOK, ReadLine, backend = "pi"
  PROVE  PiOK'
<1>1. PICK n \in Nat : \E l \in LineKinds["pi"] \ {"huge"} :
        n = heard + 1 /\ n \in 1..Len(spoken) /\ heard' = n /\ l = spoken[n] /\ st' = Hears(l, n)
  BY Reading
<1>2. PICK l \in LineKinds["pi"] \ {"huge"} : l = spoken[n] /\ st' = Hears(l, n)
  BY <1>1
<1>3. /\ st'.failed = (IF l = "fatal" THEN TRUE ELSE st.failed)
      /\ st'.async = st.async
      /\ l = "start" => st'.open /\ st'.stashed = st.stashed
      /\ l = "ok" => ~st'.open /\ ~st'.stashed /\ st'.good
      /\ l \in {"bad", "gaveup"} => st'.stashed
      /\ l = "retry" => st'.stashed = st.stashed
      /\ l = "delta" => st'.open = st.open /\ st'.stashed = st.stashed /\ st'.good = st.good
  <2>1. st \in States
    BY DEF TypesOK
  <2>2. PICK s : s = st' /\ s = Hears(l, n)
    BY <1>2
  <2>3. PiTurns(l, s)
    BY <2>1, <2>2, PiState
  <2> QED BY <2>2, <2>3 DEF PiTurns
<1>4. \A kinds : Heard(kinds)' = IF l \in kinds THEN Heard(kinds) \cup {n} ELSE Heard(kinds)
  BY <1>1, <1>2, HeardMore DEF TypesOK, ReadLine, childVars
<1>5. PiOK /\ RetryOK /\ UNCHANGED spoken /\ heard \in Nat
  BY DEF StateOK, ReadLine, childVars, TypesOK, LineTypes
<1>6. Heard({"fatal"})' # {} <=> (l = "fatal" \/ Heard({"fatal"}) # {})
  BY <1>4
<1>7. ASSUME ~st'.failed
      PROVE  \/ Heard(Attempts)' = {} /\ ~st'.good
             \/ \E i \in Heard(Attempts)' : (\A j \in Heard(Attempts)' : j <= i) /\ Left(spoken[i])'
  <2>1. l # "fatal" /\ ~st.failed
    BY <1>3, <1>7
  <2>2. CASE l = "delta"
    <3>1. Heard(Attempts)' = Heard(Attempts)
      BY <1>4, <2>2 DEF Attempts
    <3>2. \A i \in Heard(Attempts) : Left(spoken[i]) => Left(spoken[i])'
      BY <1>3, <1>5, <2>2 DEF Left
    <3>3. st'.good = st.good
      BY <1>3, <2>2
    <3> HIDE DEF Heard, Attempts, Left
    <3> QED BY <1>5, <2>1, <3>1, <3>2, <3>3 DEF PiOK
  <2>3. CASE l \in Attempts
    <3>1. Heard(Attempts)' = Heard(Attempts) \cup {n}
      BY <1>4, <2>3
    <3>2. \A j \in Heard(Attempts)' : j <= n
      BY <1>1, <1>5, <3>1 DEF Heard
    <3>3. ASSUME l = "retry"
          PROVE  st.stashed
      <4>1. n - 1 \in 1..Len(spoken) /\ spoken[n - 1] = "bad" /\ n - 1 = heard
        <5>1. spoken[n] = "retry" /\ n \in 1..Len(spoken)
          BY <1>1, <1>2, <3>3
        <5>2. n - 1 \in 1..Len(spoken) /\ spoken[n - 1] = "bad"
          BY <1>5, <5>1 DEF RetryOK
        <5>3. n - 1 = heard
          BY <1>1, <1>5
        <5> QED BY <5>2, <5>3
      <4>2. heard \in Heard(Attempts) /\ \A j \in Heard(Attempts) : j <= heard
        BY <1>5, <4>1 DEF Heard, Attempts
      <4>3. PICK i \in Heard(Attempts) : (\A j \in Heard(Attempts) : j <= i) /\ Left(spoken[i])
        BY <1>5, <2>1, <4>2 DEF PiOK
      <4>4. i = heard
        BY <1>5, <4>2, <4>3 DEF Heard
      <4> QED BY <4>1, <4>3, <4>4 DEF Left
    <3>4. Left(spoken[n])'
      BY <1>2, <1>3, <1>5, <3>3 DEF Left
    <3> QED BY <3>1, <3>2, <3>4
  <2> QED BY <2>1, <2>2, <2>3, KindsOf DEF Attempts
<1>8. st'.failed <=> Heard({"fatal"})' # {}
  <2> HIDE DEF Heard
  <2> QED BY <1>3, <1>5, <1>6 DEF PiOK
<1>9. ~st'.async
  BY <1>3, <1>5 DEF PiOK
<1> QED BY <1>5, <1>7, <1>8, <1>9 DEF PiOK

\* Every step keeps the reader's state that of the lines it has read.
LEMMA StateStep == TypesOK /\ StateOK /\ [Next]_vars => StateOK'
<1> SUFFICES ASSUME TypesOK, StateOK, [Next]_vars
             PROVE  StateOK'
  OBVIOUS
<1>1. LineTypes /\ st \in States
  BY DEF TypesOK
<1>2. ASSUME UNCHANGED <<runVars, heard, spoken, st>>
      PROVE  StateOK'
  <2>1. RetryOK => RetryOK'
    BY <1>2 DEF RetryOK
  <2> QED BY <1>1, <1>2, <2>1, StateFrame DEF StateFields
<1>3. CASE Say
  <2>1. RetryOK => RetryOK'
    BY <1>1, <1>3, RetrySays
  <2>2. UNCHANGED <<runVars, heard, st>> /\ \E l \in LineKinds[backend] : spoken' = Append(spoken, l)
    BY <1>3 DEF Say
  <2> QED BY <1>1, <2>1, <2>2, StateFrame DEF StateFields
<1>4. CASE ReadLine
  <2>1. UNCHANGED backend /\ UNCHANGED spoken
    BY <1>4 DEF ReadLine, runVars, childVars
  <2>2. RetryOK => RetryOK'
    BY <2>1 DEF RetryOK
  <2> QED BY <1>4, <2>1, <2>2, ClaudeReads, CopilotReads, PiReads DEF StateOK
<1>5. CASE StopReading
  <2>1. PICK broken \in BOOLEAN : st' = [st EXCEPT !.broken = broken]
    BY <1>5 DEF StopReading
  <2>2. UNCHANGED StateFields
    BY <1>1, <2>1 DEF States, StateFields
  <2>3. UNCHANGED <<runVars, heard, spoken>>
    BY <1>5 DEF StopReading
  <2>4. RetryOK => RetryOK'
    BY <2>3 DEF RetryOK
  <2> QED BY <1>1, <2>2, <2>3, <2>4, StateFrame
<1>6. CASE Report
  <2>1. PICK w \in WaitFails : st' = [st EXCEPT !.waitErr = w]
    BY <1>6 DEF Report
  <2>2. UNCHANGED StateFields
    BY <1>1, <2>1 DEF States, StateFields
  <2>3. UNCHANGED <<runVars, heard, spoken>>
    BY <1>6 DEF Report, childVars
  <2>4. RetryOK => RetryOK'
    BY <2>3 DEF RetryOK
  <2> QED BY <1>1, <2>2, <2>3, <2>4, StateFrame
<1>7. CASE CreateTemp
  BY <1>2, <1>7 DEF CreateTemp, childVars
<1>8. CASE Spawn
  BY <1>2, <1>8 DEF Spawn
<1>9. CASE ContextEnds
  BY <1>2, <1>9 DEF ContextEnds, childVars
<1>10. CASE KillOnContext
  BY <1>2, <1>10 DEF KillOnContext
<1>11. CASE WatchContext
  BY <1>2, <1>11 DEF WatchContext, childVars
<1>12. CASE Stall
  BY <1>2, <1>12 DEF Stall
<1>13. CASE ReadStdin
  BY <1>2, <1>13 DEF ReadStdin, childVars
<1>14. ASSUME NEW how \in {"exit0", "exitN"}, Exit(how)
       PROVE  StateOK'
  BY <1>2, <1>14 DEF Exit
<1>15. CASE LetGo
  BY <1>2, <1>15 DEF LetGo
<1>16. CASE WritePrompt
  BY <1>2, <1>16 DEF WritePrompt, childVars
<1>17. CASE Answer
  BY <1>2, <1>17 DEF Answer, childVars
<1>18. CASE ClosePipe
  BY <1>2, <1>18 DEF ClosePipe, childVars
<1>19. CASE Release
  BY <1>2, <1>19 DEF Release, childVars
<1>20. CASE UNCHANGED vars
  BY <1>2, <1>20 DEF vars, childVars
<1> QED BY <1>3, <1>4, <1>5, <1>6, <1>7, <1>8, <1>9, <1>10, <1>11, <1>12, <1>13, <1>14, <1>15,
           <1>16, <1>17, <1>18, <1>19, <1>20 DEF Next, ChildStep, RunStep, Conclude

-----------------------------------------------------------------------------
(* Why the reader stops, and what the Result makes of it.                  *)

\* A line that cannot be read stays at the head of the pipe.
LEMMA ChokedKept ==
  ASSUME LineTypes, Choked, UNCHANGED heard,
         spoken' = spoken \/ \E l \in LineKinds[backend] : spoken' = Append(spoken, l)
  PROVE  Choked'
<1>1. heard + 1 \in 1..Len(spoken) /\ spoken[heard + 1] = "huge"
  BY LineFacts DEF Choked
<1>2. CASE spoken' = spoken
  BY <1>2 DEF Choked
<1>3. ASSUME NEW l \in LineKinds[backend], spoken' = Append(spoken, l)
      PROVE  Choked'
  <2>1. spoken \in Seq(LineKinds[backend]) /\ heard \in Nat /\ Len(spoken) \in Nat
    BY DEF LineTypes
  <2>2. Len(spoken') = Len(spoken) + 1 /\ \A i \in 1..Len(spoken) : spoken'[i] = spoken[i]
    BY <1>3, <2>1
  <2> QED BY <1>1, <2>1, <2>2 DEF Choked
<1> QED BY <1>2, <1>3

\* Every step keeps the reason for which the reader has stopped.
LEMMA EndStep == TypesOK /\ PhaseOK /\ EndOK /\ [Next]_vars => EndOK'
<1> SUFFICES ASSUME TypesOK, PhaseOK, EndOK, [Next]_vars, pc' = "reap", ctx' = "live"
             PROVE  AtEOF' \/ (Choked' /\ (backend' = "pi" => st'.broken))
  BY DEF EndOK
<1>1. LineTypes /\ st \in States /\ PhaseTypes
  BY DEF TypesOK
<1>2. ASSUME pc = "reap", ctx = "live", UNCHANGED <<backend, heard, st>>,
             UNCHANGED <<spoken, child, held>>
             \/ /\ child = "running"
                /\ spoken' = spoken \/ \E l \in LineKinds[backend] : spoken' = Append(spoken, l)
      PROVE  AtEOF' \/ (Choked' /\ (backend' = "pi" => st'.broken))
  <2>1. CASE AtEOF /\ UNCHANGED <<spoken, child, held>>
    BY <1>2, <2>1 DEF AtEOF
  <2>2. CASE Choked /\ (backend = "pi" => st.broken)
    BY <1>1, <1>2, <2>2, ChokedKept
  <2>3. AtEOF => child # "running"
    BY DEF AtEOF
  <2> HIDE DEF AtEOF, Choked
  <2> QED BY <1>2, <2>1, <2>2, <2>3 DEF EndOK
<1>3. CASE StopReading
  <2>1. ctx = "live" /\ ~outShut /\ UNCHANGED <<backend, spoken, held, heard, outShut>>
    BY <1>3 DEF StopReading, runVars, PhaseOK
  <2>2. CASE AtEOF
    <3>1. child' = child
      BY <1>3, <2>2 DEF StopReading
    <3> QED BY <2>1, <2>2, <3>1 DEF AtEOF
  <2>3. CASE Choked
    <3>1. ~AtEOF
      BY <1>1, <2>3 DEF AtEOF, Choked, LineTypes
    <3>2. st' = [st EXCEPT !.broken = (backend = "pi")]
      BY <1>3, <2>1, <3>1 DEF StopReading
    <3>3. backend = "pi" => st'.broken
      BY <1>1, <3>2 DEF States
    <3>4. Choked'
      BY <2>1, <2>3 DEF Choked
    <3> QED BY <2>1, <3>3, <3>4
  <2> QED BY <1>3, <2>1, <2>2, <2>3 DEF StopReading, EndsReading
<1>4. CASE CreateTemp
  BY <1>4 DEF CreateTemp
<1>5. CASE Spawn
  BY <1>5 DEF Spawn, Refuse
<1>6. CASE ContextEnds
  BY <1>6 DEF ContextEnds
<1>7. CASE KillOnContext
  BY <1>7 DEF KillOnContext
<1>8. CASE WatchContext
  BY <1>8 DEF WatchContext
<1>9. CASE Say
  BY <1>2, <1>9 DEF Say, MaySpeak, runVars
<1>10. CASE Stall
  BY <1>2, <1>10 DEF Stall, runVars
<1>11. CASE ReadStdin
  BY <1>2, <1>11 DEF ReadStdin, runVars, childVars
<1>12. ASSUME NEW how \in {"exit0", "exitN"}, Exit(how)
       PROVE  AtEOF' \/ (Choked' /\ (backend' = "pi" => st'.broken))
  BY <1>2, <1>12 DEF Exit, runVars
<1>13. CASE LetGo
  <2>1. pc = "reap" /\ ctx = "live" /\ held /\ UNCHANGED <<backend, heard, st, spoken>>
    BY <1>13 DEF LetGo, runVars
  <2>2. Choked /\ (backend = "pi" => st.broken)
    BY <2>1 DEF EndOK, AtEOF
  <2>3. Choked'
    BY <2>1, <2>2 DEF Choked
  <2> QED BY <2>1, <2>2, <2>3
<1>14. CASE WritePrompt
  BY <1>2, <1>14 DEF WritePrompt, runVars, childVars
<1>15. CASE ReadLine
  BY <1>15 DEF ReadLine
<1>16. CASE Answer
  BY <1>16 DEF Answer
<1>17. CASE Report
  BY <1>17 DEF Report
<1>18. CASE ClosePipe
  BY <1>18 DEF ClosePipe
<1>19. CASE Release
  BY <1>19 DEF Release
<1>20. CASE UNCHANGED vars
  BY <1>2, <1>20 DEF vars, runVars, childVars
<1> QED BY <1>3, <1>4, <1>5, <1>6, <1>7, <1>8, <1>9, <1>10, <1>11, <1>12, <1>13, <1>14, <1>15,
           <1>16, <1>17, <1>18, <1>19, <1>20 DEF Next, ChildStep, RunStep, Conclude

\* A run that has reported changes nothing of what its Result speaks of.
LEMMA OverFrame ==
  ASSUME TypesOK, PhaseOK, [Next]_vars, pc \in Over
  PROVE  /\ UNCHANGED <<backend, resume, landed, child, spoken, heard, st, res>>
         /\ ctx \in {"deadline", "canceled"} => ctx' = ctx
         /\ writeErr => writeErr'
<1>1. child # "running" /\ pc \in {"close", "release", "done"}
  BY DEF PhaseOK, Over
<1>2. CASE ContextEnds
  BY <1>2 DEF ContextEnds, runVars, childVars, inVars
<1>3. CASE WatchContext
  BY <1>3 DEF WatchContext, runVars, childVars
<1>4. CASE LetGo
  BY <1>4 DEF LetGo, runVars, inVars
<1>5. CASE WritePrompt
  BY <1>5 DEF WritePrompt, Writing, runVars, childVars
<1>6. CASE ClosePipe
  BY <1>6 DEF ClosePipe, runVars, childVars, inVars
<1>7. CASE Release
  BY <1>7 DEF Release, runVars, childVars, inVars
<1>8. CASE UNCHANGED vars
  BY <1>8 DEF vars, runVars, childVars, inVars
<1>9. ~CreateTemp /\ ~Spawn /\ ~ReadLine /\ ~Answer /\ ~StopReading /\ ~Report
  BY <1>1 DEF CreateTemp, Spawn, ReadLine, Answer, StopReading, Report
<1>10. ~KillOnContext /\ ~Say /\ ~Stall /\ ~ReadStdin /\ \A how \in {"exit0", "exitN"} : ~Exit(how)
  BY <1>1 DEF KillOnContext, Say, Stall, ReadStdin, Exit, MaySpeak
<1> QED BY <1>2, <1>3, <1>4, <1>5, <1>6, <1>7, <1>8, <1>9, <1>10
        DEF Next, ChildStep, RunStep, Conclude

\* At the end of stdout everything said has been heard.
LEMMA HeardAll ==
  ASSUME LineTypes, NEW kinds
  PROVE  /\ Heard(kinds) \subseteq Before(spoken, kinds)
         /\ heard = Len(spoken) => Heard(kinds) = Before(spoken, kinds)
<1>1. \A i \in 1..heard : i \in 1..Len(spoken)
  BY LineFacts
<1> QED BY <1>1 DEF Heard, Before

\* The last line of some kinds is the last one heard of them.
LEMMA LastHeard ==
  ASSUME LineTypes, heard = Len(spoken), NEW kinds, NEW i \in Heard(kinds),
         \A j \in Heard(kinds) : j <= i
  PROVE  LastOf(kinds) = spoken[i]
<1>1. Heard(kinds) = Before(spoken, kinds)
  BY HeardAll
<1> DEFINE last == CHOOSE k \in Before(spoken, kinds) : \A j \in Before(spoken, kinds) : j <= k
<1>2. last \in Before(spoken, kinds) /\ \A j \in Before(spoken, kinds) : j <= last
  BY <1>1
<1>3. LastOf(kinds) = spoken[last]
  BY <1>1 DEF LastOf
<1> HIDE DEF last
<1>4. last \in Nat /\ i \in Nat
  BY <1>1, <1>2 DEF Before
<1>5. last = i
  BY <1>1, <1>2, <1>4
<1> QED BY <1>3, <1>5

\* If none was heard at the end of stdout, there is no last one.
LEMMA NoneHeard ==
  ASSUME LineTypes, heard = Len(spoken), NEW kinds, Heard(kinds) = {}
  PROVE  LastOf(kinds) = ""
  BY HeardAll DEF LastOf

\* A line that failed the run was said; if every line was heard and none did,
\* the child has not failed.
LEMMA FailedIsSaid ==
  ASSUME TypesOK, StateOK
  PROVE  /\ st.failed \/ st.async => ChildFailed
         /\ AtEOF /\ ~st.failed /\ ~st.async /\ backend # "pi" => ~ChildFailed
         /\ AtEOF /\ ~st.failed /\ backend = "pi" => (ChildFailed <=> st.stashed \/ ~st.good \/ st.open)
<1>1. LineTypes /\ backend \in AllBackends /\ st \in States
  BY DEF TypesOK, RunTypes
<1>2. \A kinds : /\ Heard(kinds) \subseteq Before(spoken, kinds)
                 /\ AtEOF => Heard(kinds) = Before(spoken, kinds)
  BY <1>1, HeardAll DEF AtEOF
<1>3. CASE backend = "claude"
  <2>1. ChildFailed <=> Before(spoken, {"failed", "async"}) # {}
    BY <1>3 DEF ChildFailed, Said
  <2>2. ClaudeOK
    BY <1>3 DEF StateOK
  <2>3. Before(spoken, {"failed", "async"}) = Before(spoken, {"failed"}) \cup Before(spoken, {"async"})
    BY DEF Before
  <2> HIDE DEF Heard, AtEOF
  <2>4. /\ Heard({"failed"}) \subseteq Before(spoken, {"failed"})
        /\ AtEOF => Heard({"failed"}) = Before(spoken, {"failed"})
    BY <1>2
  <2>5. /\ Heard({"async"}) \subseteq Before(spoken, {"async"})
        /\ AtEOF => Heard({"async"}) = Before(spoken, {"async"})
    BY <1>2
  <2> HIDE DEF Before
  <2> QED BY <1>3, <2>1, <2>2, <2>3, <2>4, <2>5 DEF ClaudeOK
<1>4. CASE backend = "copilot"
  <2>1. ChildFailed <=> Before(spoken, {"error", "badexit"}) # {}
    BY <1>4 DEF ChildFailed, Said
  <2>2. CopilotOK
    BY <1>4 DEF StateOK
  <2> HIDE DEF Heard
  <2> QED BY <1>2, <1>4, <2>1, <2>2 DEF CopilotOK
<1>5. CASE backend = "pi"
  <2>1. ChildFailed <=> Before(spoken, {"fatal"}) # {} \/ LastOf(Attempts) # "ok"
    BY <1>5 DEF ChildFailed, Said, Attempts
  <2>2. PiOK
    BY <1>5 DEF StateOK
  <2>3. st.failed => Before(spoken, {"fatal"}) # {}
    BY <1>2, <2>2 DEF PiOK
  <2>4. ASSUME AtEOF, ~st.failed
        PROVE  ChildFailed <=> st.stashed \/ ~st.good \/ st.open
    <3>1. heard = Len(spoken) /\ Before(spoken, {"fatal"}) = {}
      BY <1>2, <2>2, <2>4 DEF AtEOF, PiOK
    <3>2. CASE Heard(Attempts) = {} /\ ~st.good
      BY <1>1, <2>1, <3>1, <3>2, NoneHeard
    <3>3. ASSUME NEW i \in Heard(Attempts), \A j \in Heard(Attempts) : j <= i, Left(spoken[i])
          PROVE  ChildFailed <=> st.stashed \/ ~st.good \/ st.open
      <4>1. LastOf(Attempts) = spoken[i]
        BY <1>1, <3>1, <3>3, LastHeard
      <4>2. spoken[i] \in Attempts
        BY DEF Heard
      <4> QED BY <2>1, <3>1, <3>3, <4>1, <4>2 DEF Left, Attempts
    <3> QED BY <2>2, <2>4, <3>2, <3>3 DEF PiOK
  <2> QED BY <1>5, <2>1, <2>2, <2>3, <2>4 DEF PiOK
<1> QED BY <1>1, <1>3, <1>4, <1>5 DEF AllBackends

\* The verdict gives its reason: the property at the step that reports.
LEMMA ReportTells ==
  ASSUME TypesOK, PhaseOK, StateOK, EndOK, Report
  PROVE  ResultTellsWhy'
<1>1. PICK w \in WaitFails :
        /\ res' = [status |-> Status(w), output |-> st.output, id |-> ReportedId(Status(w))]
        /\ st' = [st EXCEPT !.waitErr = w]
  BY DEF Report
<1>2. /\ pc = "reap" /\ child # "running"
      /\ UNCHANGED <<backend, resume, landed, ctx, child, spoken, heard, held, writeErr>>
  BY DEF Report, runVars, childVars, inVars
<1>3. st \in States /\ w \in BOOLEAN /\ backend \in AllBackends
  BY WaitFailsIs DEF TypesOK, FlagTypes, RunTypes
<1>4. st'.broken = st.broken /\ st'.waitErr = w
  BY <1>1, <1>3 DEF States
<1>5. res'.status = Status(w) /\ res'.id = ReportedId(Status(w))
  BY <1>1
<1>6. ChildFailed' = ChildFailed /\ Choked' = Choked
  BY <1>2 DEF ChildFailed, Said, LastOf, Choked
<1>7. ctx \notin {"deadline", "canceled"} => ctx = "live"
  BY <1>2 DEF TypesOK, PhaseTypes, PhaseOK
<1>8. /\ Status(w) = "timeout" => ctx = "deadline"
      /\ Status(w) = "aborted" => ctx = "canceled"
      /\ Status(w) \in {"completed", "failed"} => ctx = "live" /\ Status(w) = RanStatus(w)
  BY <1>7, StatusIs
<1>9. ASSUME Status(w) \in {"completed", "failed"}
      PROVE  AtEOF \/ (Choked /\ (backend = "pi" => st.broken))
  BY <1>2, <1>8, <1>9 DEF EndOK
<1>10. ASSUME Status(w) = "completed"
       PROVE  child = "exit0" /\ (Choked \/ ~ChildFailed)
  <2>1. /\ ~st.failed /\ ~st.async /\ ~st.broken /\ ~w
        /\ backend = "pi" => ~(st.stashed \/ ~st.good \/ st.open)
    BY <1>8, <1>10 DEF RanStatus
  <2>2. child = "exit0"
    BY <1>3, <2>1 DEF WaitFails
  <2>3. AtEOF => ~ChildFailed
    BY <2>1, FailedIsSaid
  <2> HIDE DEF AtEOF, Choked, ChildFailed
  <2> QED BY <1>9, <1>10, <2>1, <2>2, <2>3
<1>11. ASSUME Status(w) = "failed"
       PROVE  child # "exit0" \/ ChildFailed \/ st.broken \/ writeErr \/ w
  <2>1. \/ st.failed \/ st.async \/ st.broken \/ w \/ writeErr
        \/ backend = "pi" /\ (st.stashed \/ ~st.good \/ st.open)
    BY <1>8, <1>11 DEF RanStatus
  <2>2. st.failed \/ st.async => ChildFailed
    BY FailedIsSaid
  <2>3. AtEOF /\ ~st.failed /\ backend = "pi" /\ (st.stashed \/ ~st.good \/ st.open) => ChildFailed
    BY FailedIsSaid
  <2> HIDE DEF AtEOF, Choked, ChildFailed
  <2> QED BY <1>9, <1>11, <2>1, <2>2, <2>3
<1>12. ASSUME Status(w) = "failed", backend = "claude", resume, ~landed
       PROVE  ReportedId(Status(w)) = ""
  <2>1. st.id \in {"", "fresh"}
    BY <1>12 DEF StateOK, ClaudeOK
  <2> QED BY <1>12, <2>1 DEF ReportedId
<1> HIDE DEF ChildFailed, Choked, Status, ReportedId
<1> QED BY <1>2, <1>4, <1>5, <1>6, <1>8, <1>10, <1>11, <1>12 DEF ResultTellsWhy

\* Before a run is over only Report makes a Result.
LEMMA NoResultYet ==
  ASSUME PhaseOK, [Next]_vars, pc \notin Over, ~Report
  PROVE  res' = res /\ res.status = "none"
<1>1. res' = res
  <2>1. CASE Next
    <3>1. ~ClosePipe /\ ~Release
      BY DEF ClosePipe, Release, Over
    <3> QED BY <2>1, <3>1
        DEF Next, ChildStep, RunStep, Conclude, CreateTemp, Spawn, ContextEnds, KillOnContext,
            WatchContext, Say, Stall, ReadStdin, Exit, LetGo, WritePrompt, ReadLine, Answer,
            StopReading, msgVars
  <2>2. CASE UNCHANGED vars
    BY <2>2 DEF vars
  <2> QED BY <2>1, <2>2
<1>2. res.status = "none"
  BY DEF PhaseOK, Reported
<1> QED BY <1>1, <1>2

\* Every step keeps what the Result says the reason it says it for.
LEMMA ResultStep ==
  TypesOK /\ PhaseOK /\ StateOK /\ EndOK /\ ResultTellsWhy /\ [Next]_vars => ResultTellsWhy'
<1> SUFFICES ASSUME TypesOK, PhaseOK, StateOK, EndOK, ResultTellsWhy, [Next]_vars
             PROVE  ResultTellsWhy'
  OBVIOUS
<1>1. CASE Report
  BY <1>1, ReportTells
<1>2. CASE pc \in Over
  <2>1. /\ UNCHANGED <<backend, resume, landed, child, spoken, heard, st, res>>
        /\ ctx \in {"deadline", "canceled"} => ctx' = ctx
        /\ writeErr => writeErr'
    BY <1>2, OverFrame
  <2>2. ChildFailed' = ChildFailed /\ Choked' = Choked
    BY <2>1 DEF ChildFailed, Said, LastOf, Choked
  <2> HIDE DEF ChildFailed, Choked
  <2> QED BY <2>1, <2>2 DEF ResultTellsWhy
<1>3. CASE pc \notin Over /\ ~Report
  BY <1>3, NoResultYet DEF ResultTellsWhy
<1> QED BY <1>1, <1>2, <1>3

-----------------------------------------------------------------------------
(* The texts of a sequence of messages.                                    *)

\* A set of naturals has a least element, so that facts about every natural
\* can be proved one after the other.
LEMMA Least ==
  ASSUME NEW T \in SUBSET Nat, T # {}
  PROVE  \E m \in T : \A n \in T : m <= n
<1> DEFINE R == OpToRel(<, Nat)
<1>1. IsWellFoundedOn(R, Nat)
  BY NatLessThanWellFounded, Zenon
<1>2. \A x, y \in Nat : y < x => <<y, x>> \in R
  BY DEF OpToRel
<1> HIDE DEF R
<1>3. PICK x \in T : \A y \in T : ~(<<y, x>> \in R)
  BY <1>1, WFMin
<1>4. \A y \in T : y \in Nat /\ ~(y < x)
  BY <1>2, <1>3
<1>5. \A y \in T : x <= y
  BY <1>3, <1>4
<1> QED BY <1>3, <1>5

\* Induction over the naturals, in a form without a predicate.
LEMMA Induct ==
  ASSUME NEW T \in SUBSET Nat, 0 \in T, \A n \in T : n + 1 \in T
  PROVE  T = Nat
<1> SUFFICES ASSUME Nat \ T # {} PROVE FALSE
  OBVIOUS
<1>1. PICK m \in Nat \ T : \A n \in Nat \ T : m <= n
  BY Least
<1>2. m # 0 /\ m - 1 \in Nat
  BY <1>1
<1>3. m - 1 \notin T
  BY <1>2
<1> QED BY <1>1, <1>2, <1>3

\* g holds what Flat has gathered after each of the first n messages.
Parts(ms, g, n) == g = [k \in 0..n |-> IF k = 0 THEN <<>> ELSE g[k - 1] \o ms[k]]

\* The partial concatenations of messages exist up to any number.
LEMMA PartsExist ==
  ASSUME NEW ms, NEW n \in Nat
  PROVE  \E g : Parts(ms, g, n)
<1> DEFINE T == {k \in Nat : \E g : Parts(ms, g, k)}
<1>1. 0 \in T
  <2> DEFINE g == [k \in 0..0 |-> <<>>]
  <2>1. Parts(ms, g, 0)
    BY DEF Parts
  <2> QED BY <2>1
<1>2. ASSUME NEW k \in T
      PROVE  k + 1 \in T
  <2>1. PICK g : Parts(ms, g, k)
    OBVIOUS
  <2> DEFINE h == [i \in 0..k + 1 |-> IF i = k + 1 THEN g[k] \o ms[k + 1] ELSE g[i]]
  <2>2. k \in Nat /\ g = [i \in 0..k |-> IF i = 0 THEN <<>> ELSE g[i - 1] \o ms[i]]
    BY <2>1 DEF Parts
  <2> DEFINE v(i) == IF i = 0 THEN <<>> ELSE h[i - 1] \o ms[i]
  <2>3. ASSUME NEW i \in 0..k + 1
        PROVE  h[i] = v(i)
    <3>1. CASE i = k + 1
      <4>1. i # 0 /\ i - 1 = k /\ k \in 0..k + 1 /\ k # k + 1
        BY <2>2, <3>1
      <4>2. h[k] = g[k]
        BY <4>1
      <4>3. h[i] = g[k] \o ms[k + 1]
        BY <3>1
      <4> HIDE DEF h
      <4> QED BY <3>1, <4>1, <4>2, <4>3
    <3>2. CASE i # k + 1
      <4>1. i \in 0..k
        BY <2>2, <3>2
      <4>2. h[i] = g[i] /\ g[i] = IF i = 0 THEN <<>> ELSE g[i - 1] \o ms[i]
        BY <2>2, <3>2, <4>1
      <4>3. i # 0 => i - 1 \in 0..k + 1 /\ i - 1 # k + 1 /\ h[i - 1] = g[i - 1]
        BY <2>2, <4>1
      <4> HIDE DEF h
      <4> QED BY <4>2, <4>3
    <3> QED BY <3>1, <3>2
  <2>4. h = [i \in 0..k + 1 |-> v(i)]
    <3> HIDE DEF v
    <3> QED BY <2>3
  <2>5. Parts(ms, h, k + 1)
    BY <2>4 DEF Parts
  <2> QED BY <2>2, <2>5
<1>3. T = Nat
  <2> HIDE DEF T
  <2>1. T \in SUBSET Nat
    BY DEF T
  <2> QED BY <1>1, <1>2, <2>1, Induct
<1> QED BY <1>3

\* The fold is the last of the partial concatenations.
LEMMA FlatIs ==
  ASSUME NEW ms, Len(ms) \in Nat
  PROVE  \E g : Parts(ms, g, Len(ms)) /\ Flat(ms) = g[Len(ms)]
<1> DEFINE upto == CHOOSE g : g = [k \in 0..Len(ms) |-> IF k = 0 THEN <<>> ELSE g[k - 1] \o ms[k]]
<1>1. PICK g : g = [k \in 0..Len(ms) |-> IF k = 0 THEN <<>> ELSE g[k - 1] \o ms[k]]
  BY PartsExist DEF Parts
<1>2. upto = [k \in 0..Len(ms) |-> IF k = 0 THEN <<>> ELSE upto[k - 1] \o ms[k]]
  BY <1>1
<1>3. Flat(ms) = upto[Len(ms)]
  BY DEF Flat
<1> QED BY <1>2, <1>3 DEF Parts

\* No messages have no text.
LEMMA FlatEmpty == Flat(<<>>) = <<>>
<1>1. Len(<<>>) = 0
  OBVIOUS
<1>2. PICK g : Parts(<<>>, g, 0) /\ Flat(<<>>) = g[0]
  BY <1>1, FlatIs
<1> QED BY <1>2 DEF Parts

\* The text of messages is a sequence of places.
LEMMA FlatType ==
  ASSUME NEW ms \in Seq(Seq(Nat))
  PROVE  Flat(ms) \in Seq(Nat)
<1>1. PICK g : Parts(ms, g, Len(ms)) /\ Flat(ms) = g[Len(ms)]
  BY FlatIs
<1>2. g = [k \in 0..Len(ms) |-> IF k = 0 THEN <<>> ELSE g[k - 1] \o ms[k]]
  BY <1>1 DEF Parts
<1> DEFINE T == {k \in Nat : k <= Len(ms) => g[k] \in Seq(Nat)}
<1>3. 0 \in T
  <2>1. g[0] = <<>>
    BY <1>2
  <2>2. <<>> \in Seq(Nat)
    OBVIOUS
  <2>3. g[0] \in Seq(Nat)
    BY <2>1, <2>2
  <2> QED BY <2>3
<1>4. ASSUME NEW k \in T
      PROVE  k + 1 \in T
  <2> SUFFICES ASSUME k + 1 <= Len(ms)
               PROVE  g[k + 1] \in Seq(Nat)
    OBVIOUS
  <2>1. k + 1 \in 0..Len(ms) /\ k + 1 # 0 /\ (k + 1) - 1 = k
    OBVIOUS
  <2>2. g[k + 1] = g[k] \o ms[k + 1]
    BY <1>2, <2>1
  <2>3. g[k] \in Seq(Nat) /\ ms[k + 1] \in Seq(Nat)
    BY <2>1
  <2> QED BY <2>2, <2>3
<1>5. T = Nat
  <2> HIDE DEF T
  <2>1. T \in SUBSET Nat
    BY DEF T
  <2> QED BY <1>3, <1>4, <2>1, Induct
<1> QED BY <1>1, <1>5

\* A message more adds its text at the end.
LEMMA FlatAppend ==
  ASSUME NEW ms \in Seq(Seq(Nat)), NEW m \in Seq(Nat)
  PROVE  Flat(Append(ms, m)) = Flat(ms) \o m
<1> DEFINE n == Len(ms)
           more == Append(ms, m)
<1>1. n \in Nat /\ Len(more) = n + 1 /\ more[n + 1] = m /\ \A k \in 1..n : more[k] = ms[k]
  OBVIOUS
<1>2. PICK g : Parts(ms, g, n) /\ Flat(ms) = g[n]
  BY <1>1, FlatIs
<1> HIDE DEF more
<1>3. PICK h : Parts(more, h, n + 1) /\ Flat(more) = h[n + 1]
  <2>1. Len(more) = n + 1 /\ Len(more) \in Nat
    BY <1>1
  <2>2. \E h : Parts(more, h, Len(more)) /\ Flat(more) = h[Len(more)]
    BY <2>1, FlatIs
  <2> QED BY <2>1, <2>2, Zenon
<1> HIDE DEF n
<1>4. /\ g = [k \in 0..n |-> IF k = 0 THEN <<>> ELSE g[k - 1] \o ms[k]]
      /\ h = [k \in 0..n + 1 |-> IF k = 0 THEN <<>> ELSE h[k - 1] \o more[k]]
  BY <1>2, <1>3 DEF Parts
<1> DEFINE T == {k \in Nat : k <= n => h[k] = g[k]}
<1>5. 0 \in T
  <2>1. 0 \in 0..n /\ 0 \in 0..n + 1
    BY <1>1
  <2>2. g[0] = <<>> /\ h[0] = <<>>
    BY <1>4, <2>1
  <2> QED BY <2>2
<1>6. ASSUME NEW k \in T
      PROVE  k + 1 \in T
  <2> SUFFICES ASSUME k + 1 <= n
               PROVE  h[k + 1] = g[k + 1]
    OBVIOUS
  <2>1. k + 1 \in 1..n /\ k + 1 \in 0..n /\ k + 1 \in 0..n + 1 /\ k + 1 # 0 /\ (k + 1) - 1 = k
    BY <1>1
  <2>2. g[k + 1] = g[k] \o ms[k + 1] /\ h[k + 1] = h[k] \o more[k + 1]
    BY <1>4, <2>1
  <2>3. h[k] = g[k]
    BY <1>1
  <2> QED BY <1>1, <2>1, <2>2, <2>3
<1>7. T = Nat
  <2> HIDE DEF T
  <2>1. T \in SUBSET Nat
    BY DEF T
  <2> QED BY <1>5, <1>6, <2>1, Induct
<1>8. h[n] = g[n]
  BY <1>1, <1>7
<1>9. h[n + 1] = h[n] \o more[n + 1]
  <2>1. n + 1 \in 0..n + 1 /\ n + 1 # 0 /\ (n + 1) - 1 = n
    BY <1>1
  <2> QED BY <1>4, <2>1
<1> QED BY <1>1, <1>2, <1>3, <1>8, <1>9 DEF more

-----------------------------------------------------------------------------
(* What is shown.                                                          *)

\* What is shown grows by the message that is sent.
LEMMA SentBy ==
  ASSUME sent \in Seq(Seq(Nat)), NEW m \in Seq(Nat)
  PROVE  /\ sent' = sent \o <<m>> => sent' \in Seq(Seq(Nat)) /\ Shown' = Shown \o m
         /\ sent' = sent \o <<>> => sent' = sent
         /\ Shown \in Seq(Nat) /\ Shown \o <<>> = Shown
<1>1. sent \o <<m>> = Append(sent, m) /\ sent \o <<>> = sent
  OBVIOUS
<1>2. Append(sent, m) \in Seq(Seq(Nat))
  OBVIOUS
<1>3. Flat(Append(sent, m)) = Flat(sent) \o m
  BY FlatAppend
<1>4. sent' = sent \o <<m>> => Shown' = Shown \o m
  BY <1>1, <1>3 DEF Shown
<1>5. Shown \in Seq(Nat)
  BY FlatType DEF Shown
<1>6. Shown \o <<>> = Shown
  <2>1. PICK shown \in Seq(Nat) : shown = Shown
    BY <1>5
  <2>2. shown \o <<>> = shown
    OBVIOUS
  <2> QED BY <2>1, <2>2
<1> QED BY <1>1, <1>2, <1>4, <1>5, <1>6

\* An attempt that ended in success has, whatever is said next.
LEMMA VouchedKept ==
  ASSUME LineTypes, NEW i \in Nat, Vouched(i), heard' \in {heard, heard + 1},
         \A k \in 1..heard : spoken'[k] = spoken[k]
  PROVE  Vouched(i)'
<1>1. heard \in Nat
  BY DEF LineTypes
<1>2. PICK j \in i + 1..heard : spoken[j] = "ok" /\ \A k \in i + 1..j - 1 : spoken[k] = "delta"
  BY DEF Vouched
<1>3. j \in 1..heard /\ j \in i + 1..heard'
  BY <1>1, <1>2
<1>4. \A k \in i + 1..j - 1 : k \in 1..heard
  BY <1>1, <1>2
<1>5. spoken'[j] = "ok" /\ \A k \in i + 1..j - 1 : spoken'[k] = "delta"
  BY <1>2, <1>3, <1>4
<1> QED BY <1>3, <1>5 DEF Vouched

\* A step that neither reads a line nor sends a message.
LEMMA ShownFrame ==
  ASSUME TypesOK, ShownOK, UNCHANGED <<backend, heard, sent>>,
         UNCHANGED <<st.output, st.attempt>>,
         spoken' = spoken \/ \E l \in LineKinds[backend] : spoken' = Append(spoken, l)
  PROVE  ShownOK'
<1>1. LineTypes /\ st \in States /\ Shown' = Shown /\ st'.output = st.output /\ st'.attempt = st.attempt
  BY DEF TypesOK, Shown
<1>2. \A kinds : Heard(kinds)' = Heard(kinds)
  BY <1>1, HeardKept
<1>3. \A k \in 1..heard : spoken'[k] = spoken[k]
  BY <1>1, HeardKept
<1>4. ASSUME NEW kinds, TextsOK(kinds)
      PROVE  TextsOK(kinds)'
  <2>1. Heard(kinds)' = Heard(kinds)
    BY <1>2
  <2> HIDE DEF Heard, Shown
  <2> QED BY <1>1, <1>4, <2>1 DEF TextsOK
<1>5. ASSUME VouchedOK
      PROVE  VouchedOK'
  <2>1. \A i \in 1..heard : Vouched(i) => Vouched(i)'
    BY <1>1, <1>3, VouchedKept
  <2>2. \A i : InFlight(i) => InFlight(i)'
    <3> SUFFICES ASSUME NEW i, InFlight(i)
                 PROVE  InFlight(i)'
      OBVIOUS
    <3>1. heard \in Nat /\ i \in 1..heard /\ \A k \in i..heard : spoken[k] = "delta"
      BY <1>1 DEF InFlight, LineTypes
    <3>2. \A k \in i..heard : k \in 1..heard
      BY <3>1
    <3> QED BY <1>3, <3>1, <3>2 DEF InFlight
  <2> HIDE DEF Shown, Vouched, InFlight
  <2> QED BY <1>1, <1>5, <2>1, <2>2 DEF VouchedOK
<1>6. TextsOK({"text"}) => TextsOK({"text"})'
  BY <1>4
<1>7. TextsOK({"delta"}) => TextsOK({"delta"})'
  BY <1>4
<1> HIDE DEF TextsOK, VouchedOK
<1> QED BY <1>5, <1>6, <1>7 DEF ShownOK

\* The lines heard of some kinds are finitely many.
LEMMA FiniteHeard ==
  ASSUME LineTypes, NEW kinds
  PROVE  IsFiniteSet(Heard(kinds)) /\ Cardinality(Heard(kinds)) \in Nat
<1>1. heard \in Nat /\ 1 \in Nat
  BY DEF LineTypes
<1>2. IsFiniteSet(1..heard)
  BY <1>1, FS_Interval
<1>3. Heard(kinds) \subseteq 1..heard
  BY DEF Heard
<1>4. IsFiniteSet(Heard(kinds))
  BY <1>2, <1>3, FS_Subset
<1> QED BY <1>4, FS_CardinalityType

\* claude and copilot show a text when they have read it.
LEMMA TextsRead ==
  ASSUME LineTypes, NEW kinds, TextsOK(kinds), Shown \in Seq(Nat), NEW n \in Nat, n = heard + 1,
         heard' = n, UNCHANGED spoken,
         Shown' = IF spoken[n] \in kinds THEN Shown \o <<n>> ELSE Shown
  PROVE  TextsOK(kinds)'
<1>1. Heard(kinds)' = IF spoken[n] \in kinds THEN Heard(kinds) \cup {n} ELSE Heard(kinds)
  BY HeardMore
<1>2. heard \in Nat /\ \A i \in Heard(kinds) : i \in Nat /\ i < n
  BY DEF Heard, LineTypes
<1>3. CASE spoken[n] \notin kinds
  <2> HIDE DEF Heard, Shown
  <2> QED BY <1>1, <1>3 DEF TextsOK
<1>4. CASE spoken[n] \in kinds
  <2>1. Heard(kinds)' = Heard(kinds) \cup {n} /\ n \notin Heard(kinds)
    BY <1>1, <1>2, <1>4
  <2>2. Cardinality(Heard(kinds)') = Cardinality(Heard(kinds)) + 1
    <3>1. IsFiniteSet(Heard(kinds))
      BY FiniteHeard
    <3> HIDE DEF Heard
    <3> QED BY <2>1, <3>1, FS_AddElement
  <2>3. PICK old \in Seq(Nat) : old = Shown
    OBVIOUS
  <2>4. PICK new \in Seq(Nat) : new = Shown' /\ new = old \o <<n>>
    <3>1. old \o <<n>> \in Seq(Nat)
      BY Appended
    <3>2. Shown' = old \o <<n>>
      BY <1>4, <2>3
    <3> QED BY <3>1, <3>2
  <2>5. /\ Len(new) = Len(old) + 1 /\ new[Len(old) + 1] = n
        /\ \A i \in 1..Len(old) : new[i] = old[i]
        /\ \A i \in 1..Len(new) : i \in 1..Len(old) \/ i = Len(old) + 1
    BY <2>4
  <2>6. /\ \A i \in 1..Len(old) : old[i] \in Heard(kinds)
        /\ \A i, j \in 1..Len(old) : i < j => old[i] < old[j]
        /\ Len(old) = Cardinality(Heard(kinds))
    BY <2>3 DEF TextsOK
  <2>7. \A i \in 1..Len(new) : new[i] \in Heard(kinds)'
    BY <2>1, <2>5, <2>6
  <2>8. ASSUME NEW i \in 1..Len(new), NEW j \in 1..Len(new), i < j
        PROVE  new[i] < new[j]
    <3>1. i \in 1..Len(old)
      BY <2>5, <2>8
    <3>2. new[i] = old[i] /\ old[i] \in Heard(kinds)
      BY <2>5, <2>6, <3>1
    <3>3. CASE j \in 1..Len(old)
      BY <2>5, <2>6, <2>8, <3>1, <3>3
    <3>4. CASE j = Len(old) + 1
      BY <1>2, <2>5, <3>2, <3>4
    <3> QED BY <2>5, <3>3, <3>4
  <2>9. Len(new) = Cardinality(Heard(kinds)')
    BY <2>2, <2>5, <2>6
  <2> HIDE DEF Heard, Shown
  <2> QED BY <2>4, <2>7, <2>8, <2>9 DEF TextsOK
<1> QED BY <1>3, <1>4

\* Reading a line of claude keeps the texts in the messages, once and in order.
LEMMA ClaudeShows ==
  ASSUME TypesOK, ShownOK, ReadLine, backend = "claude"
  PROVE  ShownOK'
<1>1. PICK n \in Nat : \E l \in LineKinds["claude"] \ {"huge"} :
        n = heard + 1 /\ heard' = n /\ l = spoken[n] /\ st' = Hears(l, n)
  BY Reading
<1>2. PICK l \in LineKinds["claude"] \ {"huge"} : l = spoken[n]
  BY <1>1
<1>3. /\ sent \in Seq(Seq(Nat)) /\ <<>> \in Seq(Nat) /\ <<n>> \in Seq(Nat)
      /\ UNCHANGED <<backend, spoken>> /\ LineTypes /\ TextsOK({"text"})
  BY DEF ShownOK, ReadLine, runVars, childVars, TypesOK
<1>4. sent' = sent \o ClaudeSends(l, n)
  BY <1>1, <1>2 DEF ReadLine, Send, Sends
<1>5. /\ sent' \in Seq(Seq(Nat)) /\ Shown \in Seq(Nat)
      /\ Shown' = IF spoken[n] \in {"text"} THEN Shown \o <<n>> ELSE Shown
  <2>1. CASE l = "text"
    <3>1. sent' = sent \o << <<n>> >>
      BY <1>4, <2>1 DEF ClaudeSends
    <3> QED BY <1>2, <1>3, <2>1, <3>1, SentBy
  <2>2. CASE l \in {"system", "async"}
    <3>1. sent' = sent \o << <<>> >>
      BY <1>4, <2>2 DEF ClaudeSends
    <3> QED BY <1>2, <1>3, <2>2, <3>1, SentBy
  <2>3. CASE l \notin {"text", "system", "async"}
    <3>1. sent' = sent \o <<>>
      BY <1>4, <2>3 DEF ClaudeSends
    <3>2. sent' = sent /\ Shown \in Seq(Nat)
      BY <1>3, <3>1, SentBy
    <3> QED BY <1>2, <1>3, <2>3, <3>2 DEF Shown
  <2> QED BY <2>1, <2>2, <2>3
<1>6. TextsOK({"text"})'
  BY <1>1, <1>3, <1>5, TextsRead
<1> QED BY <1>3, <1>5, <1>6 DEF ShownOK

\* The same for copilot.
LEMMA CopilotShows ==
  ASSUME TypesOK, ShownOK, ReadLine, backend = "copilot"
  PROVE  ShownOK'
<1>1. PICK n \in Nat : \E l \in LineKinds["copilot"] \ {"huge"} :
        n = heard + 1 /\ heard' = n /\ l = spoken[n] /\ st' = Hears(l, n)
  BY Reading
<1>2. PICK l \in LineKinds["copilot"] \ {"huge"} : l = spoken[n]
  BY <1>1
<1>3. /\ sent \in Seq(Seq(Nat)) /\ <<>> \in Seq(Nat) /\ <<n>> \in Seq(Nat)
      /\ UNCHANGED <<backend, spoken>> /\ LineTypes /\ TextsOK({"delta"})
  BY DEF ShownOK, ReadLine, runVars, childVars, TypesOK
<1>4. sent' = sent \o CopilotSends(l, n)
  BY <1>1, <1>2 DEF ReadLine, Send, Sends
<1>5. /\ sent' \in Seq(Seq(Nat)) /\ Shown \in Seq(Nat)
      /\ Shown' = IF spoken[n] \in {"delta"} THEN Shown \o <<n>> ELSE Shown
  <2>1. CASE l = "delta"
    <3>1. sent' = sent \o << <<n>> >>
      BY <1>4, <2>1 DEF CopilotSends
    <3> QED BY <1>2, <1>3, <2>1, <3>1, SentBy
  <2>2. CASE l = "error"
    <3>1. sent' = sent \o << <<>> >>
      BY <1>4, <2>2 DEF CopilotSends
    <3> QED BY <1>2, <1>3, <2>2, <3>1, SentBy
  <2>3. CASE l \notin {"delta", "error"}
    <3>1. sent' = sent \o <<>>
      BY <1>4, <2>3 DEF CopilotSends
    <3>2. sent' = sent /\ Shown \in Seq(Nat)
      BY <1>3, <3>1, SentBy
    <3> QED BY <1>2, <1>3, <2>3, <3>2 DEF Shown
  <2> QED BY <2>1, <2>2, <2>3
<1>6. TextsOK({"delta"})'
  BY <1>1, <1>3, <1>5, TextsRead
<1> QED BY <1>3, <1>5, <1>6 DEF ShownOK

\* What a line makes of pi's texts.
LEMMA PiTexts ==
  ASSUME st \in States, backend = "pi", NEW l \in LineKinds["pi"] \ {"huge"}, NEW i \in Nat,
         NEW s, s = Hears(l, i)
  PROVE  /\ s.output = (IF l = "ok" /\ ~st.emitted THEN st.output \o st.attempt ELSE st.output)
         /\ s.attempt = (IF l = "delta" THEN Append(st.attempt, i)
                         ELSE IF l = "gaveup" THEN st.attempt ELSE <<>>)
<1>1. s = PiHears(l, i)
  BY DEF Hears
<1>2. CASE l = "start"
  BY <1>1, <1>2 DEF PiHears, States
<1>3. CASE l = "delta"
  BY <1>1, <1>3 DEF PiHears, States
<1>4. CASE l = "ok"
  <2>1. s = [st EXCEPT !.output = IF st.emitted THEN st.output ELSE st.output \o st.attempt,
                       !.emitted = TRUE, !.attempt = <<>>, !.open = FALSE, !.stashed = FALSE,
                       !.good = TRUE]
    BY <1>1, <1>4 DEF PiHears
  <2> QED BY <1>4, <2>1 DEF States
<1>5. CASE l = "bad"
  <2>1. s = [[st EXCEPT !.open = FALSE, !.attempt = <<>>] EXCEPT !.stashed = TRUE]
    BY <1>1, <1>5 DEF PiHears, Discarded
  <2> QED BY <1>5, <2>1 DEF States
<1>6. CASE l = "retry"
  BY <1>1, <1>6 DEF PiHears, States
<1>7. CASE l = "gaveup"
  BY <1>1, <1>7 DEF PiHears, States
<1>8. CASE l = "fatal"
  <2>1. s = [[st EXCEPT !.open = FALSE, !.attempt = <<>>] EXCEPT !.failed = TRUE]
    BY <1>1, <1>8 DEF PiHears, Discarded
  <2> QED BY <1>8, <2>1 DEF States
<1> QED BY <1>2, <1>3, <1>4, <1>5, <1>6, <1>7, <1>8, KindsOf

\* A success vouches for every text of its attempt.
LEMMA OkVouches ==
  ASSUME LineTypes, NEW n \in Nat, n = heard + 1, heard' = n, UNCHANGED spoken, spoken[n] = "ok",
         NEW i, InFlight(i)
  PROVE  i \in 1..n /\ Vouched(i)'
<1>1. heard \in Nat /\ i \in 1..heard /\ \A k \in i..heard : spoken[k] = "delta"
  BY DEF InFlight, LineTypes
<1>2. n \in i + 1..heard' /\ \A k \in i + 1..n - 1 : k \in i..heard
  BY <1>1
<1>3. spoken'[n] = "ok" /\ \A k \in i + 1..n - 1 : spoken'[k] = "delta"
  BY <1>1, <1>2
<1> QED BY <1>1, <1>2, <1>3 DEF Vouched

\* No text is in flight when an attempt is given up: it has failed before.
LEMMA NoneInFlight ==
  ASSUME LineTypes, RetryOK, NEW n \in Nat, n = heard + 1, n \in 1..Len(spoken),
         spoken[n] = "gaveup", NEW i
  PROVE  ~InFlight(i)
<1>1. heard \in Nat
  BY DEF LineTypes
<1>2. n - 1 = heard
  BY <1>1
<1>3. spoken[heard] = "bad"
  BY <1>2 DEF RetryOK
<1>4. ASSUME InFlight(i)
      PROVE  FALSE
  <2>1. heard \in i..heard
    BY <1>1, <1>4 DEF InFlight
  <2> QED BY <1>3, <1>4, <2>1 DEF InFlight
<1> QED BY <1>4

\* A place of a concatenation is one of its first or second part.
LEMMA Joined ==
  ASSUME NEW q \in Seq(Nat), NEW r \in Seq(Nat), NEW p \in 1..Len(q \o r)
  PROVE  \/ p \in 1..Len(q) /\ (q \o r)[p] = q[p]
         \/ \E k \in 1..Len(r) : (q \o r)[p] = r[k]
<1>1. CASE p <= Len(q)
  BY <1>1
<1>2. CASE p > Len(q)
  <2>1. p - Len(q) \in 1..Len(r) /\ (q \o r)[p] = r[p - Len(q)]
    BY <1>2
  <2> QED BY <2>1
<1> QED BY <1>1, <1>2

\* The same for pi, where a text may be kept back until its attempt ends.
LEMMA PiShows ==
  ASSUME TypesOK, StateOK, ShownOK, ReadLine, backend = "pi"
  PROVE  ShownOK'
<1>1. PICK n \in Nat : \E l \in LineKinds["pi"] \ {"huge"} :
        n = heard + 1 /\ n \in 1..Len(spoken) /\ heard' = n /\ l = spoken[n] /\ st' = Hears(l, n)
  BY Reading
<1>2. PICK l \in LineKinds["pi"] \ {"huge"} : l = spoken[n] /\ st' = Hears(l, n)
  BY <1>1
<1>3. PICK out \in Seq(Nat) : out = st.output
  BY DEF TypesOK, States
<1>4. PICK att \in Seq(Nat) : att = st.attempt
  BY DEF TypesOK, States
<1>5. PICK s : s = st' /\ s = Hears(l, n)
  BY <1>2
<1>6. /\ s.output = (IF l = "ok" /\ ~st.emitted THEN out \o att ELSE out)
      /\ s.attempt = (IF l = "delta" THEN Append(att, n) ELSE IF l = "gaveup" THEN att ELSE <<>>)
  <2>1. st \in States
    BY DEF TypesOK
  <2> QED BY <1>3, <1>4, <1>5, <2>1, PiTexts
<1>7. /\ sent \in Seq(Seq(Nat)) /\ UNCHANGED <<backend, spoken>> /\ LineTypes /\ VouchedOK /\ RetryOK
      /\ heard \in Nat
  BY DEF ShownOK, ReadLine, runVars, childVars, TypesOK, StateOK, LineTypes
<1>8. Shown = out /\ sent' = sent \o PiSends(l, n)
  <2>1. sent' = sent \o PiSends(l, n)
    BY <1>1, <1>2 DEF ReadLine, Send, Sends
  <2> QED BY <1>3, <1>7, <2>1 DEF VouchedOK
<1>9. sent' \in Seq(Seq(Nat)) /\ Shown' = s.output
  <2>1. CASE l \in {"delta", "retry"}
    <3>1. sent' = sent \o << <<>> >> /\ <<>> \in Seq(Nat)
      BY <1>8, <2>1 DEF PiSends
    <3>2. sent' \in Seq(Seq(Nat)) /\ Shown' = Shown
      BY <1>7, <3>1, SentBy
    <3> QED BY <1>6, <1>8, <2>1, <3>2
  <2>2. CASE l = "ok" /\ ~st.emitted /\ att # <<>>
    <3>1. sent' = sent \o <<att>>
      BY <1>4, <1>8, <2>2 DEF PiSends
    <3>2. sent' \in Seq(Seq(Nat)) /\ Shown' = Shown \o att
      BY <1>7, <3>1, SentBy
    <3> QED BY <1>6, <1>8, <2>2, <3>2
  <2>3. CASE l \notin {"delta", "retry"} /\ ~(l = "ok" /\ ~st.emitted /\ att # <<>>)
    <3>1. sent' = sent \o <<>>
      BY <1>4, <1>8, <2>3 DEF PiSends
    <3>2. sent' = sent /\ Shown' = Shown
      BY <1>7, <3>1, SentBy, Appended DEF Shown
    <3>3. out \o <<>> = out
      OBVIOUS
    <3> QED BY <1>6, <1>7, <1>8, <2>3, <3>2, <3>3
  <2> QED BY <2>1, <2>2, <2>3
<1>10. \A p \in 1..Len(out) : out[p] \in 1..n /\ Vouched(out[p])'
  <2>1. \A p \in 1..Len(out) : out[p] \in 1..heard /\ Vouched(out[p])
    BY <1>3, <1>7 DEF VouchedOK
  <2>2. \A i \in 1..heard : i \in 1..n /\ (Vouched(i) => Vouched(i)')
    BY <1>1, <1>7, VouchedKept
  <2> QED BY <2>1, <2>2
<1>11. \A k \in 1..Len(att) : InFlight(att[k])
  BY <1>4, <1>7 DEF VouchedOK
<1>12. \A p \in 1..Len(s.output) : s.output[p] \in 1..n /\ Vouched(s.output[p])'
  <2>1. CASE l = "ok" /\ ~st.emitted
    <3>1. s.output = out \o att
      BY <1>6, <2>1
    <3>2. \A k \in 1..Len(att) : att[k] \in 1..n /\ Vouched(att[k])'
      BY <1>1, <1>2, <1>7, <1>11, <2>1, OkVouches
    <3> SUFFICES ASSUME NEW p \in 1..Len(out \o att)
                 PROVE  (out \o att)[p] \in 1..n /\ Vouched((out \o att)[p])'
      BY <3>1
    <3>3. PICK x : x = (out \o att)[p]
      OBVIOUS
    <3>4. x \in 1..n /\ Vouched(x)'
      <4>1. CASE p \in 1..Len(out) /\ x = out[p]
        BY <1>10, <4>1
      <4>2. CASE \E k \in 1..Len(att) : x = att[k]
        BY <3>2, <4>2
      <4> QED BY <3>3, <4>1, <4>2, Joined
    <3> QED BY <3>3, <3>4
  <2>2. CASE ~(l = "ok" /\ ~st.emitted)
    BY <1>6, <1>10, <2>2
  <2> QED BY <2>1, <2>2
<1>13. \A p \in 1..Len(s.attempt) : InFlight(s.attempt[p])'
  <2>1. CASE l = "delta"
    <3>1. s.attempt = Append(att, n)
      BY <1>6, <2>1
    <3>2. \A i : InFlight(i) => InFlight(i)'
      <4> SUFFICES ASSUME NEW i, InFlight(i)
                   PROVE  InFlight(i)'
        OBVIOUS
      <4>1. i \in 1..heard /\ \A k \in i..heard : spoken[k] = "delta"
        BY DEF InFlight
      <4>2. i \in 1..n /\ \A k \in i..n : k \in i..heard \/ k = n
        BY <1>1, <1>7, <4>1
      <4>3. \A k \in i..n : spoken'[k] = "delta"
        BY <1>2, <1>7, <2>1, <4>1, <4>2
      <4> QED BY <1>1, <4>2, <4>3 DEF InFlight
    <3>3. InFlight(n)'
      <4>1. n \in 1..n /\ \A k \in n..n : k = n
        BY <1>1, <1>7
      <4> QED BY <1>1, <1>2, <1>7, <2>1, <4>1 DEF InFlight
    <3>4. ASSUME NEW p \in 1..Len(Append(att, n))
          PROVE  InFlight(Append(att, n)[p])'
      <4>1. \/ p \in 1..Len(att) /\ Append(att, n)[p] = att[p]
            \/ Append(att, n)[p] = n
        OBVIOUS
      <4> QED BY <1>11, <3>2, <3>3, <4>1
    <3> QED BY <3>1, <3>4
  <2>2. CASE l = "gaveup"
    <3>1. \A i : ~InFlight(i)
      BY <1>1, <1>2, <1>7, <2>2, NoneInFlight
    <3>2. \A k \in 1..Len(att) : FALSE
      BY <1>11, <3>1
    <3> QED BY <1>6, <2>2, <3>2
  <2>3. CASE l \notin {"delta", "gaveup"}
    <3>1. s.attempt = <<>>
      BY <1>6, <2>3
    <3>2. Len(<<>>) = 0 /\ 1..0 = {}
      OBVIOUS
    <3> QED BY <3>1, <3>2
  <2> QED BY <2>1, <2>2, <2>3
<1>14. VouchedOK'
  <2>1. s.output = st'.output /\ s.attempt = st'.attempt
    BY <1>5
  <2> HIDE DEF Shown, Vouched, InFlight
  <2> QED BY <1>1, <1>9, <1>12, <1>13, <2>1 DEF VouchedOK
<1> QED BY <1>7, <1>9, <1>14 DEF ShownOK

\* Every step keeps what is shown true to the lines that were read.
LEMMA ShownStep ==
  TypesOK /\ PhaseOK /\ StateOK /\ ShownOK /\ [Next]_vars => ShownOK'
<1> SUFFICES ASSUME TypesOK, PhaseOK, StateOK, ShownOK, [Next]_vars
             PROVE  ShownOK'
  OBVIOUS
<1>1. st \in States /\ backend \in AllBackends
  BY DEF TypesOK, RunTypes
<1>2. ASSUME UNCHANGED <<backend, heard, sent, spoken, st>>
      PROVE  ShownOK'
  BY <1>2, ShownFrame
<1>3. CASE Say
  BY <1>3, ShownFrame DEF Say, runVars, msgVars
<1>4. CASE ReadLine
  BY <1>1, <1>4, ClaudeShows, CopilotShows, PiShows DEF AllBackends
<1>5. CASE StopReading
  <2>1. PICK broken \in BOOLEAN : st' = [st EXCEPT !.broken = broken]
    BY <1>5 DEF StopReading
  <2>2. UNCHANGED <<st.output, st.attempt>>
    BY <1>1, <2>1 DEF States
  <2>3. UNCHANGED <<backend, heard, sent>> /\ spoken' = spoken
    BY <1>5 DEF StopReading, runVars, msgVars
  <2> QED BY <2>2, <2>3, ShownFrame
<1>6. CASE Report
  <2>1. PICK w \in WaitFails : st' = [st EXCEPT !.waitErr = w]
    BY <1>6 DEF Report
  <2>2. UNCHANGED <<st.output, st.attempt>>
    BY <1>1, <2>1 DEF States
  <2>3. UNCHANGED <<backend, heard>> /\ spoken' = spoken
    BY <1>6 DEF Report, runVars, childVars
  <2>4. sent \in Seq(Seq(Nat)) /\ <<>> \in Seq(Nat)
    BY DEF ShownOK
  <2>5. sent' = sent \/ (sent' \in Seq(Seq(Nat)) /\ Shown' = Shown)
    <3>1. sent' = sent \o << <<>> >> \/ sent' = sent \o <<>>
      BY <1>6 DEF Report, Send
    <3> QED BY <2>4, <3>1, SentBy
  <2>6. CASE sent' = sent
    BY <2>2, <2>3, <2>6, ShownFrame
  <2>7. CASE sent' \in Seq(Seq(Nat)) /\ Shown' = Shown
    <3>1. LineTypes
      BY DEF TypesOK
    <3>2. \A kinds : Heard(kinds)' = Heard(kinds)
      BY <2>3, <3>1, HeardKept
    <3>3. \A kinds : TextsOK(kinds) => TextsOK(kinds)'
      <4> HIDE DEF Heard, Shown
      <4> QED BY <2>7, <3>2 DEF TextsOK
    <3>4. \A i : (Vouched(i)' <=> Vouched(i)) /\ (InFlight(i)' <=> InFlight(i))
      BY <2>3 DEF Vouched, InFlight
    <3>5. VouchedOK => VouchedOK'
      <4>1. st'.output = st.output /\ st'.attempt = st.attempt /\ heard' = heard
        BY <2>2, <2>3
      <4> HIDE DEF Shown, Vouched, InFlight
      <4> QED BY <2>7, <3>4, <4>1 DEF VouchedOK
    <3> HIDE DEF TextsOK, VouchedOK
    <3> QED BY <2>3, <2>7, <3>3, <3>5 DEF ShownOK
  <2> QED BY <2>5, <2>6, <2>7
<1>7. CASE CreateTemp
  BY <1>2, <1>7 DEF CreateTemp, runVars, childVars, msgVars
<1>8. CASE Spawn
  BY <1>2, <1>8 DEF Spawn, runVars, msgVars
<1>9. CASE ContextEnds
  BY <1>2, <1>9 DEF ContextEnds, runVars, childVars, msgVars
<1>10. CASE KillOnContext
  BY <1>2, <1>10 DEF KillOnContext, runVars, msgVars
<1>11. CASE WatchContext
  BY <1>2, <1>11 DEF WatchContext, runVars, childVars, msgVars
<1>12. CASE Stall
  BY <1>2, <1>12 DEF Stall, runVars, msgVars
<1>13. CASE ReadStdin
  BY <1>2, <1>13 DEF ReadStdin, runVars, childVars, msgVars
<1>14. ASSUME NEW how \in {"exit0", "exitN"}, Exit(how)
       PROVE  ShownOK'
  BY <1>2, <1>14 DEF Exit, runVars, msgVars
<1>15. CASE LetGo
  BY <1>2, <1>15 DEF LetGo, runVars, msgVars
<1>16. CASE WritePrompt
  BY <1>2, <1>16 DEF WritePrompt, runVars, childVars, msgVars
<1>17. CASE Answer
  BY <1>2, <1>17 DEF Answer, runVars, childVars, msgVars
<1>18. CASE ClosePipe
  BY <1>2, <1>18 DEF ClosePipe, runVars, childVars
<1>19. CASE Release
  BY <1>2, <1>19 DEF Release, runVars, childVars, msgVars
<1>20. CASE UNCHANGED vars
  BY <1>2, <1>20 DEF vars, runVars, childVars, msgVars
<1> QED BY <1>3, <1>4, <1>5, <1>6, <1>7, <1>8, <1>9, <1>10, <1>11, <1>12, <1>13, <1>14, <1>15,
           <1>16, <1>17, <1>18, <1>19, <1>20 DEF Next, ChildStep, RunStep, Conclude

\* Every step keeps the Result of a completed run that of all its lines.
LEMMA WholeStep == TypesOK /\ PhaseOK /\ EndOK /\ WholeOK /\ [Next]_vars => WholeOK'
<1> SUFFICES ASSUME TypesOK, PhaseOK, EndOK, WholeOK, [Next]_vars
             PROVE  WholeOK'
  OBVIOUS
<1>1. CASE Report
  <2>1. PICK w \in WaitFails :
          /\ res' = [status |-> Status(w), output |-> st.output, id |-> ReportedId(Status(w))]
          /\ st' = [st EXCEPT !.waitErr = w]
    BY <1>1 DEF Report
  <2>2. pc = "reap" /\ UNCHANGED <<spoken, heard>>
    BY <1>1 DEF Report, childVars
  <2>3. st'.output = st.output /\ res'.output = st.output /\ res'.status = Status(w)
    BY <2>1 DEF TypesOK, States
  <2>4. ASSUME Status(w) = "completed"
        PROVE  Choked \/ heard = Len(spoken)
    <3>1. ctx = "live"
      BY <2>2, <2>4, StatusIs DEF TypesOK, PhaseTypes, PhaseOK
    <3> QED BY <2>2, <3>1 DEF EndOK, AtEOF
  <2>5. Choked' = Choked
    BY <2>2 DEF Choked
  <2> HIDE DEF Choked, Status
  <2> QED BY <2>2, <2>3, <2>4, <2>5 DEF WholeOK
<1>2. CASE pc \in Over
  <2>1. UNCHANGED <<spoken, heard, st, res>>
    BY <1>2, OverFrame
  <2>2. Choked' = Choked
    BY <2>1 DEF Choked
  <2> HIDE DEF Choked
  <2> QED BY <2>1, <2>2 DEF WholeOK
<1>3. CASE pc \notin Over /\ ~Report
  BY <1>3, NoResultYet DEF WholeOK
<1> QED BY <1>1, <1>2, <1>3

-----------------------------------------------------------------------------
(* The theorems.                                                           *)

\* Facts about empty pipes.
LEMMA NothingHeard ==
  ASSUME NEW b \in AllBackends
  PROVE  /\ <<>> \in Seq(LineKinds[b]) /\ Len(<<>>) = 0 /\ 0 \in Nat /\ 0 <= 0 /\ 1..0 = {}
         /\ <<>> \in Seq(Nat)
  OBVIOUS

\* The invariant holds of a run that has not started.
LEMMA InitSInv == Init => SInv
<1> SUFFICES ASSUME Init
             PROVE  SInv
  OBVIOUS
<1>1. backend \in AllBackends /\ resume \in BOOLEAN /\ landed \in BOOLEAN
  <2>1. PICK r \in BOOLEAN \X BOOLEAN : resume = r[1] /\ landed = r[2]
    BY StreamAssumption DEF Init
  <2>2. backend \in {"claude", "copilot", "pi"}
    BY StreamAssumption DEF Init
  <2> QED BY <2>1, <2>2 DEF AllBackends
<1>2. /\ pc = "create" /\ ctx = "live" /\ temp = FALSE /\ child = "none" /\ held = FALSE
      /\ outShut = FALSE /\ inShut = FALSE /\ writeErr = FALSE /\ pipeClosed = FALSE
      /\ res.status = "none"
  BY DEF Init, NoRes
<1>3. spoken = <<>> /\ heard = 0 /\ st = NewState
  BY DEF Init
<1>4. /\ st \in States /\ ~st.failed /\ ~st.async /\ st.id = "" /\ ~st.good
  BY <1>3, NothingHeard, <1>1 DEF NewState, States
<1>5. LineTypes
  BY <1>1, <1>3, NothingHeard DEF LineTypes
<1>6. TypesOK
  BY <1>1, <1>2, <1>4, <1>5 DEF TypesOK, RunTypes, PhaseTypes, FlagTypes, Phases
<1>7. PhaseOK
  BY <1>2 DEF PhaseOK, Idle, Over, Reported
<1>8. \A kinds : Heard(kinds) = {}
  BY <1>1, <1>3, NothingHeard DEF Heard
<1>9. RetryOK
  BY <1>1, <1>3, NothingHeard DEF RetryOK
<1>10. StateOK
  <2> HIDE DEF Heard, Attempts
  <2> QED BY <1>4, <1>8, <1>9 DEF StateOK, ClaudeOK, CopilotOK, PiOK
<1>11. EndOK /\ ResultTellsWhy
  BY <1>2 DEF EndOK, ResultTellsWhy
<1>12. ShownOK
  <2>1. /\ sent = <<>> /\ <<>> \in Seq(Seq(Nat)) /\ Shown = <<>>
        /\ st.output = <<>> /\ st.attempt = <<>>
    <3>1. sent = <<>> /\ st.output = <<>> /\ st.attempt = <<>>
      <4>1. sent = <<>>
        BY DEF Init
      <4>2. st.output = <<>> /\ st.attempt = <<>>
        BY <1>3 DEF NewState
      <4> QED BY <4>1, <4>2
    <3>2. Shown = Flat(<<>>)
      BY <3>1 DEF Shown
    <3>3. <<>> \in Seq(Seq(Nat))
      OBVIOUS
    <3> QED BY <3>1, <3>2, <3>3, FlatEmpty
  <2>2. Len(<<>>) = 0 /\ 1..0 = {} /\ Cardinality({}) = 0
    BY FS_EmptySet
  <2>3. \A kinds : TextsOK(kinds)
    BY <1>8, <2>1, <2>2 DEF TextsOK
  <2>4. VouchedOK
    BY <2>1, <2>2 DEF VouchedOK
  <2> QED BY <2>1, <2>3, <2>4 DEF ShownOK
<1>13. WholeOK
  BY <1>2 DEF WholeOK
<1> QED BY <1>6, <1>7, <1>10, <1>11, <1>12, <1>13 DEF SInv

\* The invariant of a run: the types, where each resource is given back, what
\* the reader knows of the lines it has read, what it has shown of them and
\* why it has stopped.
THEOREM StreamInductive == Spec => []SInv
<1>1. SInv /\ [Next]_vars => SInv'
  BY TypesStep, PhaseStep, StateStep, EndStep, ResultStep, ShownStep, WholeStep DEF SInv
<1> QED BY InitSInv, <1>1, PTL DEF Spec

\* The Result of claude.go, copilot.go and pi.go says why: a timeout or an
\* abort is the context's, a completed run is one whose child exited with 0
\* and said of no line that it failed, and a failed run has a reason.
THEOREM ResultHasAReason == Spec => []ResultTellsWhy
<1>1. SInv => ResultTellsWhy
  BY DEF SInv
<1> QED BY <1>1, StreamInductive, PTL

\* Whatever way the run ends, Execute's refusal included, the process, the
\* context, the temporary file and claude's prompt writer are gone.
THEOREM EverythingIsGivenBack == Spec => []NothingLeftBehind
<1>1. SInv => NothingLeftBehind
  <2> SUFFICES ASSUME TypesOK, PhaseOK
               PROVE  NothingLeftBehind
    BY DEF SInv
  <2>1. pc \in Phases
    BY DEF TypesOK, PhaseTypes
  <2> USE TempFrame
  <2> HIDE DEF NeedsTemp, Writing, Reported
  <2> QED BY <2>1 DEF PhaseOK, NothingLeftBehind, Phases, Idle, Over
<1> QED BY <1>1, StreamInductive, PTL

\* A run that claude.go, copilot.go or pi.go reports as completed was heard to
\* its end, but for a line that cannot be read, and every text of it was shown
\* once and in order; pi shows what it reports.
THEOREM CompletedIsWhole == Spec => []CompletedRunIsWhole
<1>1. SInv => CompletedRunIsWhole
  <2> SUFFICES ASSUME SInv, res.status = "completed", ~Choked
               PROVE  /\ heard = Len(spoken)
                      /\ IF backend = "pi"
                           THEN Shown = res.output
                           ELSE /\ \A i \in DOMAIN Shown : spoken[Shown[i]] \in TextKinds[backend]
                                /\ \A i, j \in DOMAIN Shown : i < j => Shown[i] < Shown[j]
                                /\ Len(Shown) = Cardinality(Before(spoken, TextKinds[backend]))
    BY DEF CompletedRunIsWhole, Shown
  <2>1. /\ LineTypes /\ backend \in AllBackends /\ ShownOK /\ heard = Len(spoken)
        /\ res.output = st.output
    BY DEF SInv, TypesOK, RunTypes, WholeOK
  <2>2. Shown \in Seq(Nat) /\ DOMAIN Shown = 1..Len(Shown)
    BY <2>1, FlatType DEF ShownOK, Shown
  <2>3. ASSUME NEW kinds, TextsOK(kinds), TextKinds[backend] = kinds
        PROVE  /\ \A i \in DOMAIN Shown : spoken[Shown[i]] \in TextKinds[backend]
               /\ \A i, j \in DOMAIN Shown : i < j => Shown[i] < Shown[j]
               /\ Len(Shown) = Cardinality(Before(spoken, TextKinds[backend]))
    <3>1. Heard(kinds) = Before(spoken, kinds)
      BY <2>1, HeardAll
    <3>2. \A i \in Heard(kinds) : spoken[i] \in kinds
      BY DEF Heard
    <3> HIDE DEF Heard, Shown, Before
    <3> QED BY <2>2, <2>3, <3>1, <3>2 DEF TextsOK
  <2>4. CASE backend = "claude"
    BY <2>1, <2>3, <2>4 DEF ShownOK, TextKinds
  <2>5. CASE backend = "copilot"
    BY <2>1, <2>3, <2>5 DEF ShownOK, TextKinds
  <2>6. CASE backend = "pi"
    BY <2>1, <2>6 DEF ShownOK, VouchedOK
  <2> QED BY <2>1, <2>4, <2>5, <2>6 DEF AllBackends
<1> QED BY <1>1, StreamInductive, PTL

\* pi.go shows and reports no text of an attempt that failed, was retried or
\* is still in flight.
THEOREM NothingUnverified == Spec => []OutputIsVouched
<1>1. SInv => OutputIsVouched
  <2> SUFFICES ASSUME SInv, backend = "pi", NEW i \in 1..Len(spoken),
                      i \in {Shown[k] : k \in DOMAIN Shown}
                              \cup {st.output[k] : k \in DOMAIN st.output}
               PROVE  Vouched(i)
    BY DEF OutputIsVouched, Shown
  <2>1. VouchedOK /\ st \in States
    BY DEF SInv, TypesOK, ShownOK
  <2>2. DOMAIN st.output = 1..Len(st.output) /\ Shown = st.output
    <3>1. st.output \in Seq(Nat)
      BY <2>1 DEF States
    <3> QED BY <2>1, <3>1 DEF VouchedOK
  <2> QED BY <2>1, <2>2 DEF VouchedOK
<1> QED BY <1>1, StreamInductive, PTL
=============================================================================
