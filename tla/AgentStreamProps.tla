-------------------------- MODULE AgentStreamProps --------------------------
(***************************************************************************)
(* What a streaming backend promises its caller: the Session contract of   *)
(* agent.go and the comments of claude.go, copilot.go and pi.go.           *)
(***************************************************************************)
EXTENDS AgentStream

Reported == res.status # "none"

Said(kinds) == Before(spoken, kinds) # {}
LastOf(kinds) == LET at == Before(spoken, kinds)
                 IN IF at = {} THEN "" ELSE spoken[CHOOSE i \in at : \A j \in at : j <= i]

\* What the child itself made of the run.
ChildFailed ==
  CASE backend = "claude"  -> Said({"failed", "async"})
    [] backend = "copilot" -> Said({"error", "badexit"})
    [] backend = "pi" ->
         Said({"fatal"}) \/ LastOf({"start", "ok", "bad", "retry", "gaveup"}) # "ok"

\* timeout and aborted are reported for nothing but the context.  A run is
\* completed only if the child exited with 0 and none of its words says it
\* failed, and is failed only for a reason: nothing is guessed.  A line that
\* could not be read hides what follows it from claude and copilot, which do
\* not look at the scanner's error.
ResultTellsWhy ==
  /\ res.status = "timeout" => ctx = "deadline"
  /\ res.status = "aborted" => ctx = "canceled"
  /\ res.status = "completed" => child = "exit0" /\ (Choked \/ ~ChildFailed)
  /\ res.status = "failed" =>
       child # "exit0" \/ ChildFailed \/ st.broken \/ writeErr \/ st.waitErr
  /\ res.status = "failed" /\ backend = "claude" /\ resume /\ ~landed => res.id = ""

Flat(ms) == LET upto[n \in 0..Len(ms)] == IF n = 0 THEN <<>> ELSE upto[n - 1] \o ms[n]
            IN upto[Len(ms)]

TextKinds == [claude |-> {"text"}, copilot |-> {"delta"}, pi |-> {}]

\* A run that is reported as completed was heard to the end, and what was
\* shown is every text of it, once and in order.
CompletedRunIsWhole ==
  res.status = "completed" /\ ~Choked =>
    /\ heard = Len(spoken)
    /\ LET shown == Flat(sent)
       IN IF backend = "pi"
            THEN shown = res.output
            ELSE /\ \A i \in DOMAIN shown : spoken[shown[i]] \in TextKinds[backend]
                 /\ \A i, j \in DOMAIN shown : i < j => shown[i] < shown[j]
                 /\ Len(shown) = Cardinality(Before(spoken, TextKinds[backend]))

\* Text i belongs to an attempt of pi that ended in success: what comes next,
\* its other texts aside, is the end of that attempt.
Vouched(i) == \E j \in i + 1..heard :
  /\ spoken[j] = "ok"
  /\ \A k \in i + 1..j - 1 : spoken[k] = "delta"

\* pi shows and reports no text of an attempt that failed, was retried or is
\* still in flight (pi.go: "unverified text").
OutputIsVouched ==
  backend = "pi" =>
    \A i \in 1..Len(spoken) :
      i \in {Flat(sent)[k] : k \in DOMAIN Flat(sent)}
              \cup {st.output[k] : k \in DOMAIN st.output}
        => Vouched(i)

\* A run that is over, or that Execute refused, leaves no process, no
\* context, no temporary file and no writer; and the child has its file for
\* as long as it runs.
NothingLeftBehind ==
  /\ pc \in {"refused", "done"} =>
       /\ child # "running" /\ ~temp
       /\ pc = "done" => ctx # "live" /\ Reported /\ pipeClosed
       /\ pc = "done" /\ backend = "claude" => ~Writing /\ inShut
  /\ pc = "refused" /\ backend = "claude" => ctx # "live"
  /\ child = "running" => temp = NeedsTemp

\* Every run reports, and closes its pipe, if the context ends or the child
\* follows its protocol, unless something it left behind keeps stdout open
\* or the scanner gave up on a line (claude, copilot): then it takes the
\* context.  The prompt may be longer than a pipe holds, and the child may
\* speak before it reads.
RunReports ==
  \/ (pc = "read") ~> (Reported /\ pipeClosed)
  \/ <>[](ctx = "live" /\ (held \/ Choked))
=============================================================================
