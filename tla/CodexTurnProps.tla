--------------------------- MODULE CodexTurnProps ---------------------------
(***************************************************************************)
(* What a codex run promises, over the variables of CodexTurn: its Result  *)
(* tells what the child said, and it comes.                                *)
(***************************************************************************)
EXTENDS CodexTurn

-----------------------------------------------------------------------------
\* The lines our thread has to be heeded for: those of the dialect the child
\* has settled on when they come.
Ours(i) ==
  /\ IsNote(said[i]) /\ said[i].of = "ours"
  /\ \/ said[i].k \in LegacyKinds \cup {Unsupported}
     \/ /\ \E j \in 1..i : said[j].k \in TellingKinds
        /\ \A j \in 1..i : said[j].k \notin LegacyKinds

Heard(ks) == {i \in 1..heard : Ours(i) /\ said[i].k \in ks}

\* What a subagent's thread said before our turn was asked for is not told
\* from ours until threadID is stored.
Early(ks) == {i \in 1..heard : IsNote(said[i]) /\ said[i].of = "early" /\ said[i].k \in ks}
Progress  == {"item", "agent_message", "error"} \cup TextKinds
Bad       == AbortKinds \cup ErrorKinds \cup {Unsupported}

\* An end of one of the kinds ks came before anything of the others.
Announced(ks, others) == \E i \in Heard(ks) \cup Early(ks) : \A j \in Heard(others) : i < j

\* The verdict on a finished turn is the child's: aborted only if an abort
\* came before every other end; failed only if another end came before every
\* abort, and the child reported an error before the lifecycle goroutine
\* looked, even after a clean final_answer; completed only if a clean end
\* came before anything that failed or aborted the turn (finishTurn,
\* turnDone).  No subagent's thread ends our turn, unless it did before ours
\* was known (codex.go:1626 says that none ever does).
EndIsTheChilds ==
  verdict.cause = "turn" =>
    CASE verdict.status = "completed" -> Announced(CleanKinds, Bad)
      [] verdict.status = "aborted" ->
           Announced(AbortKinds, EndKinds \ (GuardedKinds \cup AbortKinds))
      [] OTHER -> /\ verdict.status = "failed"
                  /\ Announced(CleanKinds \cup ErrorKinds, AbortKinds)
                  /\ Heard(ErrorKinds \cup {Unsupported}) \cup Early(ErrorKinds) # {}

\* A child that finishes the turn and exits has finished the turn: the run
\* is not reported as a crash, whichever the select sees first (processDone
\* in Execute, handleLine before markProcessExited).
CompletionBeatsExit == verdict.cause = "exit" => Heard(EndKinds \ GuardedKinds) = {}

\* The Result is the last thing of a run: the child is gone by then, and, if
\* the turn was asked for, its output has every text message the child wrote
\* up to the end of its stdout or to the line the scanner choked on.  What
\* else it has, a subagent wrote before our thread was known.
ResultIsLast ==
  pc = "closed" =>
    /\ proc = "exited"
    /\ verdict.cause # "handshake" =>
         /\ result.output >= Cardinality(Heard(TextKinds))
         /\ result.output <= Cardinality(Heard(TextKinds) \cup Early(TextKinds))
         /\ reader = "choked" \/ (reader = "done" /\ heard = Len(said))

\* When the first-turn timer ends a run, and no activity is queued or was
\* dropped on a full channel, the child has made no progress since its turn
\* started (firstTurnNoProgressTimer, trySendString).
NoProgressIsReal ==
  [][verdict'.cause = "no_progress" /\ Waiting /\ activity = <<>> /\ ~dropped =>
       \A s \in Heard(StartKinds), i \in Heard(Progress) : i < s]_vars

\* A run whose context is done or whose child has exited reports and closes
\* its channels, and one that is shutting down does: no request and no wait
\* outlives them (request, markProcessExited, the grace period).  Two things
\* can defeat it.  A descendant that holds stdout: Execute joins the reader
\* before it calls Wait, whose WaitDelay would have closed the pipe; once the
\* descendant lets go the run reports.  And a line the reader choked on while
\* the context is live: nothing then kills a child that ignores its closed
\* stdin.
RunReports ==
  /\ (ctx # "live" \/ proc = "exited") ~> (pc = "closed" \/ held)
  /\ pc = "closing" ~> (pc = "closed" \/ held \/ reader = "choked")

=============================================================================
