-------------------------- MODULE HermesTurnProps --------------------------
(***************************************************************************)
(* What the hermes backend promises: the comments of hermes.go and the     *)
(* Session contract of agent.go.                                           *)
(***************************************************************************)
EXTENDS HermesTurn

Reported == res.status # "none"

SessionAnswer == CHOOSE i \in 1..Len(spoken) :
                   spoken[i].k = "answer" /\ spoken[i].to = "session"

\* The history of a resumed session stays out of the turn: nothing the child
\* replays before it answers session/resume is shown.  What it flushes later
\* meets the open gate (hermes.go:332).
HistoryStaysOut ==
  \A i \in DOMAIN sent :
    sent[i].old => Answered("session") /\ sent[i].at > SessionAnswer

\* Where in the messages those of the turn itself are.
Shown(kinds) == {i \in DOMAIN sent : ~sent[i].old /\ sent[i].k \in kinds}

\* Of the turn itself nothing that was heard is dropped, repeated or out of
\* order, whatever the gate did; a tool's use is shown once, before its
\* result, and carries the last arguments the child gave it, never a part.
TurnIsShown ==
  /\ LET texts == Shown({"text", "gaveup"})
     IN /\ {sent[i].at : i \in texts} = SaidOf(FALSE, {"text", "gaveup"}) \cap 1..heard
        /\ \A i, j \in texts : i < j => sent[i].at < sent[j].at
  /\ LET uses    == Shown({"use"})
         results == Shown({"result"})
     IN /\ \A i, j \in uses : i = j
        /\ \A i, j \in results : i = j
        /\ results # {} <=> SaidOf(FALSE, {"done"}) \cap 1..heard # {}
        /\ \A r \in results : \E u \in uses : u < r
        /\ \A u \in uses, i \in SaidOf(FALSE, {"start", "open", "args"}) : i <= sent[u].at

\* A history that ended cancelled and was flushed late.
LateEnd == \E i \in SaidOf(TRUE, {"turnEnd"}) : Answered("session") /\ i > SessionAnswer

\* The status tells why the run ended.  timeout and aborted are the
\* context's, or the child's own word; completed means that the child said
\* so and that no error of its provider was told in full; and a failure has
\* one of the causes there are.  A session the child no longer knows is not
\* reported as one to resume, and a session is not lost to a transport the
\* runtime does not have.
ResultTellsWhy ==
  /\ res.status = "timeout" => ctx = "deadline"
  /\ res.status = "aborted" =>
       \/ ctx = "canceled"
       \/ \E i \in 1..Len(spoken) : spoken[i].k \in {"answer", "turnEnd"} /\ spoken[i].what = "cancelled"
                                    /\ (spoken[i].k = "turnEnd" /\ spoken[i].old => LateEnd)
  /\ res.status = "completed" =>
       /\ Answered("prompt")
       /\ "fatal" \notin errSaid /\ (errSaid = {} \/ Output # {})
       /\ SaidOf(FALSE, {"gaveup"}) \cap 1..heard = {}
  /\ res.status = "failed" =>
       CASE res.error = "exited"   -> over
         [] res.error = "write"    -> ~Readable
         [] res.error = "context"  -> ctx # "live" /\ ~Answered("prompt")
         [] res.error = "provider" -> errSaid # {} \/ SaidOf(FALSE, {"gaveup"}) \cup SaidOf(TRUE, {"text"}) # {}
         [] res.error = "noid"     -> ~resume
         [] OTHER -> res.error \in {"error", "gone"}
  /\ resume /\ res.error = "gone" /\ res.status = "failed" => res.id = ""

\* Every run reports and gives back what it took, if the context ends or the
\* child answers, and permissions are no obstacle.  A descendant that keeps
\* the pipes open is waited for without a limit, and a request that is made after
\* the reader has given up on a line waits for the context (hermes.go:523).
RunReports ==
  \/ (stage # "start") ~> (stage \in {"refused", "done"})
  \/ <>[](held \/ (ctx = "live" /\ Choked))
=============================================================================
