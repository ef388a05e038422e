------------------------ MODULE ChatWorkspaceProps ------------------------
(***************************************************************************)
(* What docs/features/03 (sections 3.3 and 3.5) and models/chat.ts promise *)
(* of the turns of a conversation.                                         *)
(***************************************************************************)
EXTENDS ChatWorkspace

Kept == UNION {{[conv |-> c, turn |-> ws.convs[c].turns[i]] : i \in DOMAIN ws.convs[c].turns} :
               c \in DOMAIN ws.convs}

\* A turn is shown as running as long as its stream is the conversation's,
\* so that no turn runs for ever with its composer locked; a turn that has
\* ended says what its own stream said, and a request resumes a session of
\* its own conversation and agent that the end of an earlier turn named.
TurnTellsItsStream ==
  /\ \A k \in Kept :
       LET turn == k.turn  t == turn.id
           terminal == deriveTurnStatusFromEnvelopes(t, wire[t].said)
       IN /\ asked[t].conv = k.conv /\ turn.given = wire[t].said
          /\ mounted => (turn.status = "streaming" <=>
                           k.conv \in DOMAIN controllers /\ controllers[k.conv] = t)
          /\ turn.status \in DaemonTerminal =>
               \/ turn.status = terminal.status /\ turn.backend = terminal.backend
               \/ turn.status = "failed" /\ wire[t].said = <<>> /\ turn.backend = 0
          /\ turn.status \in {"aborted-by-client", "network-aborted"} => turn.backend = 0
          /\ turn.status = "network-aborted" => terminal.status = "none"
  /\ \A t \in Turns : asked[t].resume # 0 =>
       /\ asked[asked[t].resume].agent = asked[t].agent
       /\ asked[asked[t].resume].conv = asked[t].conv
       /\ deriveTurnStatusFromEnvelopes(asked[t].resume, wire[asked[t].resume].said).backend # 0

\* A turn that has ended is not touched again, by its own stream that runs
\* on after a cancel, by the stream of the turn that follows it or by one of
\* another conversation; only a retry takes it away, and then it is the last.
EndedTurnsStay ==
  [][\A c \in DOMAIN ws.convs : \A i \in DOMAIN ws.convs[c].turns :
       ws.convs[c].turns[i].status # "streaming" =>
         /\ c \in DOMAIN ws'.convs
         /\ \/ i \in DOMAIN ws'.convs[c].turns /\ ws'.convs[c].turns[i] = ws.convs[c].turns[i]
            \/ /\ i = Len(ws.convs[c].turns) /\ Len(ws'.convs[c].turns) = i
               /\ ws.convs[c].turns[i].status # "completed"
               /\ ws'.convs[c].turns[i].id \notin Turns]_vars
=============================================================================
