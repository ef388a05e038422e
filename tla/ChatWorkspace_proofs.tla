------------------------ MODULE ChatWorkspace_proofs ------------------------
(***************************************************************************)
(* The turns of a conversation tell their own stream, for any agents, any  *)
(* statuses a session may end with, and any number of conversations, turns *)
(* and chunks.                                                             *)
(*                                                                         *)
(* Handlers act on what was last rendered, so that the invariant relates   *)
(* it to the state: it is behind by nothing but the streams (ShownOK).     *)
(* That a stream touches no turn but its own rests on who owns a           *)
(* conversation (OwnersOK).                                                *)
(***************************************************************************)
EXTENDS ChatWorkspaceProps, FiniteSetTheorems, WellFoundedInduction, TLAPS

Envelopes == [status : DaemonTerminal \cup {"none"}, named : BOOLEAN]
Statuses  == DaemonTerminal \cup {"streaming", "aborted-by-client", "network-aborted"}
TurnRecs  == [id : Nat, status : Statuses, backend : Nat, given : Seq(Envelopes)]
ConvRecs  == [agent : Agents, turns : Seq(TurnRecs)]
Requests  == [conv : Nat, agent : Agents, resume : Nat]
Phases    == {"asked", "open", "ended", "refused", "broken", "gone"}
Responses == [phase : Phases, chunks : Seq(Envelopes), said : Seq(Envelopes)]

IsWorkspace(w, n) ==
  /\ w = [convs |-> w.convs, active |-> w.active, installed |-> w.installed]
  /\ w.convs \in [DOMAIN w.convs -> ConvRecs] /\ DOMAIN w.convs \subseteq 1..n
  /\ w.active \in Nat /\ w.installed \subseteq Agents

WorkTypes == convs \in Nat /\ IsWorkspace(ws, convs) /\ IsWorkspace(shown, convs)
TurnTypes ==
  /\ \E n \in Nat : Turns = 1..n
  /\ asked \in [Turns -> Requests] /\ wire \in [Turns -> Responses]
OwnerTypes ==
  /\ controllers \in [DOMAIN controllers -> Turns] /\ DOMAIN controllers \subseteq 1..convs
  /\ mounted \in BOOLEAN /\ (~mounted => DOMAIN controllers = {})

TypesOK == WorkTypes /\ TurnTypes /\ OwnerTypes

Ending(t) == deriveTurnStatusFromEnvelopes(t, wire[t].said)

\* What a turn says of its stream.
Tells(turn) ==
  /\ turn.status \in DaemonTerminal =>
       \/ turn.status = Ending(turn.id).status /\ turn.backend = Ending(turn.id).backend
       \/ turn.status = "failed" /\ wire[turn.id].said = <<>> /\ turn.backend = 0
  /\ turn.status \notin DaemonTerminal => turn.backend = 0
  /\ turn.status = "network-aborted" => Ending(turn.id).status = "none"

TurnOf(c, agent, turn) ==
  /\ turn.id \in Turns /\ asked[turn.id].conv = c /\ asked[turn.id].agent = agent
  /\ turn.given = wire[turn.id].said
  /\ Tells(turn)

\* The turns of a conversation: their ids ascend, and none but the last
\* runs, as long as it owns the conversation.
TurnsOK(c, agent, turns) ==
  /\ \A i \in 1..Len(turns) : TurnOf(c, agent, turns[i])
  /\ \A i, j \in 1..Len(turns) : i < j => turns[i].id < turns[j].id
  /\ \A i \in 1..Len(turns) : turns[i].status = "streaming" =>
       i = Len(turns) /\ (mounted => c \in DOMAIN controllers /\ controllers[c] = turns[i].id)
ConvOK(c) == TurnsOK(c, ws.convs[c].agent, ws.convs[c].turns)
ConvsOK == \A c \in DOMAIN ws.convs : ConvOK(c)

\* Who owns a conversation is its last turn, which runs.
OwnerOK(c) ==
  /\ asked[controllers[c]].conv = c
  /\ c \in DOMAIN ws.convs =>
       LET turns == ws.convs[c].turns
       IN turns # <<>> /\ Last(turns).id = controllers[c] /\ Last(turns).status = "streaming"
OwnersOK == \A c \in DOMAIN controllers : OwnerOK(c)

\* What was rendered of a conversation differs from what it is by nothing but
\* what a stream has made of a turn that is shown as running.
ConvShown(c) ==
  LET seen == shown.convs[c].turns
  IN /\ seen # <<>> => c \in DOMAIN ws.convs
     /\ \A i \in 1..Len(seen) : seen[i].status = "streaming" => i = Len(seen)
     /\ c \in DOMAIN ws.convs =>
          LET turns == ws.convs[c].turns
          IN /\ shown.convs[c].agent = ws.convs[c].agent /\ Len(seen) = Len(turns)
             /\ \A i \in 1..Len(seen) :
                  /\ seen[i].id = turns[i].id
                  /\ seen[i].status # "streaming" => seen[i] = turns[i]
ShownOK == \A c \in DOMAIN shown.convs : ConvShown(c)

\* A request that has no response yet has given nothing.
WireOK == \A t \in Turns :
  wire[t].phase \in {"asked", "refused"} => wire[t].said = <<>> /\ wire[t].chunks = <<>>

\* The session a request resumes is that of a turn that has ended.
ResumeOK == \A t \in Turns : asked[t].resume # 0 =>
  LET r == asked[t].resume
  IN /\ r \in Turns /\ asked[r].agent = asked[t].agent /\ asked[r].conv = asked[t].conv
     /\ Ending(r).backend # 0 /\ ~isCurrent(r)

ChatInv == TypesOK /\ ConvsOK /\ OwnersOK /\ ShownOK /\ WireOK /\ ResumeOK

-----------------------------------------------------------------------------
(* What the workspace's operators return.                                  *)

\* Facts about the empty sequence.
LEMMA EmptySeq == Len(<<>>) = 0 /\ 1..0 = {} /\ \A S : <<>> \in Seq(S)
OBVIOUS

\* activateNew drops nothing but empty conversations, and adds one.
LEMMA Activated ==
  ASSUME NEW n \in Nat, NEW w, IsWorkspace(w, n), NEW agent \in Agents,
         NEW v, v = activateNew(w, n + 1, agent)
  PROVE  /\ IsWorkspace(v, n + 1)
         /\ \A d \in DOMAIN v.convs :
              \/ d \in DOMAIN w.convs /\ v.convs[d] = w.convs[d]
              \/ d \notin 1..n /\ v.convs[d].turns = <<>>
         /\ \A d \in DOMAIN w.convs : w.convs[d].turns # <<>> => d \in DOMAIN v.convs
<1> DEFINE kept == {d \in DOMAIN w.convs : w.convs[d].turns # <<>>}
           fresh == [agent |-> agent, turns |-> <<>>]
           made == [d \in kept \cup {n + 1} |-> IF d = n + 1 THEN fresh ELSE w.convs[d]]
<1>1. w.convs \in [DOMAIN w.convs -> ConvRecs] /\ DOMAIN w.convs \subseteq 1..n
  BY DEF IsWorkspace
<1>2. v = [w EXCEPT !.active = n + 1, !.convs = made]
  BY DEF activateNew
<1>3. v = [convs |-> made, active |-> n + 1, installed |-> w.installed]
  BY <1>2 DEF IsWorkspace
<1>4. fresh \in ConvRecs
  BY EmptySeq DEF ConvRecs
<1>5. n + 1 \notin 1..n /\ n + 1 \in 1..(n + 1) /\ 1..n \subseteq 1..(n + 1)
  OBVIOUS
<1> HIDE DEF made
<1>6. /\ made \in [kept \cup {n + 1} -> ConvRecs]
      /\ made[n + 1] = fresh
      /\ \A d \in kept : made[d] = w.convs[d]
  <2>1. \A d \in kept : d # n + 1 /\ w.convs[d] \in ConvRecs
    BY <1>1, <1>5
  <2> HIDE DEF fresh, kept
  <2> QED BY <1>4, <2>1 DEF made
<1>7. kept \subseteq 1..n
  BY <1>1
<1>8. w.installed \subseteq Agents
  BY DEF IsWorkspace
<1>9. v.convs = made /\ v.active = n + 1 /\ v.installed = w.installed /\ DOMAIN made = kept \cup {n + 1}
  BY <1>3, <1>6
<1>10. IsWorkspace(v, n + 1)
  BY <1>3, <1>5, <1>6, <1>7, <1>8, <1>9 DEF IsWorkspace
<1>11. ASSUME NEW d \in DOMAIN v.convs
       PROVE  \/ d \in DOMAIN w.convs /\ v.convs[d] = w.convs[d]
              \/ d \notin 1..n /\ v.convs[d].turns = <<>>
  BY <1>5, <1>6, <1>9
<1> QED BY <1>9, <1>10, <1>11

\* Who is active and which agents are installed touches no conversation.
LEMMA Marked ==
  ASSUME NEW n \in Nat, NEW w, IsWorkspace(w, n), NEW a \in Nat, NEW found \in SUBSET Agents
  PROVE  /\ IsWorkspace([w EXCEPT !.installed = found], n)
         /\ [w EXCEPT !.installed = found].convs = w.convs
         /\ [w EXCEPT !.installed = found].installed = found
         /\ [w EXCEPT !.installed = found].active = w.active
         /\ IsWorkspace([w EXCEPT !.active = a], n)
         /\ [w EXCEPT !.active = a].convs = w.convs
<1>1. PICK f, b, s : w = [convs |-> f, active |-> b, installed |-> s]
  BY DEF IsWorkspace
<1>2. /\ [w EXCEPT !.installed = found] = [convs |-> f, active |-> b, installed |-> found]
      /\ [w EXCEPT !.active = a] = [convs |-> f, active |-> a, installed |-> s]
  BY <1>1
<1>3. w.convs = f /\ w.active = b /\ w.installed = s
  BY <1>1
<1> QED BY <1>2, <1>3 DEF IsWorkspace

WithTurns(w, c, ts) == [w EXCEPT !.convs[c].turns = ts]
WithAgent(w, c, agent) == [w EXCEPT !.convs[c].agent = agent]

\* Replacing the turns of a conversation leaves the others alone.
LEMMA TurnsSet ==
  ASSUME NEW n \in Nat, NEW w, IsWorkspace(w, n), NEW c \in DOMAIN w.convs,
         NEW ts \in Seq(TurnRecs), NEW v, v = WithTurns(w, c, ts)
  PROVE  /\ IsWorkspace(v, n)
         /\ DOMAIN v.convs = DOMAIN w.convs
         /\ v.convs[c].turns = ts /\ v.convs[c].agent = w.convs[c].agent
         /\ \A d \in DOMAIN w.convs : d # c => v.convs[d] = w.convs[d]
<1>1. PICK f, b, s : w = [convs |-> f, active |-> b, installed |-> s]
  BY DEF IsWorkspace
<1>2. w.convs = f /\ w.active = b /\ w.installed = s
  BY <1>1
<1>3. f \in [DOMAIN f -> ConvRecs] /\ c \in DOMAIN f
  BY <1>2 DEF IsWorkspace
<1>4. f[c] \in ConvRecs
  BY <1>3
<1>5. PICK ag \in Agents, old \in Seq(TurnRecs) : f[c] = [agent |-> ag, turns |-> old]
  BY <1>4 DEF ConvRecs
<1>6. [agent |-> ag, turns |-> ts] \in ConvRecs
  BY <1>5 DEF ConvRecs
<1>7. PICK g : g = [f EXCEPT ![c] = [agent |-> ag, turns |-> ts]]
  OBVIOUS
<1>8. v = [convs |-> g, active |-> b, installed |-> s]
  <2>1. [f[c] EXCEPT !.turns = ts] = [agent |-> ag, turns |-> ts]
    BY <1>5
  <2>2. v = [w EXCEPT !.convs = [f EXCEPT ![c] = [f[c] EXCEPT !.turns = ts]]]
    BY <1>2 DEF WithTurns
  <2>3. v = [w EXCEPT !.convs = g]
    BY <1>7, <2>1, <2>2
  <2> QED BY <1>1, <2>3
<1>9. /\ DOMAIN g = DOMAIN f /\ g \in [DOMAIN f -> ConvRecs]
      /\ g[c] = [agent |-> ag, turns |-> ts]
      /\ \A d \in DOMAIN f : d # c => g[d] = f[d]
  BY <1>3, <1>6, <1>7
<1>10. v.convs = g /\ v.active = b /\ v.installed = s
  BY <1>8
<1>11. IsWorkspace(v, n)
  BY <1>2, <1>8, <1>9, <1>10 DEF IsWorkspace
<1>12. f[c].agent = ag
  BY <1>5
<1> QED BY <1>2, <1>9, <1>10, <1>11, <1>12

\* Changing the agent of a conversation leaves turns and the others alone.
LEMMA AgentSet ==
  ASSUME NEW n \in Nat, NEW w, IsWorkspace(w, n), NEW c \in DOMAIN w.convs,
         NEW agent \in Agents, NEW v, v = WithAgent(w, c, agent)
  PROVE  /\ IsWorkspace(v, n)
         /\ DOMAIN v.convs = DOMAIN w.convs
         /\ v.convs[c].turns = w.convs[c].turns
         /\ \A d \in DOMAIN w.convs : d # c => v.convs[d] = w.convs[d]
<1>1. PICK f, b, s : w = [convs |-> f, active |-> b, installed |-> s]
  BY DEF IsWorkspace
<1>2. w.convs = f /\ w.active = b /\ w.installed = s
  BY <1>1
<1>3. f \in [DOMAIN f -> ConvRecs] /\ c \in DOMAIN f
  BY <1>2 DEF IsWorkspace
<1>4. f[c] \in ConvRecs
  BY <1>3
<1>5. PICK ag \in Agents, old \in Seq(TurnRecs) : f[c] = [agent |-> ag, turns |-> old]
  BY <1>4 DEF ConvRecs
<1>6. [agent |-> agent, turns |-> old] \in ConvRecs
  BY <1>5 DEF ConvRecs
<1>7. PICK g : g = [f EXCEPT ![c] = [agent |-> agent, turns |-> old]]
  OBVIOUS
<1>8. v = [convs |-> g, active |-> b, installed |-> s]
  <2>1. [f[c] EXCEPT !.agent = agent] = [agent |-> agent, turns |-> old]
    BY <1>5
  <2>2. v = [w EXCEPT !.convs = [f EXCEPT ![c] = [f[c] EXCEPT !.agent = agent]]]
    BY <1>2 DEF WithAgent
  <2>3. v = [w EXCEPT !.convs = g]
    BY <1>7, <2>1, <2>2
  <2> QED BY <1>1, <2>3
<1>9. /\ DOMAIN g = DOMAIN f /\ g \in [DOMAIN f -> ConvRecs]
      /\ g[c] = [agent |-> agent, turns |-> old]
      /\ \A d \in DOMAIN f : d # c => g[d] = f[d]
  BY <1>3, <1>6, <1>7
<1>10. v.convs = g /\ v.active = b /\ v.installed = s
  BY <1>8
<1>11. IsWorkspace(v, n)
  BY <1>2, <1>8, <1>9, <1>10 DEF IsWorkspace
<1>12. f[c].turns = old
  BY <1>5
<1> QED BY <1>2, <1>9, <1>10, <1>11, <1>12

\* A workspace is one however many ids have been handed out since.
LEMMA Grown ==
  ASSUME NEW w, NEW n \in Nat, NEW m \in Nat, n <= m, IsWorkspace(w, n)
  PROVE  IsWorkspace(w, m)
<1>1. 1..n \subseteq 1..m
  OBVIOUS
<1> QED BY <1>1 DEF IsWorkspace

-----------------------------------------------------------------------------
(* The steps that rearrange conversations leave every turn where it is.    *)

Rearranges ==
  /\ UNCHANGED <<controllers, mounted, asked, wire>>
  /\ convs' \in Nat /\ convs <= convs'
  /\ IsWorkspace(ws, convs)' /\ IsWorkspace(shown, convs)'
  /\ \A c \in DOMAIN ws'.convs :
       \/ /\ c \in DOMAIN ws.convs /\ ws'.convs[c].turns = ws.convs[c].turns
          /\ ws.convs[c].turns # <<>> => ws'.convs[c].agent = ws.convs[c].agent
       \/ c \notin 1..convs /\ ws'.convs[c].turns = <<>>
  /\ \A c \in DOMAIN ws.convs : ws.convs[c].turns # <<>> => c \in DOMAIN ws'.convs
  /\ \/ shown' = ws'
     \/ /\ shown' = shown
        /\ \A c \in DOMAIN ws'.convs : c \in 1..convs =>
             c \in DOMAIN ws.convs /\ ws'.convs[c] = ws.convs[c]

\* A conversation of a workspace, part by part.
LEMMA ConvType ==
  ASSUME NEW w, NEW n \in Nat, IsWorkspace(w, n), NEW c \in DOMAIN w.convs
  PROVE  /\ c \in 1..n
         /\ w.convs[c].turns \in Seq(TurnRecs) /\ w.convs[c].agent \in Agents
         /\ Len(w.convs[c].turns) \in Nat
         /\ DOMAIN w.convs[c].turns = 1..Len(w.convs[c].turns)
         /\ \A i \in 1..Len(w.convs[c].turns) : w.convs[c].turns[i] \in TurnRecs
         /\ w.convs[c].turns # <<>> =>
              /\ Len(w.convs[c].turns) \in 1..Len(w.convs[c].turns)
              /\ 1..Len(w.convs[c].turns) # {}
         /\ w.convs[c].turns = <<>> => 1..Len(w.convs[c].turns) = {}
<1>1. w.convs[c] \in ConvRecs /\ c \in 1..n
  BY DEF IsWorkspace
<1>2. w.convs[c].turns \in Seq(TurnRecs) /\ w.convs[c].agent \in Agents
  BY <1>1 DEF ConvRecs
<1>3. PICK ts \in Seq(TurnRecs) : ts = w.convs[c].turns
  BY <1>2
<1>4. /\ Len(ts) \in Nat /\ DOMAIN ts = 1..Len(ts)
      /\ \A i \in 1..Len(ts) : ts[i] \in TurnRecs
  OBVIOUS
<1>5. ts # <<>> => Len(ts) # 0
  OBVIOUS
<1>6. ts # <<>> => Len(ts) \in 1..Len(ts) /\ 1..Len(ts) # {}
  <2> SUFFICES ASSUME ts # <<>> PROVE Len(ts) \in 1..Len(ts)
    OBVIOUS
  <2>1. Len(ts) \in Nat /\ Len(ts) # 0
    BY <1>4, <1>5
  <2> QED BY <2>1
<1>7. ts = <<>> => 1..Len(ts) = {}
  BY EmptySeq
<1> QED BY <1>1, <1>2, <1>3, <1>4, <1>6, <1>7

\* A click that hands out no id and touches no turn rearranges.
LEMMA ClickRearranges ==
  ASSUME TypesOK, UNCHANGED <<controllers, mounted, asked, wire>>,
         convs' = convs, NEW w, ws' = w, shown' = w, IsWorkspace(w, convs),
         \A c \in DOMAIN w.convs :
            /\ c \in DOMAIN ws.convs /\ w.convs[c].turns = ws.convs[c].turns
            /\ ws.convs[c].turns # <<>> => w.convs[c].agent = ws.convs[c].agent,
         DOMAIN ws.convs \subseteq DOMAIN w.convs
  PROVE  Rearranges
<1>1. convs \in Nat /\ convs <= convs'
  BY DEF TypesOK, WorkTypes
<1>2. IsWorkspace(ws, convs)' /\ IsWorkspace(shown, convs)'
  BY DEF IsWorkspace
<1> QED BY <1>1, <1>2 DEF Rearranges

\* A click that opens a conversation rearranges.
LEMMA OpensRearranges ==
  ASSUME TypesOK, UNCHANGED <<controllers, mounted, asked, wire>>,
         convs' = convs + 1, NEW w, w.convs = ws.convs, IsWorkspace(w, convs),
         NEW agent \in Agents, ws' = activateNew(w, convs + 1, agent),
         shown' = ws' \/ shown' = shown
  PROVE  Rearranges
<1> DEFINE v == activateNew(w, convs + 1, agent)
<1>1. convs \in Nat /\ convs + 1 \in Nat /\ convs <= convs + 1 /\ IsWorkspace(shown, convs)
  BY DEF TypesOK, WorkTypes
<1>2. /\ IsWorkspace(v, convs + 1)
      /\ \A d \in DOMAIN v.convs :
           \/ d \in DOMAIN w.convs /\ v.convs[d] = w.convs[d]
           \/ d \notin 1..convs /\ v.convs[d].turns = <<>>
      /\ \A d \in DOMAIN w.convs : w.convs[d].turns # <<>> => d \in DOMAIN v.convs
  BY <1>1, Activated
<1> HIDE DEF v
<1>3. ws' = v
  BY DEF v
<1>4. IsWorkspace(shown, convs + 1)
  BY <1>1, Grown
<1>5. IsWorkspace(ws, convs)' /\ IsWorkspace(shown, convs)'
  <2>1. IsWorkspace(ws, convs)'
    BY <1>2, <1>3 DEF IsWorkspace
  <2>2. CASE shown' = ws'
    BY <2>1, <2>2 DEF IsWorkspace
  <2>3. CASE shown' = shown
    BY <1>4, <2>1, <2>3 DEF IsWorkspace
  <2> QED BY <2>1, <2>2, <2>3
<1> QED BY <1>1, <1>2, <1>3, <1>5 DEF Rearranges

\* The handlers that rearrange.
LEMMA RearrangingSteps ==
  ASSUME ChatInv,
         \/ Render \/ refresh \/ ProbeFails \/ \E installed \in SUBSET Agents : AgentsProbed(installed)
         \/ newChat
         \/ \E agent \in Agents : setSelectedAgent(agent)
         \/ \E c \in 1..MaxConvs : selectConversation(c)
  PROVE  Rearranges
<1>1. TypesOK /\ convs \in Nat /\ IsWorkspace(ws, convs) /\ IsWorkspace(shown, convs)
  BY DEF ChatInv, TypesOK, WorkTypes
<1>2. CASE Render
  BY <1>1, <1>2, ClickRearranges DEF Render
<1>3. CASE refresh
  <2>1. /\ ws' = [ws EXCEPT !.installed = {}] /\ shown' = [ws EXCEPT !.installed = {}]
        /\ UNCHANGED <<controllers, mounted, asked, wire>> /\ convs' = convs
    BY <1>3 DEF refresh, Click
  <2>2. IsWorkspace(ws', convs) /\ ws'.convs = ws.convs
    BY <1>1, <2>1, Marked
  <2> QED BY <1>1, <2>1, <2>2, ClickRearranges
<1>4. CASE ProbeFails
  <2>1. UNCHANGED <<ws, shown, controllers, mounted, asked, wire, convs>>
    BY <1>4 DEF ProbeFails
  <2> QED BY <1>1, <2>1 DEF Rearranges, IsWorkspace
<1>5. CASE \E installed \in SUBSET Agents : AgentsProbed(installed)
  <2>1. PICK found \in SUBSET Agents : AgentsProbed(found)
    BY <1>5
  <2> DEFINE w == [ws EXCEPT !.installed = found]
  <2>2. IsWorkspace(w, convs) /\ w.convs = ws.convs
    BY <1>1, Marked
  <2>3. UNCHANGED <<shown, controllers, mounted, asked, wire>>
    BY <2>1 DEF AgentsProbed
  <2>4. \/ ws' = w /\ convs' = convs
        \/ ws' = [w EXCEPT !.active = 0] /\ convs' = convs
        \/ convs' = convs + 1 /\ \E first \in found : ws' = activateNew(w, convs + 1, first)
    BY <2>1 DEF AgentsProbed
  <2> HIDE DEF w
  <2>5. ASSUME ws'.convs = ws.convs, IsWorkspace(ws', convs), convs' = convs
        PROVE  Rearranges
    BY <1>1, <2>3, <2>5 DEF Rearranges, IsWorkspace
  <2>6. CASE ws' = w /\ convs' = convs
    BY <2>2, <2>5, <2>6
  <2>7. CASE ws' = [w EXCEPT !.active = 0] /\ convs' = convs
    <3>1. IsWorkspace(ws', convs) /\ ws'.convs = w.convs
      BY <1>1, <2>2, <2>7, Marked
    <3> QED BY <2>2, <2>5, <2>7, <3>1
  <2>8. CASE convs' = convs + 1 /\ \E first \in found : ws' = activateNew(w, convs + 1, first)
    BY <1>1, <2>2, <2>3, <2>8, OpensRearranges
  <2> QED BY <2>4, <2>6, <2>7, <2>8
<1>6. CASE newChat
  <2>1. PICK agent \in shown.installed : Opens(agent)
    BY <1>6 DEF newChat
  <2>2. agent \in Agents
    BY <1>1 DEF IsWorkspace
  <2>3. UNCHANGED <<controllers, mounted, asked, wire>>
    BY <1>6 DEF newChat
  <2> QED BY <1>1, <2>1, <2>2, <2>3, OpensRearranges DEF Opens, Click
<1>7. CASE \E agent \in Agents : setSelectedAgent(agent)
  <2>1. PICK agent \in Agents : setSelectedAgent(agent)
    BY <1>7
  <2>2. UNCHANGED <<controllers, mounted, asked, wire>>
    BY <2>1 DEF setSelectedAgent
  <2>3. CASE Has(ws, ws.active) /\ Active(ws).turns = <<>>
    <3>1. /\ ws' = [ws EXCEPT !.convs[ws.active].agent = agent] /\ shown' = ws' /\ convs' = convs
      BY <2>1, <2>3 DEF setSelectedAgent, Click
    <3>2. ws.active \in DOMAIN ws.convs /\ ws.convs[ws.active].turns = <<>>
      BY <2>3 DEF Has, Active
    <3>3. PICK a : a = ws.active
      OBVIOUS
    <3>4. PICK v : v = WithAgent(ws, a, agent)
      OBVIOUS
    <3>5. /\ IsWorkspace(v, convs) /\ DOMAIN v.convs = DOMAIN ws.convs
          /\ v.convs[a].turns = ws.convs[a].turns
          /\ \A d \in DOMAIN ws.convs : d # a => v.convs[d] = ws.convs[d]
      BY <1>1, <3>2, <3>3, <3>4, AgentSet
    <3>6. ws' = v
      BY <3>1, <3>3, <3>4 DEF WithAgent
    <3>7. ASSUME NEW d \in DOMAIN v.convs
          PROVE  /\ d \in DOMAIN ws.convs /\ v.convs[d].turns = ws.convs[d].turns
                 /\ ws.convs[d].turns # <<>> => v.convs[d].agent = ws.convs[d].agent
      <4>1. CASE d = a
        BY <3>2, <3>3, <3>5, <4>1
      <4>2. CASE d # a
        BY <3>5, <4>2
      <4> QED BY <4>1, <4>2
    <3> QED BY <1>1, <2>2, <3>1, <3>5, <3>6, <3>7, ClickRearranges
  <2>4. CASE ~(Has(ws, ws.active) /\ Active(ws).turns = <<>>)
    <3>1. Opens(agent)
      BY <2>1, <2>4 DEF setSelectedAgent
    <3> QED BY <1>1, <2>2, <3>1, OpensRearranges DEF Opens, Click
  <2> QED BY <2>3, <2>4
<1>8. CASE \E c \in 1..MaxConvs : selectConversation(c)
  <2>1. PICK c \in 1..MaxConvs : selectConversation(c)
    BY <1>8
  <2>2. /\ ws' = IF Has(ws, c) THEN [ws EXCEPT !.active = c] ELSE ws
        /\ shown' = ws' /\ convs' = convs
        /\ UNCHANGED <<controllers, mounted, asked, wire>>
    BY <2>1 DEF selectConversation, Click
  <2>3. c \in Nat
    BY ChatAssumption
  <2>4. IsWorkspace(ws', convs) /\ ws'.convs = ws.convs
    <3>1. CASE Has(ws, c)
      BY <1>1, <2>2, <2>3, <3>1, Marked
    <3>2. CASE ~Has(ws, c)
      BY <1>1, <2>2, <3>2
    <3> QED BY <3>1, <3>2
  <2> QED BY <1>1, <2>2, <2>4, ClickRearranges
<1> QED BY <1>2, <1>3, <1>4, <1>5, <1>6, <1>7, <1>8

\* The turns of a conversation that is not touched stay well.
LEMMA TurnsKept ==
  ASSUME NEW c, NEW agent, NEW turns, TurnsOK(c, agent, turns),
         UNCHANGED <<controllers, mounted, asked, wire>>
  PROVE  TurnsOK(c, agent, turns)'
<1>1. \A turn : TurnOf(c, agent, turn) => TurnOf(c, agent, turn)'
  BY DEF TurnOf, Tells, Ending, Turns
<1> QED BY <1>1 DEF TurnsOK

\* Rearranging preserves the invariant.
LEMMA RearrangingKeeps ==
  ASSUME ChatInv, Rearranges
  PROVE  ChatInv'
<1> USE DEF ChatInv
<1>1. UNCHANGED <<controllers, mounted, asked, wire>>
  BY DEF Rearranges
<1>2. /\ convs \in Nat /\ convs' \in Nat /\ 1..convs \subseteq 1..convs'
      /\ IsWorkspace(ws, convs) /\ IsWorkspace(shown, convs)
  BY DEF TypesOK, WorkTypes, Rearranges
<1>3. TypesOK'
  <2>1. WorkTypes'
    BY DEF Rearranges, WorkTypes
  <2>2. TurnTypes'
    BY <1>1 DEF TypesOK, TurnTypes, Turns
  <2>3. OwnerTypes'
    BY <1>1, <1>2 DEF TypesOK, OwnerTypes, Turns
  <2> QED BY <2>1, <2>2, <2>3 DEF TypesOK
<1>4. ConvsOK'
  <2>1. SUFFICES ASSUME NEW c \in DOMAIN ws'.convs PROVE ConvOK(c)'
    BY DEF ConvsOK
  <2>2. CASE ws'.convs[c].turns = <<>>
    <3>1. Len(ws'.convs[c].turns) = 0 /\ 1..0 = {}
      BY <2>2
    <3> QED BY <3>1 DEF ConvOK, TurnsOK
  <2>3. CASE ws'.convs[c].turns # <<>>
    <3>1. c \in DOMAIN ws.convs /\ ws'.convs[c].turns = ws.convs[c].turns /\ ws'.convs[c].agent = ws.convs[c].agent
      BY <2>3 DEF Rearranges
    <3>2. ConvOK(c)
      BY <3>1 DEF ConvsOK
    <3>3. PICK a, ts : a = ws.convs[c].agent /\ ts = ws.convs[c].turns
      OBVIOUS
    <3>4. TurnsOK(c, a, ts)
      BY <3>2, <3>3 DEF ConvOK
    <3>5. TurnsOK(c, a, ts)'
      BY <1>1, <3>4, TurnsKept
    <3>6. ws'.convs[c].agent = a /\ ws'.convs[c].turns = ts
      BY <3>1, <3>3
    <3> QED BY <3>5, <3>6 DEF ConvOK, TurnsOK
  <2> QED BY <2>2, <2>3
<1>5. OwnersOK'
  <2>1. SUFFICES ASSUME NEW c \in DOMAIN controllers PROVE OwnerOK(c)'
    BY <1>1 DEF OwnersOK
  <2>2. OwnerOK(c) /\ c \in 1..convs
    BY DEF OwnersOK, TypesOK, OwnerTypes
  <2>3. c \in DOMAIN ws'.convs => c \in DOMAIN ws.convs /\ ws'.convs[c].turns = ws.convs[c].turns
    BY <2>2 DEF Rearranges
  <2> QED BY <1>1, <2>2, <2>3 DEF OwnerOK
<1>6. ShownOK'
  <2>1. SUFFICES ASSUME NEW c \in DOMAIN shown'.convs PROVE ConvShown(c)'
    BY DEF ShownOK
  <2>2. CASE shown' = ws'
    <3>1. ConvOK(c)'
      BY <1>4, <2>2 DEF ConvsOK
    <3> QED BY <2>2, <3>1 DEF ConvShown, ConvOK, TurnsOK
  <2>3. CASE shown' = shown /\ shown' # ws'
    <3>1. ConvShown(c) /\ c \in 1..convs
      BY <1>2, <2>3, ConvType DEF ShownOK
    <3>2. \A d \in DOMAIN ws'.convs : d \in 1..convs =>
             d \in DOMAIN ws.convs /\ ws'.convs[d] = ws.convs[d]
      BY <2>3 DEF Rearranges
    <3>3. shown'.convs[c].turns # <<>> => c \in DOMAIN ws'.convs
      <4> SUFFICES ASSUME shown.convs[c].turns # <<>> PROVE c \in DOMAIN ws'.convs
        BY <2>3
      <4>1. c \in DOMAIN ws.convs /\ Len(shown.convs[c].turns) = Len(ws.convs[c].turns)
        BY <3>1 DEF ConvShown
      <4>2. Len(shown.convs[c].turns) # 0
        BY <1>2, <2>3, ConvType
      <4>3. ws.convs[c].turns # <<>>
        BY <4>1, <4>2, EmptySeq
      <4> QED BY <4>1, <4>3 DEF Rearranges
    <3> QED BY <2>3, <3>1, <3>2, <3>3 DEF ConvShown
  <2> QED BY <2>2, <2>3 DEF Rearranges
<1>7. WireOK'
  BY <1>1 DEF WireOK, Turns
<1>8. ResumeOK'
  BY <1>1 DEF ResumeOK, Turns, Ending, isCurrent
<1> QED BY <1>3, <1>4, <1>5, <1>6, <1>7, <1>8

\* Rearranging touches no turn.
LEMMA RearrangingEnds ==
  ASSUME ChatInv, Rearranges, NEW c \in DOMAIN ws.convs, NEW i \in DOMAIN ws.convs[c].turns
  PROVE  /\ c \in DOMAIN ws'.convs
         /\ i \in DOMAIN ws'.convs[c].turns /\ ws'.convs[c].turns[i] = ws.convs[c].turns[i]
<1>1. convs \in Nat /\ IsWorkspace(ws, convs)
  BY DEF ChatInv, TypesOK, WorkTypes
<1>2. ws.convs[c].turns # <<>> /\ c \in 1..convs
  BY <1>1, ConvType
<1>3. c \in DOMAIN ws'.convs
  BY <1>2 DEF Rearranges
<1>4. ws'.convs[c].turns = ws.convs[c].turns
  BY <1>2, <1>3 DEF Rearranges
<1> QED BY <1>3, <1>4

-----------------------------------------------------------------------------
(* The steps that leave conversations and what was said alone.             *)

Quiet ==
  /\ UNCHANGED <<ws, shown, asked, convs>>
  /\ wire' \in [Turns -> Responses] /\ \A t \in Turns : wire'[t].said = wire[t].said
  /\ WireOK'
  /\ UNCHANGED <<controllers, mounted>> \/ (controllers' = <<>> /\ mounted' = FALSE)

\* A quiet step preserves the invariant.
LEMMA QuietKeeps ==
  ASSUME ChatInv, Quiet
  PROVE  ChatInv'
<1> USE DEF ChatInv
<1>1. /\ UNCHANGED <<ws, shown, asked, convs>>
      /\ wire' \in [Turns -> Responses] /\ \A t \in Turns : wire'[t].said = wire[t].said
      /\ Turns' = Turns
      /\ UNCHANGED <<controllers, mounted>> \/ (controllers' = <<>> /\ mounted' = FALSE)
      /\ DOMAIN controllers' \subseteq DOMAIN controllers
      /\ \A c \in DOMAIN controllers' : controllers'[c] = controllers[c]
  BY EmptySeq DEF Quiet, Turns
<1>2. TypesOK'
  <2>1. WorkTypes'
    BY <1>1 DEF TypesOK, WorkTypes, IsWorkspace
  <2>2. TurnTypes'
    BY <1>1 DEF TypesOK, TurnTypes
  <2>3. OwnerTypes'
    <3>1. CASE UNCHANGED <<controllers, mounted>>
      BY <1>1, <3>1 DEF TypesOK, OwnerTypes
    <3>2. CASE controllers' = <<>> /\ mounted' = FALSE
      <4>1. DOMAIN <<>> = {} /\ <<>> \in [{} -> Turns]
        OBVIOUS
      <4> QED BY <1>1, <3>2, <4>1 DEF TypesOK, OwnerTypes
    <3> QED BY <1>1, <3>1, <3>2
  <2> QED BY <2>1, <2>2, <2>3 DEF TypesOK
<1>3. ConvsOK'
  <2>1. SUFFICES ASSUME NEW c \in DOMAIN ws.convs PROVE ConvOK(c)'
    BY <1>1 DEF ConvsOK
  <2>2. PICK a, ts : a = ws.convs[c].agent /\ ts = ws.convs[c].turns
    OBVIOUS
  <2>3. TurnsOK(c, a, ts)
    BY <2>2 DEF ConvsOK, ConvOK
  <2>4. \A turn : TurnOf(c, a, turn) => TurnOf(c, a, turn)'
    BY <1>1 DEF TurnOf, Tells, Ending
  <2>5. ws'.convs[c].agent = a /\ ws'.convs[c].turns = ts
    BY <1>1, <2>2
  <2>6. TurnsOK(c, a, ts)'
    BY <1>1, <2>3, <2>4 DEF TurnsOK
  <2> QED BY <2>5, <2>6 DEF ConvOK, TurnsOK
<1>4. OwnersOK'
  <2>1. SUFFICES ASSUME NEW c \in DOMAIN controllers' PROVE OwnerOK(c)'
    BY DEF OwnersOK
  <2>2. OwnerOK(c)
    BY <1>1 DEF OwnersOK
  <2> QED BY <1>1, <2>2 DEF OwnerOK
<1>5. ShownOK'
  BY <1>1 DEF ShownOK, ConvShown
<1>6. WireOK'
  BY DEF Quiet
<1>7. ResumeOK'
  BY <1>1 DEF ResumeOK, Ending, isCurrent
<1> QED BY <1>2, <1>3, <1>4, <1>5, <1>6, <1>7

Rephased(r, p, x) == [r EXCEPT !.phase = p, !.chunks = x]

\* A response with a new phase and chunks is one.
LEMMA PhaseSet ==
  ASSUME NEW w \in Responses, NEW p \in Phases,
         NEW x \in Seq(Envelopes), NEW r, r = Rephased(w, p, x)
  PROVE  r \in Responses /\ r.phase = p /\ r.said = w.said /\ r.chunks = x
<1>1. w.chunks \in Seq(Envelopes) /\ w.said \in Seq(Envelopes)
  BY DEF Responses
<1>2. PICK ph, q, y : w = [phase |-> ph, chunks |-> q, said |-> y]
  BY DEF Responses
<1>3. q \in Seq(Envelopes) /\ y \in Seq(Envelopes) /\ w.chunks = q /\ w.said = y
  BY <1>1, <1>2
<1>4. r = [phase |-> p, chunks |-> x, said |-> y]
  BY <1>2 DEF Rephased
<1> QED BY <1>3, <1>4 DEF Responses

\* Only the response of t changes.
LEMMA Response ==
  ASSUME ChatInv, NEW t \in Turns, NEW r \in Responses, wire' = [wire EXCEPT ![t] = r],
         asked' = asked,
         r.phase \in {"asked", "refused"} => r.said = <<>> /\ r.chunks = <<>>
  PROVE  /\ wire' \in [Turns -> Responses] /\ wire'[t] = r
         /\ \A u \in Turns : u # t => wire'[u] = wire[u]
         /\ WireOK'
<1>1. wire \in [Turns -> Responses] /\ WireOK
  BY DEF ChatInv, TypesOK, TurnTypes
<1>2. wire' \in [Turns -> Responses] /\ wire'[t] = r /\ \A u \in Turns : u # t => wire'[u] = wire[u]
  BY <1>1
<1>3. WireOK'
  BY <1>1, <1>2 DEF WireOK, Turns
<1> QED BY <1>2, <1>3

\* A response that nobody reads any more is none of the workspace's business.
LEMMA GoneIsQuiet ==
  ASSUME ChatInv, NEW t \in Turns, wire' = [wire EXCEPT ![t].phase = "gone"],
         UNCHANGED <<ws, shown, asked, convs, controllers, mounted>>
  PROVE  Quiet
<1>1. wire[t] \in Responses
  BY DEF ChatInv, TypesOK, TurnTypes
<1>2. PICK r : r = [wire[t] EXCEPT !.phase = "gone"]
  OBVIOUS
<1>3. r \in Responses /\ r.phase = "gone" /\ r.said = wire[t].said
  BY <1>1, <1>2 DEF Responses, Phases
<1>4. wire' = [wire EXCEPT ![t] = r]
  BY <1>2
<1>5. /\ wire' \in [Turns -> Responses] /\ wire'[t] = r
      /\ \A u \in Turns : u # t => wire'[u] = wire[u]
      /\ WireOK'
  BY <1>3, <1>4, Response
<1>6. \A u \in Turns : wire'[u].said = wire[u].said
  BY <1>3, <1>5
<1> QED BY <1>5, <1>6 DEF Quiet

\* What the daemon puts on the wire does not touch the workspace.
LEMMA PutIsQuiet ==
  ASSUME ChatInv, NEW t \in Turns, NEW p \in {"open", "ended", "refused", "broken"},
         NEW more \in Seq(Envelopes), Put(t, p, more), p = "refused" => more = <<>>,
         p = "refused" => wire[t].phase = "asked",
         UNCHANGED <<ws, shown, asked, convs, controllers, mounted>>
  PROVE  Quiet
<1>1. wire[t] \in Responses /\ WireOK
  BY DEF ChatInv, TypesOK, TurnTypes
<1>2. wire[t].chunks \in Seq(Envelopes)
  BY <1>1 DEF Responses
<1>3. PICK x : x = wire[t].chunks \o more
  OBVIOUS
<1>4. x \in Seq(Envelopes)
  BY <1>2, <1>3
<1>5. PICK r : r = Rephased(wire[t], p, x)
  OBVIOUS
<1>6. r \in Responses /\ r.phase = p /\ r.said = wire[t].said /\ r.chunks = x
  <2>1. p \in Phases
    BY DEF Phases
  <2>2. PICK w \in Responses : w = wire[t]
    BY <1>1
  <2>3. r = Rephased(w, p, x)
    BY <1>5, <2>2
  <2>4. r \in Responses /\ r.phase = p /\ r.said = w.said /\ r.chunks = x
    BY <1>4, <2>1, <2>3, PhaseSet
  <2> QED BY <2>2, <2>4
<1>7. wire' = [wire EXCEPT ![t] = r]
  <2>1. wire' = [wire EXCEPT ![t] = [wire[t] EXCEPT !.phase = p, !.chunks = wire[t].chunks \o more]]
    BY <1>1 DEF Put, Responses
  <2> QED BY <1>3, <1>5, <2>1 DEF Rephased
<1>8. p = "refused" => r.said = <<>> /\ r.chunks = <<>>
  <2> SUFFICES ASSUME p = "refused" PROVE r.said = <<>> /\ r.chunks = <<>>
    OBVIOUS
  <2>1. wire[t].said = <<>> /\ wire[t].chunks = <<>> /\ more = <<>>
    BY <1>1 DEF WireOK
  <2>2. <<>> \o <<>> = <<>>
    OBVIOUS
  <2> QED BY <1>3, <1>6, <2>1, <2>2
<1>9. /\ wire' \in [Turns -> Responses] /\ wire'[t] = r
      /\ \A u \in Turns : u # t => wire'[u] = wire[u]
      /\ WireOK'
  BY <1>6, <1>7, <1>8, Response
<1>10. \A u \in Turns : wire'[u].said = wire[u].said
  BY <1>6, <1>9
<1> QED BY <1>9, <1>10 DEF Quiet

\* Neither does its response.
LEMMA RespondIsQuiet ==
  ASSUME ChatInv, NEW t \in Turns, Respond(t)
  PROVE  Quiet
<1>1. UNCHANGED <<ws, shown, asked, convs, controllers, mounted>>
  BY DEF Respond
<1>2. /\ <<>> \in Seq(Envelopes) /\ <<Text>> \in Seq(Envelopes)
      /\ \A s \in Terminals, named \in BOOLEAN : <<[status |-> s, named |-> named]>> \in Seq(Envelopes)
  <2>1. Text \in Envelopes
    BY DEF Text, Envelopes
  <2>2. \A s \in Terminals, named \in BOOLEAN : [status |-> s, named |-> named] \in Envelopes
    BY ChatAssumption DEF Envelopes
  <2> HIDE DEF Text
  <2> QED BY <2>1, <2>2, EmptySeq
<1>3. CASE wire[t].phase = "asked" /\ \E phase \in {"open", "refused", "broken"} : Put(t, phase, <<>>)
  BY <1>1, <1>2, <1>3, PutIsQuiet
<1>4. CASE Put(t, "open", <<Text>>) \/ Put(t, "ended", <<>>) \/ Put(t, "broken", <<>>)
  BY <1>1, <1>2, <1>4, PutIsQuiet
<1>5. CASE \E s \in Terminals, named \in BOOLEAN : Put(t, "ended", <<[status |-> s, named |-> named]>>)
  BY <1>1, <1>2, <1>5, PutIsQuiet
<1> QED BY <1>3, <1>4, <1>5 DEF Respond

\* Nor does unmounting.
LEMMA UnmountIsQuiet ==
  ASSUME ChatInv, Unmount
  PROVE  Quiet
<1>1. /\ UNCHANGED <<ws, shown, asked, convs>> /\ controllers' = <<>> /\ mounted' = FALSE
      /\ wire' = [t \in Turns |-> [wire[t] EXCEPT !.phase = "gone"]]
      /\ Turns' = Turns
  BY DEF Unmount, Turns
<1>2. ASSUME NEW t \in Turns
      PROVE  /\ [wire[t] EXCEPT !.phase = "gone"] \in Responses
             /\ wire'[t].phase = "gone" /\ wire'[t].said = wire[t].said
  <2>1. wire[t] \in Responses
    BY DEF ChatInv, TypesOK, TurnTypes
  <2> QED BY <1>1, <2>1 DEF Responses, Phases
<1>3. wire' \in [Turns -> Responses]
  BY <1>1, <1>2
<1>4. WireOK'
  BY <1>1, <1>2 DEF WireOK
<1> QED BY <1>1, <1>2, <1>3, <1>4 DEF Quiet

\* A quiet step touches no turn.
LEMMA QuietEnds ==
  ASSUME Quiet, NEW c \in DOMAIN ws.convs, NEW i \in DOMAIN ws.convs[c].turns
  PROVE  /\ c \in DOMAIN ws'.convs
         /\ i \in DOMAIN ws'.convs[c].turns /\ ws'.convs[c].turns[i] = ws.convs[c].turns[i]
BY DEF Quiet

-----------------------------------------------------------------------------
(* A conversation's own stream moves its turn, the last, and nothing else. *)

Moves(c) ==
  /\ c \in DOMAIN controllers
  /\ UNCHANGED <<mounted, asked, convs>>
  /\ wire' \in [Turns -> Responses]
  /\ \A u \in Turns : u # controllers[c] => wire'[u] = wire[u]
  /\ WireOK'
  /\ controllers' = controllers \/ controllers' = Without(controllers, c)
  /\ Has(ws, c) =>
       \E new \in TurnRecs :
         /\ ws' = WithTurns(ws, c, [ws.convs[c].turns EXCEPT ![Len(ws.convs[c].turns)] = new])
         /\ new.id = controllers[c] /\ new.given = wire'[new.id].said /\ Tells(new)'
         /\ new.status = "streaming" <=> controllers' = controllers
  /\ ~Has(ws, c) => ws' = ws
  /\ shown' = ws' \/ shown' = shown

\* The turn that owns a conversation is its last.
LEMMA OwnTurn ==
  ASSUME ChatInv, NEW c \in DOMAIN controllers
  PROVE  /\ controllers[c] \in Turns /\ asked[controllers[c]].conv = c /\ isCurrent(controllers[c])
         /\ mounted = TRUE
         /\ Has(ws, c) =>
              LET ts == ws.convs[c].turns
                  n  == Len(ts)
              IN /\ ts \in Seq(TurnRecs) /\ n \in Nat /\ n \in 1..n /\ ts[n] \in TurnRecs
                 /\ DOMAIN ts = 1..n
                 /\ ts[n].id = controllers[c] /\ ts[n].status = "streaming"
                 /\ TurnOf(c, ws.convs[c].agent, ts[n])
                 /\ \A i \in 1..n : i # n => ts[i].id # controllers[c] /\ ts[i].status # "streaming"
<1>1. /\ controllers[c] \in Turns /\ OwnerOK(c)
      /\ convs \in Nat /\ IsWorkspace(ws, convs) /\ mounted = TRUE
  BY DEF ChatInv, TypesOK, OwnerTypes, WorkTypes, OwnersOK
<1>2. asked[controllers[c]].conv = c /\ isCurrent(controllers[c])
  BY <1>1 DEF OwnerOK, isCurrent
<1>3. ASSUME Has(ws, c)
      PROVE  LET ts == ws.convs[c].turns
                 n  == Len(ts)
             IN /\ ts \in Seq(TurnRecs) /\ n \in Nat /\ n \in 1..n /\ ts[n] \in TurnRecs
                /\ DOMAIN ts = 1..n
                /\ ts[n].id = controllers[c] /\ ts[n].status = "streaming"
                /\ TurnOf(c, ws.convs[c].agent, ts[n])
                /\ \A i \in 1..n : i # n => ts[i].id # controllers[c] /\ ts[i].status # "streaming"
  <2>1. c \in DOMAIN ws.convs
    BY <1>3 DEF Has
  <2>2. PICK ts, a : ts = ws.convs[c].turns /\ a = ws.convs[c].agent
    OBVIOUS
  <2>3. ts # <<>> /\ ts[Len(ts)].id = controllers[c] /\ ts[Len(ts)].status = "streaming"
    BY <1>1, <2>1, <2>2 DEF OwnerOK, Last
  <2>4. /\ ts \in Seq(TurnRecs) /\ Len(ts) \in Nat /\ Len(ts) \in 1..Len(ts)
        /\ DOMAIN ts = 1..Len(ts)
        /\ \A i \in 1..Len(ts) : ts[i] \in TurnRecs
    BY <1>1, <2>1, <2>2, <2>3, ConvType
  <2>5. TurnsOK(c, a, ts)
    BY <2>1, <2>2 DEF ChatInv, ConvsOK, ConvOK
  <2>6. ASSUME NEW i \in 1..Len(ts), i # Len(ts)
        PROVE  ts[i].id # controllers[c] /\ ts[i].status # "streaming"
    <3>1. i < Len(ts)
      <4>1. Len(ts) \in Nat
        BY <2>4
      <4> QED BY <2>6, <4>1
    <3>2. ts[i].id < ts[Len(ts)].id /\ ts[i].id \in Nat /\ ts[Len(ts)].id \in Nat
      BY <2>4, <2>5, <3>1 DEF TurnsOK, TurnRecs
    <3>3. ts[i].status # "streaming"
      BY <2>5, <2>6 DEF TurnsOK
    <3> QED BY <2>3, <3>2, <3>3
  <2>7. TurnOf(c, a, ts[Len(ts)])
    BY <2>4, <2>5 DEF TurnsOK
  <2> QED BY <2>2, <2>3, <2>4, <2>6, <2>7
<1> QED BY <1>1, <1>2, <1>3

\* What SetTurn gives a conversation whose owner is t.
LEMMA SetIs ==
  ASSUME NEW ts \in Seq(TurnRecs), NEW n, n = Len(ts), n \in 1..n, NEW t, NEW new \in TurnRecs,
         ts[n].id = t, \A i \in 1..n : i # n => ts[i].id # t,
         NEW ts2, DOMAIN ts2 = DOMAIN ts, ts2 = [i \in DOMAIN ts2 |-> ts2[i]],
         \A i \in DOMAIN ts : ts2[i] = IF ts[i].id = t THEN new ELSE ts[i]
  PROVE  ts2 = [ts EXCEPT ![Len(ts)] = new]
<1>1. DOMAIN ts = 1..n
  OBVIOUS
<1>2. \A i \in 1..n : ts2[i] = IF i = n THEN new ELSE ts[i]
  BY <1>1
<1>3. PICK u : u = [ts EXCEPT ![n] = new]
  OBVIOUS
<1>4. u = [i \in DOMAIN ts |-> IF i = n THEN new ELSE ts[i]]
  BY <1>3
<1>5. ts2 = [i \in DOMAIN ts |-> IF i = n THEN new ELSE ts[i]]
  BY <1>1, <1>2
<1> QED BY <1>3, <1>4, <1>5

\* Moving a stream along preserves the invariant.
LEMMA MovesKeep ==
  ASSUME ChatInv, NEW c, Moves(c)
  PROVE  ChatInv'
<1> DEFINE t == controllers[c]
           old == ws.convs[c].turns
<1>1. /\ c \in DOMAIN controllers /\ UNCHANGED <<mounted, asked, convs>> /\ Turns' = Turns
      /\ wire' \in [Turns -> Responses] /\ \A u \in Turns : u # t => wire'[u] = wire[u]
      /\ controllers' = controllers \/ controllers' = Without(controllers, c)
      /\ shown' = ws' \/ shown' = shown
  BY DEF Moves, Turns
<1>2. /\ convs \in Nat /\ IsWorkspace(ws, convs) /\ IsWorkspace(shown, convs)
      /\ controllers \in [DOMAIN controllers -> Turns] /\ DOMAIN controllers \subseteq 1..convs
  BY DEF ChatInv, TypesOK, WorkTypes, OwnerTypes
<1>3. /\ t \in Turns /\ asked[t].conv = c /\ isCurrent(t) /\ mounted = TRUE
      /\ Has(ws, c) =>
           /\ old \in Seq(TurnRecs) /\ Len(old) \in Nat /\ Len(old) \in 1..Len(old)
           /\ old[Len(old)] \in TurnRecs
           /\ old[Len(old)].id = t /\ old[Len(old)].status = "streaming"
           /\ TurnOf(c, ws.convs[c].agent, old[Len(old)])
           /\ \A i \in 1..Len(old) : i # Len(old) => old[i].id # t /\ old[i].status # "streaming"
  BY <1>1, OwnTurn
<1>4. /\ DOMAIN controllers' \subseteq DOMAIN controllers
      /\ \A d \in DOMAIN controllers' : controllers'[d] = controllers[d]
      /\ \A d \in DOMAIN controllers : d # c => d \in DOMAIN controllers'
      /\ controllers' # controllers => c \notin DOMAIN controllers'
      /\ controllers' \in [DOMAIN controllers' -> Turns]
  <2>1. CASE controllers' = controllers
    BY <1>2, <2>1
  <2>2. CASE controllers' = Without(controllers, c)
    BY <1>2, <2>2 DEF Without
  <2> QED BY <1>1, <2>1, <2>2
<1>5. /\ IsWorkspace(ws', convs) /\ DOMAIN ws'.convs = DOMAIN ws.convs
      /\ \A d \in DOMAIN ws.convs : d # c => ws'.convs[d] = ws.convs[d]
      /\ Has(ws, c) =>
           /\ ws'.convs[c].agent = ws.convs[c].agent
           /\ \E new \in TurnRecs :
                /\ ws'.convs[c].turns = [old EXCEPT ![Len(old)] = new]
                /\ new.id = t /\ new.given = wire'[new.id].said /\ Tells(new)'
                /\ new.status = "streaming" <=> controllers' = controllers
  <2>1. CASE ~Has(ws, c)
    <3>1. ws' = ws
      BY <2>1 DEF Moves
    <3> QED BY <1>2, <2>1, <3>1 DEF Has
  <2>2. CASE Has(ws, c)
    <3>1. PICK new \in TurnRecs :
             /\ ws' = WithTurns(ws, c, [old EXCEPT ![Len(old)] = new])
             /\ new.id = t /\ new.given = wire'[new.id].said /\ Tells(new)'
             /\ new.status = "streaming" <=> controllers' = controllers
      BY <2>2 DEF Moves
    <3>2. PICK ts : ts = [old EXCEPT ![Len(old)] = new]
      OBVIOUS
    <3>3. ts \in Seq(TurnRecs)
      BY <1>3, <2>2, <3>2
    <3>4. PICK v : v = WithTurns(ws, c, ts)
      OBVIOUS
    <3>5. c \in DOMAIN ws.convs
      BY <2>2 DEF Has
    <3>6. /\ IsWorkspace(v, convs) /\ DOMAIN v.convs = DOMAIN ws.convs
          /\ v.convs[c].turns = ts /\ v.convs[c].agent = ws.convs[c].agent
          /\ \A d \in DOMAIN ws.convs : d # c => v.convs[d] = ws.convs[d]
      BY <1>2, <3>3, <3>4, <3>5, TurnsSet
    <3>7. ws' = v
      BY <3>1, <3>2, <3>4
    <3> HIDE DEF old, t
    <3> QED BY <3>1, <3>2, <3>6, <3>7
  <2> QED BY <2>1, <2>2
<1> HIDE DEF t, old
<1>6. TypesOK'
  <2>1. WorkTypes'
    BY <1>1, <1>2, <1>5 DEF WorkTypes, IsWorkspace
  <2>2. TurnTypes'
    BY <1>1 DEF ChatInv, TypesOK, TurnTypes
  <2>3. OwnerTypes'
    BY <1>1, <1>2, <1>3, <1>4 DEF OwnerTypes
  <2> QED BY <2>1, <2>2, <2>3 DEF TypesOK
<1>7. ASSUME Has(ws, c)
      PROVE  ConvOK(c)'
  <2>1. PICK new \in TurnRecs :
           /\ ws'.convs[c].turns = [old EXCEPT ![Len(old)] = new]
           /\ new.id = t /\ new.given = wire'[new.id].said /\ Tells(new)'
           /\ new.status = "streaming" <=> controllers' = controllers
    BY <1>5, <1>7
  <2>2. PICK ts, a, n : ts = ws'.convs[c].turns /\ a = ws.convs[c].agent /\ n = Len(old)
    OBVIOUS
  <2>3. /\ Len(ts) = n /\ n \in 1..n /\ n \in Nat /\ ts[n] = new /\ old[n].id = t
        /\ \A i \in 1..n : i # n => ts[i] = old[i] /\ old[i].id # t /\ old[i].status # "streaming"
    BY <1>3, <1>7, <2>1, <2>2
  <2>4. c \in DOMAIN ws.convs /\ TurnsOK(c, a, old)
    BY <1>7, <2>2 DEF ChatInv, ConvsOK, ConvOK, Has, old
  <2>5. ASSUME NEW i \in 1..n, i # n
        PROVE  TurnOf(c, a, ts[i])'
    <3>1. TurnOf(c, a, old[i]) /\ ts[i] = old[i] /\ old[i].id # t
      BY <2>2, <2>3, <2>4, <2>5 DEF TurnsOK
    <3>2. old[i].id \in Turns
      BY <3>1 DEF TurnOf
    <3>3. wire'[old[i].id] = wire[old[i].id]
      BY <1>1, <3>1, <3>2
    <3>4. PICK turn : turn = old[i] /\ turn = ts[i]
      BY <3>1
    <3>5. TurnOf(c, a, turn)'
      BY <1>1, <3>1, <3>3, <3>4 DEF TurnOf, Tells, Ending
    <3> QED BY <3>4, <3>5
  <2>6. TurnOf(c, a, new)'
    <3>1. asked[t].agent = a
      BY <1>3, <1>7, <2>2 DEF TurnOf
    <3> QED BY <1>1, <1>3, <2>1, <3>1 DEF TurnOf
  <2>7. ASSUME NEW i \in 1..n, NEW j \in 1..n, i < j
        PROVE  ts[i].id < ts[j].id
    <3>1. old[i].id < old[j].id /\ i # n
      BY <2>2, <2>3, <2>4, <2>7 DEF TurnsOK
    <3>2. ts[i] = old[i] /\ ts[j].id = old[j].id
      BY <2>1, <2>3, <3>1
    <3> QED BY <3>1, <3>2
  <2>8. ASSUME NEW i \in 1..n, ts[i].status = "streaming"
        PROVE  i = n /\ controllers'[c] = ts[i].id /\ c \in DOMAIN controllers'
    <3>1. i = n
      BY <2>3, <2>8
    <3>2. controllers' = controllers
      BY <2>1, <2>3, <2>8, <3>1
    <3> QED BY <1>1, <2>1, <2>3, <3>1, <3>2 DEF t
  <2>9. \A i \in 1..n : TurnOf(c, a, ts[i])'
    BY <2>3, <2>5, <2>6
  <2>10. TurnsOK(c, a, ts)'
    BY <2>3, <2>7, <2>8, <2>9 DEF TurnsOK
  <2>11. ws'.convs[c].agent = a /\ ws'.convs[c].turns = ts
    BY <1>5, <1>7, <2>2
  <2> QED BY <2>10, <2>11 DEF ConvOK, TurnsOK
<1>8. ASSUME NEW d \in DOMAIN ws.convs, d # c
      PROVE  ConvOK(d)'
  <2>1. PICK ts, a : ts = ws.convs[d].turns /\ a = ws.convs[d].agent
    OBVIOUS
  <2>2. TurnsOK(d, a, ts)
    BY <2>1 DEF ChatInv, ConvsOK, ConvOK
  <2>3. ASSUME NEW turn, TurnOf(d, a, turn)
        PROVE  TurnOf(d, a, turn)'
    <3>1. turn.id \in Turns /\ turn.id # t
      BY <1>3, <1>8, <2>3 DEF TurnOf
    <3>2. wire'[turn.id] = wire[turn.id]
      BY <1>1, <3>1
    <3> QED BY <1>1, <2>3, <3>2 DEF TurnOf, Tells, Ending
  <2>4. d \in DOMAIN controllers => d \in DOMAIN controllers' /\ controllers'[d] = controllers[d]
    BY <1>4, <1>8
  <2>5. TurnsOK(d, a, ts)'
    BY <1>1, <2>2, <2>3, <2>4 DEF TurnsOK
  <2>6. ws'.convs[d].agent = a /\ ws'.convs[d].turns = ts
    BY <1>5, <1>8, <2>1
  <2> QED BY <2>5, <2>6 DEF ConvOK, TurnsOK
<1>9. ConvsOK'
  BY <1>5, <1>7, <1>8 DEF ConvsOK, Has
<1>10. OwnersOK'
  <2>1. SUFFICES ASSUME NEW d \in DOMAIN controllers' PROVE OwnerOK(d)'
    BY DEF OwnersOK
  <2>2. OwnerOK(d) /\ d \in DOMAIN controllers /\ controllers'[d] = controllers[d]
    BY <1>4 DEF ChatInv, OwnersOK
  <2>3. CASE d # c
    BY <1>1, <1>5, <2>2, <2>3 DEF OwnerOK
  <2>4. CASE d = c
    <3>1. controllers' = controllers
      BY <1>4, <2>4
    <3>2. ASSUME Has(ws, c)
          PROVE  LET ts == ws'.convs[c].turns
                 IN ts # <<>> /\ Last(ts).id = t /\ Last(ts).status = "streaming"
      <4>1. PICK new \in TurnRecs :
               /\ ws'.convs[c].turns = [old EXCEPT ![Len(old)] = new]
               /\ new.id = t /\ new.status = "streaming"
        BY <1>5, <3>1, <3>2
      <4>2. PICK ts : ts = [old EXCEPT ![Len(old)] = new]
        OBVIOUS
      <4>3. ts \in Seq(TurnRecs) /\ Len(ts) = Len(old) /\ Len(old) # 0 /\ ts[Len(old)] = new
        BY <1>3, <3>2, <4>2
      <4>4. ts # <<>>
        BY <4>3, EmptySeq
      <4> QED BY <4>1, <4>2, <4>3, <4>4 DEF Last
    <3> QED BY <1>1, <1>3, <1>5, <2>2, <2>4, <3>2 DEF OwnerOK, Has, t
  <2> QED BY <2>3, <2>4
<1>11. ShownOK'
  <2>1. SUFFICES ASSUME NEW d \in DOMAIN shown'.convs PROVE ConvShown(d)'
    BY DEF ShownOK
  <2>2. CASE shown' = ws'
    <3>1. ConvOK(d)'
      BY <1>9, <2>2 DEF ConvsOK
    <3> QED BY <2>2, <3>1 DEF ConvShown, ConvOK, TurnsOK
  <2>3. CASE shown' = shown
    <3>1. ConvShown(d)
      BY <2>3 DEF ChatInv, ShownOK
    <3>2. CASE d # c
      BY <1>5, <2>3, <3>1, <3>2 DEF ConvShown
    <3>3. CASE ~Has(ws, c)
      <4>1. ws' = ws
        BY <3>3 DEF Moves
      <4> QED BY <2>3, <3>1, <4>1 DEF ConvShown
    <3>4. CASE d = c /\ Has(ws, c)
      <4>1. PICK new \in TurnRecs : ws'.convs[c].turns = [old EXCEPT ![Len(old)] = new] /\ new.id = t
        BY <1>5, <3>4
      <4>2. PICK ts, seen, n : ts = ws'.convs[c].turns /\ seen = shown.convs[c].turns /\ n = Len(old)
        OBVIOUS
      <4>3. /\ Len(ts) = n /\ n \in 1..n /\ n \in Nat /\ ts[n].id = t /\ old[n].id = t
            /\ old[n].status = "streaming"
            /\ \A i \in 1..n : i # n => ts[i] = old[i]
        BY <1>3, <3>4, <4>1, <4>2
      <4>4. /\ Len(seen) = n /\ shown.convs[c].agent = ws.convs[c].agent /\ c \in DOMAIN ws.convs
            /\ \A i \in 1..n : /\ seen[i].id = old[i].id
                               /\ seen[i].status # "streaming" => seen[i] = old[i]
                               /\ seen[i].status = "streaming" => i = n
        BY <3>1, <3>4, <4>2 DEF ConvShown, Has, old
      <4>5. \A i \in 1..n : seen[i].id = ts[i].id /\ (seen[i].status # "streaming" => seen[i] = ts[i])
        BY <4>3, <4>4
      <4>6. shown'.convs[c].turns = seen /\ shown'.convs[c].agent = shown.convs[c].agent
        BY <2>3, <4>2
      <4> QED BY <1>5, <3>4, <4>2, <4>3, <4>4, <4>5, <4>6 DEF ConvShown
    <3> QED BY <3>2, <3>3, <3>4
  <2> QED BY <1>1, <2>2, <2>3
<1>12. WireOK'
  BY DEF Moves
<1>13. ResumeOK'
  <2>1. ASSUME NEW u \in Turns, NEW r, r = asked[u].resume, r # 0
        PROVE  /\ r \in Turns /\ asked[r].agent = asked[u].agent /\ asked[r].conv = asked[u].conv
               /\ (Ending(r).backend # 0)' /\ ~isCurrent(r)'
    <3>1. /\ r \in Turns /\ asked[r].agent = asked[u].agent /\ asked[r].conv = asked[u].conv
          /\ Ending(r).backend # 0 /\ ~isCurrent(r)
      BY <2>1 DEF ChatInv, ResumeOK
    <3>2. wire'[r] = wire[r]
      BY <1>1, <1>3, <3>1
    <3>3. (Ending(r).backend # 0)'
      BY <3>1, <3>2 DEF Ending
    <3>4. ~isCurrent(r)'
      BY <1>1, <1>4, <3>1 DEF isCurrent
    <3> QED BY <3>1, <3>3, <3>4
  <2> QED BY <1>1, <2>1 DEF ResumeOK, Ending, isCurrent
<1> QED BY <1>6, <1>9, <1>10, <1>11, <1>12, <1>13 DEF ChatInv

\* What a move does to the turns of a conversation.
LEMMA MovesEnd ==
  ASSUME ChatInv, NEW c, Moves(c), NEW d \in DOMAIN ws.convs, NEW i \in DOMAIN ws.convs[d].turns,
         ws.convs[d].turns[i].status # "streaming"
  PROVE  /\ d \in DOMAIN ws'.convs
         /\ i \in DOMAIN ws'.convs[d].turns /\ ws'.convs[d].turns[i] = ws.convs[d].turns[i]
<1>1. convs \in Nat /\ IsWorkspace(ws, convs)
  BY DEF ChatInv, TypesOK, WorkTypes
<1>2. CASE ~Has(ws, c)
  BY <1>2 DEF Moves
<1>3. CASE Has(ws, c)
  <2>1. PICK ts : ts = ws.convs[c].turns
    OBVIOUS
  <2>2. /\ ts \in Seq(TurnRecs) /\ Len(ts) \in 1..Len(ts)
        /\ ts[Len(ts)].status = "streaming"
    BY <1>3, <2>1, OwnTurn DEF Moves
  <2>3. PICK new \in TurnRecs : ws' = WithTurns(ws, c, [ts EXCEPT ![Len(ts)] = new])
    BY <1>3, <2>1 DEF Moves
  <2>4. PICK ts2 : ts2 = [ts EXCEPT ![Len(ts)] = new]
    OBVIOUS
  <2>5. /\ ts2 \in Seq(TurnRecs) /\ DOMAIN ts2 = DOMAIN ts
        /\ \A j \in DOMAIN ts : j # Len(ts) => ts2[j] = ts[j]
    BY <2>2, <2>4
  <2>6. PICK v : v = WithTurns(ws, c, ts2)
    OBVIOUS
  <2>7. c \in DOMAIN ws.convs
    BY <1>3 DEF Has
  <2>8. /\ DOMAIN v.convs = DOMAIN ws.convs /\ v.convs[c].turns = ts2
        /\ \A e \in DOMAIN ws.convs : e # c => v.convs[e] = ws.convs[e]
    BY <1>1, <2>5, <2>6, <2>7, TurnsSet
  <2>9. ws' = v
    BY <2>3, <2>4, <2>6
  <2>10. CASE d # c
    BY <2>8, <2>9, <2>10
  <2>11. CASE d = c
    <3>1. i \in DOMAIN ts /\ i # Len(ts)
      BY <2>1, <2>2, <2>11
    <3> QED BY <2>1, <2>5, <2>8, <2>9, <2>11, <3>1
  <2> QED BY <2>10, <2>11
<1> QED BY <1>2, <1>3

\* The turns of a conversation as SetTurn leaves them.
Replaced(ts, t, new) == [i \in DOMAIN ts |-> IF ts[i].id = t THEN new ELSE ts[i]]

\* While a stream owns a conversation its turn is the last one.
LEMMA SetTurnIs ==
  ASSUME ChatInv, NEW c \in DOMAIN controllers, Has(ws, c), NEW new \in TurnRecs,
         NEW t, t = controllers[c], NEW ts, ts = ws.convs[c].turns
  PROVE  Replaced(ts, t, new) = [ts EXCEPT ![Len(ts)] = new]
<1>1. /\ ts \in Seq(TurnRecs) /\ Len(ts) \in 1..Len(ts) /\ ts[Len(ts)].id = t
      /\ \A i \in 1..Len(ts) : i # Len(ts) => ts[i].id # t
  BY OwnTurn
<1>2. PICK ts2 : ts2 = Replaced(ts, t, new)
  OBVIOUS
<1>3. /\ DOMAIN ts2 = DOMAIN ts /\ ts2 = [i \in DOMAIN ts2 |-> ts2[i]]
      /\ \A i \in DOMAIN ts : ts2[i] = IF ts[i].id = t THEN new ELSE ts[i]
  BY <1>2 DEF Replaced
<1>4. ts2 = [ts EXCEPT ![Len(ts)] = new]
  BY <1>1, <1>3, SetIs
<1> QED BY <1>2, <1>4

Reading(w, e) == [w EXCEPT !.chunks = Tail(w.chunks), !.said = Append(w.said, e)]

\* Reading a chunk moves it from what is to come to what was said.
LEMMA ReadingIs ==
  ASSUME NEW w \in Responses, w.chunks # <<>>, NEW e, e = Head(w.chunks), NEW r, r = Reading(w, e)
  PROVE  r \in Responses /\ r.phase = w.phase /\ r.said = Append(w.said, e) /\ r.said \in Seq(Envelopes)
<1>1. PICK p, q, y : w = [phase |-> p, chunks |-> q, said |-> y]
  BY DEF Responses
<1>2. p \in Phases /\ q \in Seq(Envelopes) /\ y \in Seq(Envelopes) /\ q # <<>> /\ e = Head(q)
  BY <1>1 DEF Responses
<1>3. PICK q2, y2 : q2 = Tail(q) /\ y2 = Append(y, e)
  OBVIOUS
<1>4. r = [phase |-> p, chunks |-> q2, said |-> y2]
  BY <1>1, <1>3 DEF Reading
<1>5. e \in Envelopes /\ q2 \in Seq(Envelopes)
  BY <1>2, <1>3
<1>6. y2 \in Seq(Envelopes)
  BY <1>2, <1>3, <1>5
<1>7. w.phase = p /\ w.said = y
  BY <1>1
<1>8. r.phase = p /\ r.said = y2 /\ r \in Responses
  BY <1>2, <1>4, <1>5, <1>6 DEF Responses
<1> QED BY <1>3, <1>6, <1>7, <1>8

\* A cancel moves the stream of the active conversation.
LEMMA CancelMoves ==
  ASSUME ChatInv, cancel
  PROVE  \E c : Moves(c)
<1>1. PICK c : c = shown.active
  OBVIOUS
<1>2. /\ Has(shown, c) /\ Streaming(shown.convs[c].turns) /\ c \in DOMAIN controllers
      /\ controllers' = Without(controllers, c)
      /\ wire' = [wire EXCEPT ![controllers[c]].phase = "broken"]
      /\ shown' = ws' /\ UNCHANGED <<mounted, asked, convs>>
  BY <1>1 DEF cancel, Active, Click
<1>3. PICK t \in Turns : t = controllers[c]
  BY <1>2, OwnTurn
<1>4. PICK seen : seen = shown.convs[c].turns
  OBVIOUS
<1>5. ws' = SetTurn(ws, c, seen[Len(seen)].id, LAMBDA turn : [turn EXCEPT !.status = "aborted-by-client"])
  BY <1>1, <1>4 DEF cancel, Active, Click, Last
<1>6. ws' = IF ~Has(ws, c) THEN ws
            ELSE [ws EXCEPT !.convs[c].turns =
                    [i \in DOMAIN ws.convs[c].turns |->
                       IF ws.convs[c].turns[i].id = seen[Len(seen)].id
                         THEN [ws.convs[c].turns[i] EXCEPT !.status = "aborted-by-client"]
                         ELSE ws.convs[c].turns[i]]]
  BY <1>5 DEF SetTurn
<1>7. wire[t] \in Responses
  BY DEF ChatInv, TypesOK, TurnTypes
<1>8. PICK r : r = Rephased(wire[t], "broken", wire[t].chunks)
  OBVIOUS
<1>9. r \in Responses /\ r.phase = "broken" /\ r.said = wire[t].said
  BY <1>7, <1>8, PhaseSet DEF Responses, Phases
<1>10. wire' = [wire EXCEPT ![t] = r]
  <2>1. r = [wire[t] EXCEPT !.phase = "broken"]
    BY <1>7, <1>8 DEF Rephased, Responses
  <2> QED BY <1>2, <1>3, <2>1
<1>11. /\ wire' \in [Turns -> Responses] /\ wire'[t] = r
       /\ \A u \in Turns : u # t => wire'[u] = wire[u]
       /\ WireOK'
  BY <1>2, <1>9, <1>10, Response
<1>12. controllers' # controllers
  BY <1>2 DEF Without
<1>13. c \in DOMAIN controllers /\ controllers[c] = t
  BY <1>2, <1>3
<1>14. ASSUME Has(ws, c)
       PROVE  \E new \in TurnRecs :
                /\ ws' = WithTurns(ws, c, [ws.convs[c].turns EXCEPT ![Len(ws.convs[c].turns)] = new])
                /\ new.id = controllers[c] /\ new.given = wire'[new.id].said /\ Tells(new)'
                /\ new.status = "streaming" <=> controllers' = controllers
  <2>1. PICK ts, n : ts = ws.convs[c].turns /\ n = Len(ts)
    OBVIOUS
  <2>2. /\ n \in 1..n /\ ts[n].id = t /\ ts[n] \in TurnRecs /\ ts[n].status = "streaming"
        /\ TurnOf(c, ws.convs[c].agent, ts[n])
    BY <1>14, <1>13, <2>1, OwnTurn
  <2>3. seen[Len(seen)].id = t
    <3>1. ConvShown(c) /\ c \in DOMAIN ws.convs
      BY <1>2, <1>14 DEF ChatInv, ShownOK, Has
    <3>2. Len(seen) = n /\ \A i \in 1..Len(seen) : seen[i].id = ts[i].id
      BY <1>4, <2>1, <3>1 DEF ConvShown
    <3> QED BY <2>2, <3>2
  <2>4. PICK new : new = [ts[n] EXCEPT !.status = "aborted-by-client"]
    OBVIOUS
  <2>5. /\ new \in TurnRecs /\ new.id = t /\ new.given = ts[n].given
        /\ new.status = "aborted-by-client" /\ new.backend = ts[n].backend
    BY <2>2, <2>4 DEF TurnRecs, Statuses
  <2>6. new.given = wire[t].said /\ new.backend = 0
    BY <2>2, <2>5 DEF TurnOf, Tells, DaemonTerminal
  <2>7. Tells(new)'
    BY <2>5, <2>6 DEF Tells, DaemonTerminal
  <2>8. PICK ts2 : ts2 = [i \in DOMAIN ts |-> IF ts[i].id = t
                            THEN [ts[i] EXCEPT !.status = "aborted-by-client"] ELSE ts[i]]
    OBVIOUS
  <2>9. ts2 = [i \in DOMAIN ts |-> IF ts[i].id = t THEN new ELSE ts[i]]
    <3>1. DOMAIN ts = 1..n /\ \A i \in 1..n : i # n => ts[i].id # t
      BY <1>14, <1>13, <2>1, OwnTurn
    <3> QED BY <2>2, <2>4, <2>8, <3>1
  <2>10. ts2 = [ts EXCEPT ![Len(ts)] = new]
    <3>1. Replaced(ts, t, new) = [ts EXCEPT ![Len(ts)] = new]
      BY <1>14, <1>13, <2>1, <2>5, SetTurnIs
    <3> QED BY <2>9, <3>1 DEF Replaced
  <2>11. ws' = WithTurns(ws, c, ts2)
    BY <1>6, <1>14, <2>1, <2>3, <2>8 DEF WithTurns
  <2> QED BY <1>3, <1>9, <1>11, <1>12, <2>1, <2>5, <2>6, <2>7, <2>10, <2>11
<1>15. ~Has(ws, c) => ws' = ws
  BY <1>6
<1>16. Moves(c)
  BY <1>2, <1>3, <1>11, <1>14, <1>15 DEF Moves
<1> QED BY <1>16

\* A turn's own function takes a chunk.
LEMMA ReadMoves ==
  ASSUME ChatInv, NEW t \in Turns, ReadChunk(t)
  PROVE  Quiet \/ \E c : Moves(c)
<1>1. CASE ~isCurrent(t)
  BY <1>1, GoneIsQuiet DEF ReadChunk
<1>2. CASE isCurrent(t)
  <2>1. PICK c : c = asked[t].conv
    OBVIOUS
  <2>2. /\ c \in DOMAIN controllers /\ controllers[c] = t
        /\ UNCHANGED <<shown, controllers, mounted, asked, convs>>
        /\ wire[t].phase \in {"open", "ended", "broken"} /\ wire[t].chunks # <<>>
        /\ wire' = [wire EXCEPT ![t].chunks = Tail(@), ![t].said = Append(@, Head(wire[t].chunks))]
    BY <1>2, <2>1 DEF isCurrent, ReadChunk
  <2>3. c \in DOMAIN controllers /\ controllers[c] = t
    BY <2>2
  <2>4. ws' = SetTurn(ws, c, t, LAMBDA turn : [turn EXCEPT !.given = Append(@, Head(wire[t].chunks))])
    BY <1>2, <2>1 DEF ReadChunk
  <2>5. PICK e : e = Head(wire[t].chunks)
    OBVIOUS
  <2>6. ws' = IF ~Has(ws, c) THEN ws
              ELSE [ws EXCEPT !.convs[c].turns =
                      [i \in DOMAIN ws.convs[c].turns |->
                         IF ws.convs[c].turns[i].id = t
                           THEN [ws.convs[c].turns[i] EXCEPT !.given = Append(ws.convs[c].turns[i].given, Head(wire[t].chunks))]
                           ELSE ws.convs[c].turns[i]]]
    BY <2>4 DEF SetTurn
  <2>7. wire[t] \in Responses
    BY DEF ChatInv, TypesOK, TurnTypes
  <2>8. PICK r, y : r = Reading(wire[t], e) /\ y = wire[t].said
    OBVIOUS
  <2>9. /\ r \in Responses /\ r.phase = wire[t].phase
         /\ r.said = Append(y, e) /\ r.said \in Seq(Envelopes)
    BY <2>2, <2>5, <2>7, <2>8, ReadingIs
  <2>10. wire' = [wire EXCEPT ![t] = r]
    <3>1. wire' = [wire EXCEPT ![t] = [wire[t] EXCEPT !.chunks = Tail(wire[t].chunks),
                                                      !.said = Append(wire[t].said, e)]]
      BY <2>2, <2>5, <2>7 DEF ChatInv, TypesOK, TurnTypes, Responses
    <3> QED BY <2>8, <3>1 DEF Reading
  <2>11. r.phase \notin {"asked", "refused"}
    BY <2>2, <2>9
  <2>12. /\ wire' \in [Turns -> Responses] /\ wire'[t] = r
         /\ \A u \in Turns : u # t => wire'[u] = wire[u]
         /\ WireOK'
    BY <2>2, <2>9, <2>10, <2>11, Response
  <2>13. ASSUME Has(ws, c)
         PROVE  \E new \in TurnRecs :
                  /\ ws' = WithTurns(ws, c, [ws.convs[c].turns EXCEPT ![Len(ws.convs[c].turns)] = new])
                  /\ new.id = controllers[c] /\ new.given = wire'[new.id].said /\ Tells(new)'
                  /\ new.status = "streaming" <=> controllers' = controllers
    <3>1. PICK ts, n : ts = ws.convs[c].turns /\ n = Len(ts)
      OBVIOUS
    <3>2. /\ n \in 1..n /\ ts[n].id = t /\ ts[n] \in TurnRecs /\ ts[n].status = "streaming"
          /\ TurnOf(c, ws.convs[c].agent, ts[n])
          /\ DOMAIN ts = 1..n /\ \A i \in 1..n : i # n => ts[i].id # t
      BY <2>13, <2>3, <3>1, OwnTurn
    <3>3. PICK new : new = [ts[n] EXCEPT !.given = Append(ts[n].given, e)]
      OBVIOUS
    <3>4. ts[n].given = y /\ ts[n].backend = 0
      BY <2>8, <3>2 DEF TurnOf, Tells, DaemonTerminal
    <3>5. /\ new \in TurnRecs /\ new.id = t /\ new.given = Append(y, e)
          /\ new.status = "streaming" /\ new.backend = 0
      <4>1. Append(y, e) \in Seq(Envelopes)
        BY <2>9
      <4> QED BY <3>2, <3>3, <3>4, <4>1 DEF TurnRecs, Statuses
    <3>6. Tells(new)'
      BY <3>5 DEF Tells, DaemonTerminal
    <3>7. PICK ts2 : ts2 = [i \in DOMAIN ts |-> IF ts[i].id = t
                              THEN [ts[i] EXCEPT !.given = Append(ts[i].given, e)] ELSE ts[i]]
      OBVIOUS
    <3>8. ts2 = [i \in DOMAIN ts |-> IF ts[i].id = t THEN new ELSE ts[i]]
      BY <3>2, <3>3, <3>7
    <3>9. ts2 = [ts EXCEPT ![Len(ts)] = new]
      <4>1. Replaced(ts, t, new) = [ts EXCEPT ![Len(ts)] = new]
        BY <2>13, <2>3, <3>1, <3>5, SetTurnIs
      <4> QED BY <3>8, <4>1 DEF Replaced
    <3>10. ws' = WithTurns(ws, c, ts2)
      BY <2>5, <2>6, <2>13, <3>1, <3>7 DEF WithTurns
    <3> QED BY <2>2, <2>9, <2>12, <3>1, <3>5, <3>6, <3>9, <3>10
  <2>14. ~Has(ws, c) => ws' = ws
    BY <2>6
  <2>15. Moves(c)
    BY <2>2, <2>12, <2>13, <2>14 DEF Moves
  <2> QED BY <2>15
<1> QED BY <1>1, <1>2

\* A turn's own function ends, with the verdict on what its stream has said.
LEMMA SettleMoves ==
  ASSUME ChatInv, NEW t \in Turns, NEW verdict, Settle(t, verdict),
         verdict.status \in Statuses \ {"streaming"}, verdict.backend \in Nat,
         verdict.status \in DaemonTerminal =>
           \/ verdict.status = Ending(t).status /\ verdict.backend = Ending(t).backend
           \/ verdict.status = "failed" /\ wire[t].said = <<>> /\ verdict.backend = 0,
         verdict.status \notin DaemonTerminal => verdict.backend = 0,
         verdict.status = "network-aborted" => Ending(t).status = "none"
  PROVE  Quiet \/ \E c : Moves(c)
<1>1. CASE ~isCurrent(t)
  BY <1>1, GoneIsQuiet DEF Settle
<1>2. CASE isCurrent(t)
  <2>1. PICK c : c = asked[t].conv
    OBVIOUS
  <2>2. /\ c \in DOMAIN controllers /\ controllers[c] = t
        /\ controllers' = Without(controllers, c)
        /\ UNCHANGED <<shown, mounted, asked, convs>>
        /\ wire' = [wire EXCEPT ![t].phase = "gone"]
    BY <1>2, <2>1 DEF isCurrent, Settle
  <2>3. c \in DOMAIN controllers /\ controllers[c] = t
    BY <2>2
  <2>4. ws' = SetTurn(ws, c, t, LAMBDA turn : [turn EXCEPT !.status = verdict.status,
                                                          !.backend = verdict.backend])
    BY <1>2, <2>1 DEF Settle
  <2>5. PICK s, b : s = verdict.status /\ b = verdict.backend
    OBVIOUS
  <2>6. ws' = IF ~Has(ws, c) THEN ws
              ELSE [ws EXCEPT !.convs[c].turns =
                      [i \in DOMAIN ws.convs[c].turns |->
                         IF ws.convs[c].turns[i].id = t
                           THEN [ws.convs[c].turns[i] EXCEPT !.status = verdict.status,
                                                             !.backend = verdict.backend]
                           ELSE ws.convs[c].turns[i]]]
    BY <2>4 DEF SetTurn
  <2>7. wire[t] \in Responses
    BY DEF ChatInv, TypesOK, TurnTypes
  <2>8. PICK r : r = Rephased(wire[t], "gone", wire[t].chunks)
    OBVIOUS
  <2>9. r \in Responses /\ r.phase = "gone" /\ r.said = wire[t].said
    BY <2>7, <2>8, PhaseSet DEF Responses, Phases
  <2>10. wire' = [wire EXCEPT ![t] = r]
    <3>1. r = [wire[t] EXCEPT !.phase = "gone"]
      BY <2>7, <2>8 DEF Rephased, Responses
    <3> QED BY <2>2, <3>1
  <2>11. /\ wire' \in [Turns -> Responses] /\ wire'[t] = r
         /\ \A u \in Turns : u # t => wire'[u] = wire[u]
         /\ WireOK'
    BY <2>2, <2>9, <2>10, Response
  <2>12. controllers' # controllers
    BY <2>2 DEF Without
  <2>13. ASSUME Has(ws, c)
         PROVE  \E new \in TurnRecs :
                  /\ ws' = WithTurns(ws, c, [ws.convs[c].turns EXCEPT ![Len(ws.convs[c].turns)] = new])
                  /\ new.id = controllers[c] /\ new.given = wire'[new.id].said /\ Tells(new)'
                  /\ new.status = "streaming" <=> controllers' = controllers
    <3>1. PICK ts, n : ts = ws.convs[c].turns /\ n = Len(ts)
      OBVIOUS
    <3>2. /\ n \in 1..n /\ ts[n].id = t /\ ts[n] \in TurnRecs /\ ts[n].status = "streaming"
          /\ TurnOf(c, ws.convs[c].agent, ts[n])
          /\ DOMAIN ts = 1..n /\ \A i \in 1..n : i # n => ts[i].id # t
      BY <2>3, <2>13, <3>1, OwnTurn
    <3>3. PICK new : new = [ts[n] EXCEPT !.status = s, !.backend = b]
      OBVIOUS
    <3>4. /\ new \in TurnRecs /\ new.id = t /\ new.given = ts[n].given
          /\ new.status = s /\ new.backend = b
      <4>1. s \in Statuses /\ b \in Nat
        BY <2>5
      <4> QED BY <3>2, <3>3, <4>1 DEF TurnRecs
    <3>5. new.given = wire[t].said
      BY <3>2, <3>4 DEF TurnOf
    <3>6. wire'[t].said = wire[t].said
      BY <2>9, <2>11
    <3>7. Tells(new)'
      BY <2>5, <3>4, <3>6 DEF Tells, Ending
    <3>8. PICK ts2 : ts2 = [i \in DOMAIN ts |-> IF ts[i].id = t
                              THEN [ts[i] EXCEPT !.status = s, !.backend = b] ELSE ts[i]]
      OBVIOUS
    <3>9. ts2 = [i \in DOMAIN ts |-> IF ts[i].id = t THEN new ELSE ts[i]]
      BY <3>2, <3>3, <3>8
    <3>10. ts2 = [ts EXCEPT ![Len(ts)] = new]
      <4>1. Replaced(ts, t, new) = [ts EXCEPT ![Len(ts)] = new]
        BY <2>3, <2>13, <3>1, <3>4, SetTurnIs
      <4> QED BY <3>9, <4>1 DEF Replaced
    <3>11. ws' = WithTurns(ws, c, ts2)
      BY <2>5, <2>6, <2>13, <3>1, <3>8 DEF WithTurns
    <3>12. new.status # "streaming"
      BY <2>5, <3>4
    <3> QED BY <2>3, <2>12, <3>1, <3>4, <3>5, <3>6, <3>7, <3>10, <3>11, <3>12
  <2>14. ~Has(ws, c) => ws' = ws
    BY <2>6
  <2>15. Moves(c)
    BY <2>2, <2>11, <2>13, <2>14 DEF Moves
  <2> QED BY <2>15
<1> QED BY <1>1, <1>2

\* What a stream has said, as the end of its turn.
LEMMA EndingIs ==
  ASSUME ChatInv, NEW t \in Turns
  PROVE  /\ Ending(t).status \in DaemonTerminal \cup {"none"}
         /\ Ending(t).backend \in {0, t}
         /\ wire[t].said = <<>> => Ending(t).status = "none"
<1>1. wire[t] \in Responses
  BY DEF ChatInv, TypesOK, TurnTypes
<1>2. PICK said \in Seq(Envelopes) : said = wire[t].said
  BY <1>1 DEF Responses
<1>3. Ending(t) = deriveTurnStatusFromEnvelopes(t, said)
  BY <1>2 DEF Ending
<1>4. CASE said = <<>> \/ Last(said) = Text
  <2>1. Ending(t) = [status |-> "none", backend |-> 0]
    BY <1>3, <1>4 DEF deriveTurnStatusFromEnvelopes
  <2> QED BY <2>1
<1>5. CASE said # <<>> /\ Last(said) # Text
  <2>1. PICK e \in Envelopes : e = Last(said)
    BY <1>2, <1>5 DEF Last
  <2>2. Ending(t) = [status |-> e.status, backend |-> IF e.named THEN t ELSE 0]
    BY <1>3, <1>5, <2>1 DEF deriveTurnStatusFromEnvelopes
  <2>3. e.status \in DaemonTerminal \cup {"none"} /\ e.named \in BOOLEAN
    BY DEF Envelopes
  <2> QED BY <1>2, <1>5, <2>2, <2>3
<1> QED BY <1>2, <1>4, <1>5

\* The end of a stream moves it, or is late and quiet.
LEMMA EndsMove ==
  ASSUME ChatInv, NEW t \in Turns, ReadDone(t) \/ Throws(t)
  PROVE  Quiet \/ \E c : Moves(c)
<1>1. PICK otherwise \in {"network-aborted", "failed"} :
        /\ Settle(t, Verdict(t, otherwise))
        /\ otherwise = "failed" => wire[t].said = <<>>
  <2>1. CASE ReadDone(t)
    BY <2>1 DEF ReadDone
  <2>2. CASE Throws(t)
    <3>1. wire[t].phase = "refused" => wire[t].said = <<>>
      BY DEF ChatInv, WireOK
    <3> QED BY <2>2, <3>1 DEF Throws
  <2> QED BY <2>1, <2>2
<1>2. PICK v : v = Verdict(t, otherwise)
  OBVIOUS
<1>3. /\ Ending(t).status \in DaemonTerminal \cup {"none"}
      /\ Ending(t).backend \in {0, t} /\ t \in Nat
      /\ wire[t].said = <<>> => Ending(t).status = "none"
  BY EndingIs DEF ChatInv, TypesOK, TurnTypes
<1>4. v = IF Ending(t).status = "none" THEN [status |-> otherwise, backend |-> 0] ELSE Ending(t)
  BY <1>2 DEF Verdict, Ending
<1>5. CASE Ending(t).status = "none"
  <2>1. v.status = otherwise /\ v.backend = 0
    BY <1>4, <1>5
  <2>2. /\ v.status \in Statuses \ {"streaming"} /\ v.backend \in Nat
        /\ v.status \in DaemonTerminal => v.status = "failed" /\ wire[t].said = <<>>
    BY <1>1, <2>1 DEF Statuses, DaemonTerminal
  <2> QED BY <1>1, <1>2, <1>5, <2>1, <2>2, SettleMoves
<1>6. CASE Ending(t).status # "none"
  <2>1. v = Ending(t)
    BY <1>4, <1>6
  <2>2. /\ v.status \in DaemonTerminal /\ v.status \in Statuses \ {"streaming"} /\ v.backend \in Nat
        /\ v.status # "network-aborted"
    BY <1>3, <1>6, <2>1 DEF Statuses, DaemonTerminal
  <2> QED BY <1>1, <1>2, <2>1, <2>2, SettleMoves
<1> QED BY <1>5, <1>6

-----------------------------------------------------------------------------
(* A turn starts on what was last rendered of its conversation.            *)

\* The order of the naturals is well founded.
LEMMA Least ==
  ASSUME NEW T \in SUBSET Nat, T # {}
  PROVE  \E m \in T : \A n \in T : m <= n
<1> DEFINE R == OpToRel(<, Nat)
<1>1. IsWellFoundedOn(R, Nat)
  BY NatLessThanWellFounded, Zenon
<1>2. \A x, y \in Nat : y < x => <<y, x>> \in R
  BY DEF OpToRel
<1> HIDE DEF R
<1>3. PICK x \in T : \A y \in T : ~(<<y, x>> \in R)
  BY <1>1, WFMin
<1>4. \A y \in T : y \in Nat /\ ~(y < x)
  BY <1>2, <1>3
<1>5. \A y \in T : x <= y
  BY <1>3, <1>4
<1> QED BY <1>3, <1>5

\* A non-empty set of small numbers has a greatest.
LEMMA Greatest ==
  ASSUME NEW n \in Nat, NEW T \in SUBSET (1..n), T # {}
  PROVE  \E m \in T : \A j \in T : j <= m
<1> DEFINE B == {k \in Nat : \A j \in T : j <= k}
<1>1. B \in SUBSET Nat /\ n \in B
  OBVIOUS
<1>2. PICK m \in B : \A k \in B : m <= k
  BY <1>1, Least
<1>3. m \in Nat /\ \A j \in T : j <= m /\ j \in Nat /\ 1 <= j
  BY <1>1
<1>4. ASSUME m \notin T
      PROVE  FALSE
  <2>1. m # 0
    <3>1. PICK j \in T : j <= m /\ 1 <= j /\ j \in Nat
      BY <1>3
    <3> QED BY <1>3, <3>1
  <2>2. \A j \in T : j # m /\ j <= m /\ j \in Nat
    BY <1>3, <1>4
  <2>3. m - 1 \in Nat /\ \A j \in T : j <= m - 1
    BY <1>3, <2>1, <2>2
  <2>4. m - 1 \in B
    BY <2>3
  <2> QED BY <1>2, <1>3, <2>4
<1> QED BY <1>3, <1>4

\* A session to resume is one that a turn of the list has named.
LEMMA LatestIs ==
  ASSUME NEW ts \in Seq(TurnRecs), NEW q, q = latestResumeSessionId(ts)
  PROVE  q = 0 \/ \E i \in 1..Len(ts) : ts[i].backend = q /\ q # 0
<1> DEFINE given == {i \in DOMAIN ts : ts[i].backend # 0}
<1>1. DOMAIN ts = 1..Len(ts) /\ Len(ts) \in Nat
  OBVIOUS
<1>2. CASE given = {}
  BY <1>2 DEF latestResumeSessionId
<1>3. CASE given # {}
  <2>1. \E m \in given : \A j \in given : j <= m
    BY <1>1, <1>3, Greatest
  <2>2. PICK m : m = CHOOSE i \in given : \A j \in given : j <= i
    OBVIOUS
  <2>3. m \in given
    BY <2>1, <2>2
  <2>4. q = ts[m].backend
    BY <1>3, <2>2 DEF latestResumeSessionId
  <2> QED BY <1>1, <2>3, <2>4
<1> QED BY <1>2, <1>3

\* A new entry of one of the functions a start extends.
Extends(g, f, k, v) ==
  /\ g = [x \in DOMAIN g |-> g[x]]
  /\ DOMAIN g = DOMAIN f \cup {k} /\ g[k] = v
  /\ \A x \in DOMAIN f : g[x] = f[x]

\* With adds one argument to a function.
LEMMA WithIs ==
  ASSUME NEW f, NEW k, NEW v, k \notin DOMAIN f
  PROVE  Extends(With(f, k, v), f, k, v)
BY DEF With, Extends

\* What a start does, in terms of the state: the new turn follows those kept,
\* which are the conversation's but for the last if it is retried.
Starts(c, t, kept) ==
  /\ mounted = TRUE /\ UNCHANGED <<mounted, convs>>
  /\ c \in DOMAIN shown.convs /\ c \notin DOMAIN controllers
  /\ t \in Nat \ {0} /\ Turns = 1..(t - 1) /\ t \notin Turns
  /\ controllers' = With(controllers, c, t)
  /\ \E agent \in Agents, resume \in Nat :
       /\ asked' = With(asked, t, [conv |-> c, agent |-> agent, resume |-> resume])
       /\ Has(ws, c) => agent = ws.convs[c].agent
       /\ resume # 0 => Has(ws, c) /\ \E i \in 1..Len(kept) : kept[i].backend = resume
  /\ wire' = With(wire, t, [phase |-> "asked", chunks |-> <<>>, said |-> <<>>])
  /\ kept \in Seq(TurnRecs)
  /\ Has(ws, c) =>
       /\ ws' = WithTurns(ws, c, Append(kept, [id |-> t, status |-> "streaming",
                                               backend |-> 0, given |-> <<>>]))
       /\ \A i \in 1..Len(kept) : kept[i] = ws.convs[c].turns[i] /\ kept[i].status # "streaming"
       /\ \/ Len(kept) = Len(ws.convs[c].turns)
          \/ /\ Len(kept) + 1 = Len(ws.convs[c].turns)
             /\ ws.convs[c].turns[Len(kept) + 1].status # "completed"
  /\ ~Has(ws, c) => ws' = ws
  /\ shown' = ws'

\* Nothing of what was rendered runs: it is what the conversation is.
LEMMA SeenIs ==
  ASSUME ChatInv, Has(shown, shown.active), ~Streaming(Active(shown).turns),
         NEW c, c = shown.active, NEW seen, seen = shown.convs[c].turns
  PROVE  /\ c \in DOMAIN shown.convs /\ seen \in Seq(TurnRecs) /\ shown.convs[c].agent \in Agents
         /\ \A i \in 1..Len(seen) : seen[i].status # "streaming"
         /\ Has(ws, c) => /\ shown.convs[c].agent = ws.convs[c].agent
                          /\ Len(seen) = Len(ws.convs[c].turns)
                          /\ \A i \in 1..Len(seen) : seen[i] = ws.convs[c].turns[i]
         /\ ~Has(ws, c) => seen = <<>>
<1>1. c \in DOMAIN shown.convs /\ ConvShown(c) /\ convs \in Nat /\ IsWorkspace(shown, convs)
  BY DEF Has, ChatInv, ShownOK, TypesOK, WorkTypes
<1>2. seen \in Seq(TurnRecs) /\ shown.convs[c].agent \in Agents /\ (seen # <<>> => Len(seen) \in 1..Len(seen))
  BY <1>1, ConvType
<1>3. ASSUME NEW i \in 1..Len(seen)
      PROVE  seen[i].status # "streaming"
  <2>1. seen # <<>>
    BY EmptySeq
  <2>2. seen[Len(seen)].status # "streaming"
    BY <2>1 DEF Streaming, Active, Last
  <2>3. seen[i].status = "streaming" => i = Len(seen)
    BY <1>1 DEF ConvShown
  <2> QED BY <2>2, <2>3
<1>4. Has(ws, c) => /\ shown.convs[c].agent = ws.convs[c].agent
                    /\ Len(seen) = Len(ws.convs[c].turns)
                    /\ \A i \in 1..Len(seen) : seen[i] = ws.convs[c].turns[i]
  BY <1>1, <1>3 DEF ConvShown, Has
<1>5. ~Has(ws, c) => seen = <<>>
  BY <1>1 DEF ConvShown, Has
<1> QED BY <1>1, <1>2, <1>3, <1>4, <1>5

\* startTurn starts a turn on what is kept of the conversation.
LEMMA StartingIs ==
  ASSUME ChatInv, Has(shown, shown.active), ~Streaming(Active(shown).turns), mounted,
         NEW kept, startTurn(kept),
         \/ kept = Active(shown).turns
         \/ /\ Active(shown).turns # <<>> /\ Last(Active(shown).turns).status # "completed"
            /\ kept = SubSeq(Active(shown).turns, 1, Len(Active(shown).turns) - 1)
  PROVE  \E c, t : Starts(c, t, kept)
<1>1. PICK c, seen, t : c = shown.active /\ seen = shown.convs[c].turns /\ t = Cardinality(Turns) + 1
  OBVIOUS
<1>2. /\ c \in DOMAIN shown.convs /\ seen \in Seq(TurnRecs) /\ shown.convs[c].agent \in Agents
      /\ \A i \in 1..Len(seen) : seen[i].status # "streaming"
      /\ Has(ws, c) => /\ shown.convs[c].agent = ws.convs[c].agent
                       /\ Len(seen) = Len(ws.convs[c].turns)
                       /\ \A i \in 1..Len(seen) : seen[i] = ws.convs[c].turns[i]
      /\ ~Has(ws, c) => seen = <<>>
  BY <1>1, SeenIs
<1>3. t \in Nat \ {0} /\ Turns = 1..(t - 1) /\ t \notin Turns
  <2>1. PICK n \in Nat : Turns = 1..n
    BY DEF ChatInv, TypesOK, TurnTypes
  <2>2. Cardinality(1..n) = n
    <3>1. Cardinality(1..n) = IF 1 > n THEN 0 ELSE n - 1 + 1
      BY <2>1, FS_Interval
    <3> QED BY <3>1
  <2> QED BY <1>1, <2>1, <2>2
<1>4. /\ kept \in Seq(TurnRecs) /\ Len(kept) \in Nat
      /\ \A i \in 1..Len(kept) : i \in 1..Len(seen) /\ kept[i] = seen[i]
      /\ \/ Len(kept) = Len(seen)
         \/ /\ Len(kept) + 1 = Len(seen) /\ Len(kept) + 1 \in 1..Len(seen)
            /\ seen[Len(kept) + 1].status # "completed"
  <2>1. CASE kept = seen
    BY <1>2, <2>1
  <2>2. CASE seen # <<>> /\ Last(seen).status # "completed" /\ kept = SubSeq(seen, 1, Len(seen) - 1)
    <3>1. Len(seen) \in Nat \ {0}
      BY <1>2, <2>2
    <3>2. PICK m \in Nat : Len(seen) = m + 1
      <4>1. Len(seen) - 1 \in Nat /\ Len(seen) = (Len(seen) - 1) + 1
        BY <3>1
      <4> QED BY <4>1
    <3>3. kept = SubSeq(seen, 1, m)
      BY <2>2, <3>2
    <3>4. kept \in Seq(TurnRecs) /\ Len(kept) = m /\ \A i \in 1..m : kept[i] = seen[i]
      BY <1>2, <3>2, <3>3
    <3> QED BY <2>2, <3>2, <3>4 DEF Last
  <2> QED BY <1>1, <2>1, <2>2 DEF Active
<1>5. PICK q : q = latestResumeSessionId(kept)
  OBVIOUS
<1>6. q = 0 \/ \E i \in 1..Len(kept) : kept[i].backend = q /\ q # 0
  BY <1>4, <1>5, LatestIs
<1>7. q \in Nat /\ (q # 0 => Has(ws, c) /\ \E i \in 1..Len(kept) : kept[i].backend = q)
  <2>1. \A i \in 1..Len(kept) : kept[i].backend \in Nat
    <3>1. \A i \in 1..Len(kept) : kept[i] \in TurnRecs
      BY <1>4
    <3> QED BY <3>1 DEF TurnRecs
  <2>2. seen = <<>> => 1..Len(kept) = {}
    BY <1>4, EmptySeq
  <2> QED BY <1>2, <1>6, <2>1, <2>2
<1>8. /\ c \notin DOMAIN controllers
      /\ controllers' = With(controllers, c, t)
      /\ asked' = With(asked, t, [conv |-> c, agent |-> shown.convs[c].agent, resume |-> q])
      /\ wire' = With(wire, t, [phase |-> "asked", chunks |-> <<>>, said |-> <<>>])
      /\ UNCHANGED <<mounted, convs>> /\ shown' = ws'
  BY <1>1, <1>5 DEF startTurn, Active, Click
<1>9. ws' = IF Has(ws, c)
              THEN [ws EXCEPT !.convs[c].turns = Append(kept,
                      [id |-> t, status |-> "streaming", backend |-> 0, given |-> <<>>])]
              ELSE ws
  BY <1>1 DEF startTurn, Click
<1>10. mounted = TRUE
  BY DEF ChatInv, TypesOK, OwnerTypes
<1>11. Starts(c, t, kept)
  BY <1>2, <1>3, <1>4, <1>7, <1>8, <1>9, <1>10 DEF Starts, WithTurns
<1> QED BY <1>11

\* submit and retry start one.
LEMMA UserStarts ==
  ASSUME ChatInv, submit \/ retry
  PROVE  \E c, t, kept : Starts(c, t, kept)
<1>1. CASE submit
  BY <1>1, StartingIs DEF submit
<1>2. CASE retry
  <2>1. PICK turns : turns = Active(shown).turns
    OBVIOUS
  <2>2. /\ mounted /\ Has(shown, shown.active)
        /\ turns # <<>> /\ Last(turns).status # "streaming" /\ Last(turns).status # "completed"
        /\ startTurn(SubSeq(turns, 1, Len(turns) - 1))
    BY <1>2, <2>1 DEF retry
  <2>3. ~Streaming(turns)
    BY <2>2 DEF Streaming
  <2> QED BY <2>1, <2>2, <2>3, StartingIs
<1> QED BY <1>1, <1>2

\* Starting a turn preserves the invariant.
LEMMA StartsKeep ==
  ASSUME ChatInv, NEW c, NEW t, NEW kept, Starts(c, t, kept)
  PROVE  ChatInv'
<1> DEFINE old == ws.convs[c].turns
           fresh == [phase |-> "asked", chunks |-> <<>>, said |-> <<>>]
           new == [id |-> t, status |-> "streaming", backend |-> 0, given |-> <<>>]
<1>1. /\ mounted = TRUE /\ UNCHANGED <<mounted, convs>>
      /\ c \in DOMAIN shown.convs /\ c \notin DOMAIN controllers
      /\ t \in Nat \ {0} /\ Turns = 1..(t - 1) /\ t \notin Turns /\ t \notin DOMAIN asked
      /\ controllers' = With(controllers, c, t)
      /\ wire' = With(wire, t, fresh)
      /\ kept \in Seq(TurnRecs) /\ shown' = ws'
  BY DEF Starts, Turns
<1>2. PICK agent \in Agents, resume \in Nat :
        /\ asked' = With(asked, t, [conv |-> c, agent |-> agent, resume |-> resume])
        /\ Has(ws, c) => agent = ws.convs[c].agent
        /\ resume # 0 => Has(ws, c) /\ \E i \in 1..Len(kept) : kept[i].backend = resume
  BY DEF Starts
<1>3. /\ convs \in Nat /\ IsWorkspace(ws, convs) /\ IsWorkspace(shown, convs)
      /\ asked \in [Turns -> Requests] /\ wire \in [Turns -> Responses]
      /\ controllers \in [DOMAIN controllers -> Turns] /\ DOMAIN controllers \subseteq 1..convs
      /\ c \in 1..convs
  <2>1. /\ convs \in Nat /\ IsWorkspace(ws, convs) /\ IsWorkspace(shown, convs)
        /\ asked \in [Turns -> Requests] /\ wire \in [Turns -> Responses]
        /\ controllers \in [DOMAIN controllers -> Turns] /\ DOMAIN controllers \subseteq 1..convs
    BY DEF ChatInv, TypesOK, WorkTypes, TurnTypes, OwnerTypes
  <2>2. c \in 1..convs
    BY <1>1, <2>1 DEF IsWorkspace
  <2> QED BY <2>1, <2>2
<1>4. PICK request \in Requests : request = [conv |-> c, agent |-> agent, resume |-> resume]
  <2>1. c \in Nat
    <3>1. c \in 1..convs /\ convs \in Nat
      BY <1>3
    <3> QED BY <3>1
  <2>2. [conv |-> c, agent |-> agent, resume |-> resume] \in Requests
    BY <2>1 DEF Requests
  <2> QED BY <2>2
<1>5. /\ request.conv = c /\ request.agent = agent /\ request.resume = resume
      /\ asked' = With(asked, t, request)
  BY <1>2, <1>4
<1>6. /\ Turns' = Turns \cup {t} /\ asked'[t] = request
      /\ \A u \in Turns : asked'[u] = asked[u]
      /\ asked' \in [Turns' -> Requests]
  <2>1. PICK f, g : f = asked /\ g = asked'
    OBVIOUS
  <2>2. t \notin DOMAIN f /\ g = With(f, t, request)
    BY <1>1, <1>5, <2>1
  <2>3. /\ g = [x \in DOMAIN g |-> g[x]]
        /\ DOMAIN g = DOMAIN f \cup {t} /\ g[t] = request
        /\ \A u \in DOMAIN f : g[u] = f[u]
    <3>1. Extends(With(f, t, request), f, t, request)
      BY <2>2, WithIs
    <3> QED BY <2>2, <3>1 DEF Extends
  <2>4. f \in [DOMAIN f -> Requests]
    BY <1>3, <2>1
  <2>5. g \in [DOMAIN g -> Requests]
    BY <2>3, <2>4
  <2> QED BY <2>1, <2>3, <2>5 DEF Turns
<1>7. fresh \in Responses /\ fresh.said = <<>> /\ fresh.chunks = <<>> /\ fresh.phase = "asked"
  BY EmptySeq DEF Responses, Phases
<1> HIDE DEF fresh
<1>8. /\ wire'[t] = fresh /\ wire' \in [Turns' -> Responses]
      /\ \A u \in Turns : wire'[u] = wire[u]
  <2>1. DOMAIN wire = Turns /\ t \notin DOMAIN wire
    BY <1>1, <1>3
  <2>2. /\ DOMAIN wire' = Turns \cup {t} /\ wire'[t] = fresh
        /\ \A u \in Turns : wire'[u] = wire[u]
        /\ wire' \in [DOMAIN wire' -> Responses]
    <3>1. PICK f, g : f = wire /\ g = wire'
      OBVIOUS
    <3>2. DOMAIN f = Turns /\ t \notin DOMAIN f /\ g = With(f, t, fresh)
      BY <1>1, <2>1, <3>1
    <3>3. /\ g = [x \in DOMAIN g |-> g[x]]
          /\ DOMAIN g = DOMAIN f \cup {t} /\ g[t] = fresh
          /\ \A u \in DOMAIN f : g[u] = f[u]
      <4>1. Extends(With(f, t, fresh), f, t, fresh)
        BY <3>2, WithIs
      <4> QED BY <3>2, <4>1 DEF Extends
    <3>4. f \in [DOMAIN f -> Responses]
      BY <1>3, <3>1, <3>2
    <3>5. g \in [DOMAIN g -> Responses]
      BY <1>7, <3>3, <3>4
    <3> QED BY <3>1, <3>2, <3>3, <3>5
  <2> QED BY <1>6, <2>2
<1>9. /\ DOMAIN controllers' = DOMAIN controllers \cup {c} /\ controllers'[c] = t
      /\ \A d \in DOMAIN controllers : controllers'[d] = controllers[d] /\ d # c
      /\ controllers' \in [DOMAIN controllers' -> Turns']
  <2>1. controllers \in [DOMAIN controllers -> Turns'] /\ t \in Turns'
    BY <1>3, <1>6
  <2>2. PICK f, g : f = controllers /\ g = controllers'
    OBVIOUS
  <2>3. c \notin DOMAIN f /\ g = With(f, c, t)
    BY <1>1, <2>2
  <2>4. /\ g = [x \in DOMAIN g |-> g[x]]
        /\ DOMAIN g = DOMAIN f \cup {c} /\ g[c] = t
        /\ \A d \in DOMAIN f : g[d] = f[d]
    <3>1. Extends(With(f, c, t), f, c, t)
      BY <2>3, WithIs
    <3> QED BY <2>3, <3>1 DEF Extends
  <2>5. f \in [DOMAIN f -> Turns']
    BY <2>1, <2>2
  <2>6. g \in [DOMAIN g -> Turns']
    BY <2>1, <2>4, <2>5
  <2> QED BY <2>2, <2>3, <2>4, <2>6
<1>10. new \in TurnRecs /\ new.id = t /\ new.status = "streaming" /\ new.backend = 0 /\ new.given = <<>>
  <2>1. <<>> \in Seq(Envelopes)
    OBVIOUS
  <2> QED BY <1>1, <2>1 DEF TurnRecs, Statuses
<1> HIDE DEF new
<1>11. PICK ts \in Seq(TurnRecs), m \in Nat : ts = Append(kept, new) /\ m = Len(kept)
  <2>1. kept \in Seq(TurnRecs) /\ new \in TurnRecs
    BY <1>1, <1>10
  <2>2. Append(kept, new) \in Seq(TurnRecs) /\ Len(kept) \in Nat
    BY <2>1
  <2> QED BY <2>2
<1>12. /\ Len(ts) = m + 1 /\ m + 1 \in 1..Len(ts) /\ ts[m + 1] = new
       /\ \A i \in 1..Len(ts) : i \in 1..m \/ i = m + 1
       /\ \A i \in 1..m : ts[i] = kept[i] /\ i # m + 1
  BY <1>1, <1>10, <1>11
<1>13. /\ IsWorkspace(ws', convs) /\ DOMAIN ws'.convs = DOMAIN ws.convs
       /\ \A d \in DOMAIN ws.convs : d # c => ws'.convs[d] = ws.convs[d]
       /\ Has(ws, c) => ws'.convs[c].agent = agent /\ ws'.convs[c].turns = ts
  <2>1. CASE ~Has(ws, c)
    <3>1. ws' = ws
      BY <2>1 DEF Starts
    <3> QED BY <1>3, <2>1, <3>1
  <2>2. CASE Has(ws, c)
    <3>1. PICK v : v = WithTurns(ws, c, ts)
      OBVIOUS
    <3>2. c \in DOMAIN ws.convs
      BY <2>2 DEF Has
    <3>3. /\ IsWorkspace(v, convs) /\ DOMAIN v.convs = DOMAIN ws.convs
          /\ v.convs[c].turns = ts /\ v.convs[c].agent = ws.convs[c].agent
          /\ \A d \in DOMAIN ws.convs : d # c => v.convs[d] = ws.convs[d]
      BY <1>3, <3>1, <3>2, TurnsSet
    <3>4. ws' = v
      BY <1>11, <2>2, <3>1 DEF Starts, new
    <3> QED BY <1>2, <2>2, <3>3, <3>4
  <2> QED BY <2>1, <2>2
<1>14. TypesOK'
  <2>1. WorkTypes'
    BY <1>1, <1>3, <1>13 DEF WorkTypes, IsWorkspace
  <2>2. Turns' = 1..t
    BY <1>1, <1>6
  <2>3. TurnTypes'
    BY <1>1, <1>6, <1>8, <2>2 DEF TurnTypes
  <2>4. OwnerTypes'
    BY <1>1, <1>3, <1>9 DEF OwnerTypes
  <2> QED BY <2>1, <2>3, <2>4 DEF TypesOK
\* A turn of before the start.
<1>15. ASSUME NEW d, NEW a, NEW turn, TurnOf(d, a, turn)
       PROVE  TurnOf(d, a, turn)'
  <2>1. turn.id \in Turns
    BY <1>15 DEF TurnOf
  <2>2. asked'[turn.id] = asked[turn.id] /\ wire'[turn.id] = wire[turn.id] /\ turn.id \in Turns'
    BY <1>6, <1>8, <2>1
  <2> QED BY <1>15, <2>2 DEF TurnOf, Tells, Ending
<1>16. ASSUME Has(ws, c)
       PROVE  /\ TurnsOK(c, agent, old) /\ m \in Nat
              /\ \A i \in 1..m : /\ kept[i] = old[i] /\ kept[i].status # "streaming"
                                 /\ i \in 1..Len(old) /\ TurnOf(c, agent, kept[i])
  <2>1. c \in DOMAIN ws.convs /\ ConvOK(c)
    BY <1>16 DEF Has, ChatInv, ConvsOK
  <2>2. TurnsOK(c, agent, old)
    BY <1>2, <1>16, <2>1 DEF ConvOK
  <2>3. Len(old) \in Nat /\ (m = Len(old) \/ m + 1 = Len(old))
        /\ \A i \in 1..m : kept[i] = old[i] /\ kept[i].status # "streaming"
    BY <1>3, <1>11, <1>16, <2>1, ConvType DEF Starts
  <2>4. \A i \in 1..m : i \in 1..Len(old)
    BY <1>11, <2>3
  <2>5. \A i \in 1..m : TurnOf(c, agent, kept[i])
    BY <2>2, <2>3, <2>4 DEF TurnsOK
  <2> QED BY <2>2, <2>3, <2>4, <2>5
<1>17. ASSUME Has(ws, c)
       PROVE  ConvOK(c)'
  <2>1. TurnOf(c, agent, new)'
    BY <1>5, <1>6, <1>7, <1>8, <1>10 DEF TurnOf, Tells, DaemonTerminal
  <2>2. \A i \in 1..Len(ts) : TurnOf(c, agent, ts[i])'
    BY <1>12, <1>15, <1>16, <1>17, <2>1
  <2>3. ASSUME NEW i \in 1..Len(ts), NEW j \in 1..Len(ts), i < j
        PROVE  ts[i].id < ts[j].id
    <3>1. i \in 1..m
      BY <1>11, <1>12, <2>3
    <3>2. CASE j \in 1..m
      <4>1. old[i].id < old[j].id
        BY <1>16, <1>17, <2>3, <3>1, <3>2 DEF TurnsOK
      <4> QED BY <1>12, <1>16, <1>17, <3>1, <3>2, <4>1
    <3>3. CASE j = m + 1
      <4>1. kept[i].id \in Turns
        BY <1>16, <1>17, <3>1 DEF TurnOf
      <4>2. ts[i].id = kept[i].id /\ ts[j].id = t
        BY <1>10, <1>12, <3>1, <3>3
      <4> QED BY <1>1, <4>1, <4>2
    <3> QED BY <1>12, <3>2, <3>3
  <2>4. ASSUME NEW i \in 1..Len(ts), ts[i].status = "streaming"
        PROVE  i = Len(ts) /\ c \in DOMAIN controllers' /\ controllers'[c] = ts[i].id
    <3>1. i = m + 1
      BY <1>12, <1>16, <1>17, <2>4
    <3> QED BY <1>9, <1>10, <1>12, <3>1
  <2>5. TurnsOK(c, agent, ts)'
    BY <2>2, <2>3, <2>4 DEF TurnsOK
  <2>6. ws'.convs[c].agent = agent /\ ws'.convs[c].turns = ts
    BY <1>13, <1>17
  <2> QED BY <2>5, <2>6 DEF ConvOK, TurnsOK
<1>18. ASSUME NEW d \in DOMAIN ws.convs, d # c
       PROVE  ConvOK(d)'
  <2>1. PICK ds, a : ds = ws.convs[d].turns /\ a = ws.convs[d].agent
    OBVIOUS
  <2>2. TurnsOK(d, a, ds)
    BY <2>1 DEF ChatInv, ConvsOK, ConvOK
  <2>3. mounted' => mounted
    BY <1>1
  <2>4. d \in DOMAIN controllers => d \in DOMAIN controllers' /\ controllers'[d] = controllers[d]
    BY <1>9
  <2>5. TurnsOK(d, a, ds)'
    BY <1>15, <2>2, <2>3, <2>4 DEF TurnsOK
  <2>6. ws'.convs[d].agent = a /\ ws'.convs[d].turns = ds
    BY <1>13, <1>18, <2>1
  <2> QED BY <2>5, <2>6 DEF ConvOK, TurnsOK
<1>19. ConvsOK'
  BY <1>13, <1>17, <1>18 DEF ConvsOK, Has
<1>20. OwnersOK'
  <2>1. SUFFICES ASSUME NEW d \in DOMAIN controllers' PROVE OwnerOK(d)'
    BY DEF OwnersOK
  <2>2. CASE d = c
    <3>1. Has(ws, c) => ts # <<>> /\ ts[Len(ts)].id = t /\ ts[Len(ts)].status = "streaming"
      BY <1>10, <1>12, EmptySeq
    <3> QED BY <1>5, <1>6, <1>9, <1>13, <2>2, <3>1 DEF OwnerOK, Has, Last
  <2>3. CASE d # c
    <3>1. d \in DOMAIN controllers /\ controllers[d] \in Turns
      BY <1>3, <1>9, <2>3
    <3>2. OwnerOK(d)
      BY <3>1 DEF ChatInv, OwnersOK
    <3> QED BY <1>6, <1>9, <1>13, <2>3, <3>1, <3>2 DEF OwnerOK
  <2> QED BY <2>2, <2>3
<1>21. ShownOK'
  <2>1. SUFFICES ASSUME NEW d \in DOMAIN shown'.convs PROVE ConvShown(d)'
    BY DEF ShownOK
  <2>2. ConvOK(d)'
    BY <1>1, <1>19 DEF ConvsOK
  <2> QED BY <1>1, <2>2 DEF ConvShown, ConvOK, TurnsOK
<1>22. WireOK'
  BY <1>6, <1>7, <1>8 DEF ChatInv, WireOK
<1>23. ResumeOK'
  <2>1. ASSUME NEW r \in Turns, ~isCurrent(r)
        PROVE  ~isCurrent(r)'
    BY <1>1, <1>6, <1>9, <2>1 DEF isCurrent
  <2>2. ASSUME NEW u \in Turns, NEW r, r = asked[u].resume, r # 0
        PROVE  /\ r \in Turns /\ asked[r].agent = asked[u].agent /\ asked[r].conv = asked[u].conv
               /\ (Ending(r).backend # 0)' /\ ~isCurrent(r)'
    <3>1. /\ r \in Turns /\ asked[r].agent = asked[u].agent /\ asked[r].conv = asked[u].conv
          /\ Ending(r).backend # 0 /\ ~isCurrent(r)
      BY <2>2 DEF ChatInv, ResumeOK
    <3>2. (Ending(r).backend # 0)'
      BY <1>8, <3>1 DEF Ending
    <3> QED BY <2>1, <3>1, <3>2
  <2>3. ASSUME resume # 0
        PROVE  /\ resume \in Turns /\ asked[resume].agent = agent /\ asked[resume].conv = c
               /\ (Ending(resume).backend # 0)' /\ ~isCurrent(resume)'
    <3>1. Has(ws, c)
      BY <1>2, <2>3
    <3>2. PICK i \in 1..m : kept[i].backend = resume
      BY <1>2, <1>11, <2>3
    <3>3. TurnOf(c, agent, kept[i]) /\ kept[i].status # "streaming"
      BY <1>16, <3>1
    <3>4. PICK r : r = kept[i].id
      OBVIOUS
    <3>5. r \in Turns /\ asked[r].agent = agent /\ asked[r].conv = c
      BY <3>3, <3>4 DEF TurnOf
    <3>6. Ending(r).backend = resume
      BY <2>3, <3>2, <3>3, <3>4 DEF TurnOf, Tells
    <3>7. r = resume
      BY <2>3, <3>5, <3>6, EndingIs
    <3>8. ~isCurrent(r)
      BY <1>1, <3>5 DEF isCurrent
    <3>9. (Ending(r).backend # 0)'
      BY <1>8, <2>3, <3>5, <3>6 DEF Ending
    <3> QED BY <2>1, <3>5, <3>7, <3>8, <3>9
  <2> QED BY <1>5, <1>6, <2>2, <2>3 DEF ResumeOK, Ending, isCurrent
<1> QED BY <1>14, <1>19, <1>20, <1>21, <1>22, <1>23 DEF ChatInv

\* What a start does to the turns of a conversation.
LEMMA StartsEnd ==
  ASSUME ChatInv, NEW c, NEW t, NEW kept, Starts(c, t, kept),
         NEW d \in DOMAIN ws.convs, NEW i \in DOMAIN ws.convs[d].turns
  PROVE  /\ d \in DOMAIN ws'.convs
         /\ \/ i \in DOMAIN ws'.convs[d].turns /\ ws'.convs[d].turns[i] = ws.convs[d].turns[i]
            \/ /\ i = Len(ws.convs[d].turns) /\ Len(ws'.convs[d].turns) = i
               /\ ws.convs[d].turns[i].status # "completed"
               /\ ws'.convs[d].turns[i].id \notin Turns
<1> DEFINE new == [id |-> t, status |-> "streaming", backend |-> 0, given |-> <<>>]
<1>1. /\ convs \in Nat /\ IsWorkspace(ws, convs) /\ t \in Nat /\ t \notin Turns /\ kept \in Seq(TurnRecs)
  BY DEF ChatInv, TypesOK, WorkTypes, Starts
<1>2. CASE ~Has(ws, c)
  <2>1. ws' = ws
    BY <1>2 DEF Starts
  <2> QED BY <2>1
<1>3. CASE Has(ws, c)
  <2>1. new \in TurnRecs /\ new.id = t
    <3>1. <<>> \in Seq(Envelopes)
      OBVIOUS
    <3> QED BY <1>1, <3>1 DEF TurnRecs, Statuses
  <2> HIDE DEF new
  <2>2. PICK ts \in Seq(TurnRecs), m \in Nat : ts = Append(kept, new) /\ m = Len(kept)
    <3>1. kept \in Seq(TurnRecs) /\ new \in TurnRecs
      BY <1>1, <2>1
    <3>2. Append(kept, new) \in Seq(TurnRecs) /\ Len(kept) \in Nat
      BY <3>1
    <3> QED BY <3>2
  <2>3. /\ Len(ts) = m + 1 /\ ts[m + 1] = new /\ DOMAIN ts = 1..m + 1
        /\ \A j \in 1..m : ts[j] = kept[j]
    BY <1>1, <2>1, <2>2
  <2>4. PICK v : v = WithTurns(ws, c, ts)
    OBVIOUS
  <2>5. c \in DOMAIN ws.convs
    BY <1>3 DEF Has
  <2>6. /\ DOMAIN v.convs = DOMAIN ws.convs /\ v.convs[c].turns = ts
        /\ \A e \in DOMAIN ws.convs : e # c => v.convs[e] = ws.convs[e]
    BY <1>1, <2>4, <2>5, TurnsSet
  <2>7. ws' = v
    BY <1>3, <2>2, <2>4 DEF Starts, new
  <2>8. CASE d # c
    BY <2>6, <2>7, <2>8
  <2>9. CASE d = c
    <3>1. PICK old, n : old = ws.convs[c].turns /\ n = Len(old)
      OBVIOUS
    <3>2. /\ \A j \in 1..m : kept[j] = old[j]
          /\ m = n \/ (m + 1 = n /\ old[m + 1].status # "completed")
          /\ n \in Nat /\ DOMAIN old = 1..n
      BY <1>1, <1>3, <2>2, <2>5, <3>1, ConvType DEF Starts
    <3>3. i \in 1..n
      BY <2>9, <3>1, <3>2
    <3>4. CASE i \in 1..m
      <4>1. i \in DOMAIN ts /\ ts[i] = old[i]
        BY <2>3, <3>2, <3>4
      <4> QED BY <2>6, <2>7, <2>9, <3>1, <4>1
    <3>5. CASE i \notin 1..m
      <4>1. i = m + 1 /\ i = n /\ old[i].status # "completed"
        BY <3>2, <3>3, <3>5
      <4> QED BY <1>1, <2>1, <2>3, <2>6, <2>7, <2>9, <3>1, <4>1
    <3> QED BY <3>4, <3>5
  <2> QED BY <2>8, <2>9
<1> QED BY <1>2, <1>3

-----------------------------------------------------------------------------
(* The theorems.                                                           *)

\* The invariant holds of an empty workspace.
LEMMA Initially ==
  ASSUME Init
  PROVE  ChatInv
<1> USE DEF Init
<1>1. DOMAIN <<>> = {} /\ 1..0 = {} /\ \A S : <<>> \in [{} -> S]
  OBVIOUS
<1>2. Turns = {} /\ Turns = 1..0
  BY <1>1 DEF Turns
<1>3. IsWorkspace(ws, convs) /\ IsWorkspace(shown, convs) /\ DOMAIN ws.convs = {} /\ DOMAIN shown.convs = {}
  BY <1>1 DEF IsWorkspace, NoWorkspace
<1>4. TypesOK
  <2>1. WorkTypes
    BY <1>3 DEF WorkTypes
  <2>2. TurnTypes
    <3>1. asked \in [{} -> Requests] /\ wire \in [{} -> Responses]
      BY <1>1
    <3> QED BY <1>2, <3>1 DEF TurnTypes
  <2>3. OwnerTypes
    BY <1>1 DEF OwnerTypes
  <2> QED BY <2>1, <2>2, <2>3 DEF TypesOK
<1>5. ConvsOK /\ OwnersOK /\ ShownOK /\ WireOK /\ ResumeOK
  BY <1>1, <1>2, <1>3 DEF ConvsOK, OwnersOK, ShownOK, WireOK, ResumeOK
<1> QED BY <1>4, <1>5 DEF ChatInv

\* Every step is of one of four kinds.
LEMMA StepKinds ==
  ASSUME ChatInv, [Next]_vars
  PROVE  Rearranges \/ Quiet \/ (\E c : Moves(c)) \/ \E c, t, kept : Starts(c, t, kept)
<1>1. CASE \/ Render \/ refresh \/ ProbeFails \/ \E installed \in SUBSET Agents : AgentsProbed(installed)
           \/ newChat
           \/ \E agent \in Agents : setSelectedAgent(agent)
           \/ \E c \in 1..MaxConvs : selectConversation(c)
  BY <1>1, RearrangingSteps
<1>2. CASE submit \/ retry
  BY <1>2, UserStarts
<1>3. CASE cancel
  BY <1>3, CancelMoves
<1>4. CASE Unmount
  BY <1>4, UnmountIsQuiet
<1>5. ASSUME NEW t \in Turns, ReadChunk(t) \/ ReadDone(t) \/ Throws(t) \/ Respond(t)
      PROVE  Quiet \/ \E c : Moves(c)
  BY <1>5, ReadMoves, EndsMove, RespondIsQuiet
<1>6. CASE UNCHANGED vars
  <2>1. /\ UNCHANGED <<ws, shown, asked, convs, wire, controllers, mounted>>
        /\ wire \in [Turns -> Responses] /\ WireOK
    BY <1>6 DEF vars, ChatInv, TypesOK, TurnTypes
  <2>2. WireOK'
    BY <2>1 DEF WireOK, Turns
  <2> QED BY <2>1, <2>2 DEF Quiet
<1> QED BY <1>1, <1>2, <1>3, <1>4, <1>5, <1>6 DEF Next

\* Whatever the handlers, the streams and React do, and in whatever order:
\* what was rendered is behind the workspace by nothing but its streams, the
\* owner of a conversation is its last turn, and every turn says what its
\* stream has said.
THEOREM ChatInductive == Spec => []ChatInv
<1>1. Init => ChatInv
  BY Initially
<1>2. ChatInv /\ [Next]_vars => ChatInv'
  BY StepKinds, RearrangingKeeps, QuietKeeps, MovesKeep, StartsKeep
<1> QED BY <1>1, <1>2, PTL DEF Spec

\* The invariant implies the property.
LEMMA TurnsTell ==
  ASSUME ChatInv
  PROVE  TurnTellsItsStream
<1>1. ASSUME NEW c \in DOMAIN ws.convs, NEW i \in DOMAIN ws.convs[c].turns,
             NEW turn, turn = ws.convs[c].turns[i]
      PROVE  LET t == turn.id
                 terminal == deriveTurnStatusFromEnvelopes(t, wire[t].said)
             IN /\ asked[t].conv = c /\ turn.given = wire[t].said
                /\ mounted => (turn.status = "streaming" <=>
                                 c \in DOMAIN controllers /\ controllers[c] = t)
                /\ turn.status \in DaemonTerminal =>
                     \/ turn.status = terminal.status /\ turn.backend = terminal.backend
                     \/ turn.status = "failed" /\ wire[t].said = <<>> /\ turn.backend = 0
                /\ turn.status \in {"aborted-by-client", "network-aborted"} => turn.backend = 0
                /\ turn.status = "network-aborted" => terminal.status = "none"
  <2>1. PICK ts, a : ts = ws.convs[c].turns /\ a = ws.convs[c].agent
    OBVIOUS
  <2>2. TurnsOK(c, a, ts) /\ convs \in Nat /\ IsWorkspace(ws, convs)
    BY <2>1 DEF ChatInv, ConvsOK, ConvOK, TypesOK, WorkTypes
  <2>3. i \in 1..Len(ts) /\ turn = ts[i] /\ turn \in TurnRecs
    BY <1>1, <2>1, <2>2, ConvType
  <2>4. TurnOf(c, a, turn)
    BY <2>2, <2>3 DEF TurnsOK
  <2>5. mounted => (turn.status = "streaming" => c \in DOMAIN controllers /\ controllers[c] = turn.id)
    BY <2>2, <2>3 DEF TurnsOK
  <2>6. ASSUME c \in DOMAIN controllers, controllers[c] = turn.id
        PROVE  turn.status = "streaming"
    <3>1. /\ ts[Len(ts)].status = "streaming"
          /\ \A j \in 1..Len(ts) : j # Len(ts) => ts[j].id # controllers[c]
      BY <2>1, <2>6, OwnTurn DEF Has
    <3> QED BY <2>3, <2>6, <3>1
  <2>7. turn.status \in {"aborted-by-client", "network-aborted"} => turn.backend = 0
    BY <2>4 DEF TurnOf, Tells, DaemonTerminal
  <2>8. Tells(turn) /\ asked[turn.id].conv = c /\ turn.given = wire[turn.id].said
    BY <2>4 DEF TurnOf
  <2> QED BY <2>5, <2>6, <2>7, <2>8 DEF Tells, Ending
<1>2. ASSUME NEW k \in Kept
      PROVE  \E c \in DOMAIN ws.convs : \E i \in DOMAIN ws.convs[c].turns :
               k.conv = c /\ k.turn = ws.convs[c].turns[i]
  <2>1. PICK c \in DOMAIN ws.convs : k \in {[conv |-> c, turn |-> ws.convs[c].turns[i]] : i \in DOMAIN ws.convs[c].turns}
    BY DEF Kept
  <2>2. PICK i \in DOMAIN ws.convs[c].turns : k = [conv |-> c, turn |-> ws.convs[c].turns[i]]
    BY <2>1
  <2> QED BY <2>2
<1>3. \A t \in Turns : asked[t].resume # 0 =>
        /\ asked[asked[t].resume].agent = asked[t].agent
        /\ asked[asked[t].resume].conv = asked[t].conv
        /\ deriveTurnStatusFromEnvelopes(asked[t].resume, wire[asked[t].resume].said).backend # 0
  BY DEF ChatInv, ResumeOK, Ending
<1>4. ASSUME NEW k \in Kept
      PROVE  LET turn == k.turn  t == turn.id
                 terminal == deriveTurnStatusFromEnvelopes(t, wire[t].said)
             IN /\ asked[t].conv = k.conv /\ turn.given = wire[t].said
                /\ mounted => (turn.status = "streaming" <=>
                                 k.conv \in DOMAIN controllers /\ controllers[k.conv] = t)
                /\ turn.status \in DaemonTerminal =>
                     \/ turn.status = terminal.status /\ turn.backend = terminal.backend
                     \/ turn.status = "failed" /\ wire[t].said = <<>> /\ turn.backend = 0
                /\ turn.status \in {"aborted-by-client", "network-aborted"} => turn.backend = 0
                /\ turn.status = "network-aborted" => terminal.status = "none"
  <2>1. PICK c \in DOMAIN ws.convs : \E i \in DOMAIN ws.convs[c].turns :
               k.conv = c /\ k.turn = ws.convs[c].turns[i]
    BY <1>2
  <2>2. PICK i \in DOMAIN ws.convs[c].turns : k.conv = c /\ k.turn = ws.convs[c].turns[i]
    BY <2>1
  <2> QED BY <1>1, <2>2
<1> QED BY <1>3, <1>4 DEF TurnTellsItsStream

\* In every state a turn is shown as running if and only if its stream owns
\* the conversation, a turn that has ended says what its own stream said, and
\* a request resumes a session that an earlier turn of its own conversation
\* and agent has named (useChatViewModel.ts, models/chat.ts).
THEOREM TurnsTellTheirStream == Spec => []TurnTellsItsStream
<1>1. ChatInv => TurnTellsItsStream
  BY TurnsTell
<1> QED BY <1>1, ChatInductive, PTL

\* No step touches a turn that has ended, but for a retry, which takes the
\* last turn away if it has not completed and puts a new one in its place.
THEOREM EndedTurnsAreLeft == Spec => EndedTurnsStay
<1> DEFINE Stay ==
      \A c \in DOMAIN ws.convs : \A i \in DOMAIN ws.convs[c].turns :
        ws.convs[c].turns[i].status # "streaming" =>
          /\ c \in DOMAIN ws'.convs
          /\ \/ i \in DOMAIN ws'.convs[c].turns /\ ws'.convs[c].turns[i] = ws.convs[c].turns[i]
             \/ /\ i = Len(ws.convs[c].turns) /\ Len(ws'.convs[c].turns) = i
                /\ ws.convs[c].turns[i].status # "completed"
                /\ ws'.convs[c].turns[i].id \notin Turns
<1>1. ASSUME ChatInv, [Next]_vars
      PROVE  Stay
  <2> SUFFICES ASSUME NEW c \in DOMAIN ws.convs, NEW i \in DOMAIN ws.convs[c].turns,
                      ws.convs[c].turns[i].status # "streaming"
               PROVE  /\ c \in DOMAIN ws'.convs
                      /\ \/ i \in DOMAIN ws'.convs[c].turns /\ ws'.convs[c].turns[i] = ws.convs[c].turns[i]
                         \/ /\ i = Len(ws.convs[c].turns) /\ Len(ws'.convs[c].turns) = i
                            /\ ws.convs[c].turns[i].status # "completed"
                            /\ ws'.convs[c].turns[i].id \notin Turns
    OBVIOUS
  <2>1. CASE Rearranges
    BY <1>1, <2>1, RearrangingEnds
  <2>2. CASE Quiet
    BY <1>1, <2>2, QuietEnds
  <2>3. CASE \E d : Moves(d)
    BY <1>1, <2>3, MovesEnd
  <2>4. CASE \E d, t, kept : Starts(d, t, kept)
    <3>1. PICK d, t, kept : Starts(d, t, kept)
      BY <2>4
    <3> QED BY <1>1, <3>1, StartsEnd
  <2> QED BY <1>1, <2>1, <2>2, <2>3, <2>4, StepKinds
<1>2. ChatInv /\ [Next]_vars => [Stay]_vars
  BY <1>1
<1> QED BY <1>2, ChatInductive, PTL DEF Spec, EndedTurnsStay
=============================================================================
