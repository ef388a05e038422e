--------------------------- MODULE ChatWorkspace ---------------------------
(***************************************************************************)
(* The chat of the dashboard (useChatViewModel.ts): conversations whose    *)
(* turns are streams of POST /v1/agents/{type}/exec.  The page runs on one *)
(* thread: a step is an event handler, or what runs when an await of a     *)
(* turn's own function resolves.  Handlers close over what was last        *)
(* rendered (shown), which is behind the state (ws) until React renders    *)
(* what such a function or the probe of the agents has set; a click is     *)
(* rendered at once.                                                       *)
(*                                                                         *)
(* The controller of a turn is named by the turn.  A backend session id is *)
(* named by the turn whose session_ended carried it, 0 for none.  The      *)
(* search box, the titles and the envelopes other than session_ended are   *)
(* left out, a turn keeps how many chunks it has been given.               *)
(***************************************************************************)
EXTENDS Naturals, Sequences, FiniteSets

CONSTANTS
  Agents,      \* agent types
  Terminals,   \* statuses that session_ended may carry here
  MaxConvs, MaxTurns, MaxChunks, MaxProbes   \* bounds

DaemonTerminal == {"completed", "failed", "timeout", "cancelled", "aborted"}

ASSUME ChatAssumption ==
  /\ Terminals \subseteq DaemonTerminal
  /\ MaxConvs \in Nat \ {0} /\ MaxTurns \in Nat /\ MaxChunks \in Nat /\ MaxProbes \in Nat

VARIABLES
  ws,           \* conversations by id, the active one, the installed agents once probed
  shown,        \* ws as last rendered
  probing,      \* the probe of the agents is on its way
  controllers,  \* the running turn of each conversation that has one
  mounted,      \* the page is open
  asked,        \* each turn's request: conversation, agent, resume id
  wire,         \* each turn's response: phase, chunks not read yet, envelopes read
  convs, probes \* conversations made, probes sent

vars == <<ws, shown, probing, controllers, mounted, asked, wire, convs, probes>>

Turns == DOMAIN asked

-----------------------------------------------------------------------------
(* The workspace.                                                          *)

Has(w, c) == c \in DOMAIN w.convs   \* id 0 is none's
Active(w) == w.convs[w.active]
Last(turns) == turns[Len(turns)]
Streaming(turns) == turns # <<>> /\ Last(turns).status = "streaming"

SetConv(w, c, conv) == [w EXCEPT !.convs = [d \in DOMAIN @ \cup {c} |-> IF d = c THEN conv ELSE @[d]]]

\* Conversations without a turn are dropped when another one is opened.
activateNew(w, c, agent) ==
  LET kept == {d \in DOMAIN w.convs : w.convs[d].turns # <<>>}
  IN [w EXCEPT !.active = c,
               !.convs = [d \in kept \cup {c} |-> IF d = c THEN [agent |-> agent, turns |-> <<>>]
                                                           ELSE w.convs[d]]]

SetTurn(w, c, t, Update(_)) ==
  IF ~Has(w, c) THEN w
  ELSE [w EXCEPT !.convs[c].turns =
          [i \in DOMAIN @ |-> IF @[i].id = t THEN Update(@[i]) ELSE @[i]]]

\* The last turn whose session_ended carried an id.
latestResumeSessionId(turns) ==
  LET given == {i \in DOMAIN turns : turns[i].backend # 0}
  IN IF given = {} THEN 0 ELSE turns[CHOOSE i \in given : \A j \in given : j <= i].backend

Text == [status |-> "none", named |-> FALSE]   \* an envelope that ends nothing

deriveTurnStatusFromEnvelopes(t, given) ==
  IF given = <<>> \/ Last(given) = Text
    THEN [status |-> "none", backend |-> 0]
    ELSE [status |-> Last(given).status, backend |-> IF Last(given).named THEN t ELSE 0]

\* An event handler's state is rendered before another handler runs.
Click(w) == ws' = w /\ shown' = w

Render == mounted /\ shown # ws /\ shown' = ws
  /\ UNCHANGED <<ws, probing, controllers, mounted, asked, wire, convs, probes>>

-----------------------------------------------------------------------------
(* The probe of the agents.                                                *)

refresh ==
  /\ mounted /\ probes < MaxProbes
  /\ probes' = probes + 1 /\ probing' = TRUE
  /\ Click([ws EXCEPT !.installed = {}])
  /\ UNCHANGED <<controllers, mounted, asked, wire, convs>>

AgentsProbed(installed) ==
  /\ mounted /\ probing
  /\ probing' = FALSE
  /\ LET w == [ws EXCEPT !.installed = installed]
     IN IF Has(w, w.active) /\ Active(w).agent \in installed
          THEN ws' = w /\ UNCHANGED convs
          ELSE IF installed = {} THEN ws' = [w EXCEPT !.active = 0] /\ UNCHANGED convs
          ELSE /\ convs < MaxConvs /\ convs' = convs + 1
               /\ \E first \in installed : ws' = activateNew(w, convs + 1, first)
  /\ UNCHANGED <<shown, controllers, mounted, asked, wire, probes>>

ProbeFails ==
  /\ mounted /\ probing
  /\ probing' = FALSE
  /\ UNCHANGED <<ws, shown, controllers, mounted, asked, wire, convs, probes>>

-----------------------------------------------------------------------------
(* The user.                                                               *)

With(f, k, v) == [x \in DOMAIN f \cup {k} |-> IF x = k THEN v ELSE f[x]]
Without(f, k) == [x \in DOMAIN f \ {k} |-> f[x]]

\* startTurn: the turns it keeps, the agent and the resume id are those of
\* the last rendering.  (The conversation of that rendering is still in the
\* state: while a probe may drop it no agent is rendered as installed.)
startTurn(retained) ==
  LET c == shown.active  t == Cardinality(Turns) + 1
  IN /\ Active(shown).agent \in shown.installed
     /\ c \notin DOMAIN controllers /\ t <= MaxTurns
     /\ controllers' = With(controllers, c, t)
     /\ asked' = With(asked, t, [conv |-> c, agent |-> Active(shown).agent,
                                 resume |-> latestResumeSessionId(retained)])
     /\ wire' = With(wire, t, [phase |-> "asked", chunks |-> <<>>, said |-> <<>>])
     /\ Click(IF Has(ws, c)
                THEN [ws EXCEPT !.convs[c].turns = Append(retained,
                        [id |-> t, status |-> "streaming", backend |-> 0, given |-> <<>>])]
                ELSE ws)
     /\ UNCHANGED <<probing, mounted, convs, probes>>

\* The composer sends only when canSend, a stream's turn has no retry.
submit ==
  /\ mounted /\ Has(shown, shown.active) /\ ~Streaming(Active(shown).turns)
  /\ startTurn(Active(shown).turns)

retry ==
  /\ mounted /\ Has(shown, shown.active)
  /\ LET turns == Active(shown).turns
     IN /\ turns # <<>> /\ Last(turns).status \notin {"streaming", "completed"}
        /\ startTurn(SubSeq(turns, 1, Len(turns) - 1))

\* Nothing is left to cancel once the stream has ended, rendered or not.
cancel ==
  LET c == shown.active
  IN /\ mounted /\ Has(shown, c) /\ Streaming(Active(shown).turns) /\ c \in DOMAIN controllers
     /\ controllers' = Without(controllers, c)
     /\ wire' = [wire EXCEPT ![controllers[c]].phase = "broken"]
     /\ Click(SetTurn(ws, c, Last(Active(shown).turns).id,
                      LAMBDA turn : [turn EXCEPT !.status = "aborted-by-client"]))
     /\ UNCHANGED <<probing, mounted, asked, convs, probes>>

Opens(agent) ==
  /\ Click(activateNew(ws, convs + 1, agent)) /\ convs < MaxConvs /\ convs' = convs + 1

newChat ==
  /\ mounted /\ shown.installed # {}
  /\ \E agent \in shown.installed :
       /\ Has(shown, shown.active) /\ Active(shown).agent \in shown.installed =>
            agent = Active(shown).agent
       /\ Opens(agent)
  /\ UNCHANGED <<probing, controllers, mounted, asked, wire, probes>>

\* A conversation without turns takes the agent, else there is a new one.
setSelectedAgent(agent) ==
  /\ mounted /\ agent \in shown.installed
  /\ ~(Has(shown, shown.active) /\ Active(shown).agent = agent)
  /\ IF Has(ws, ws.active) /\ Active(ws).turns = <<>>
       THEN Click([ws EXCEPT !.convs[ws.active].agent = agent]) /\ UNCHANGED convs
       ELSE Opens(agent)
  /\ UNCHANGED <<probing, controllers, mounted, asked, wire, probes>>

selectConversation(c) ==
  /\ mounted /\ Has(shown, c) /\ shown.convs[c].turns # <<>> /\ c # shown.active
  /\ Click(IF Has(ws, c) THEN [ws EXCEPT !.active = c] ELSE ws)
  /\ UNCHANGED <<probing, controllers, mounted, asked, wire, convs, probes>>

\* Every running turn is aborted; without a controller it does nothing.
Unmount ==
  /\ mounted /\ mounted' = FALSE
  /\ controllers' = <<>>
  /\ wire' = [t \in Turns |-> [wire[t] EXCEPT !.phase = "gone"]]
  /\ UNCHANGED <<ws, shown, probing, asked, convs, probes>>

-----------------------------------------------------------------------------
(* A turn's own function.                                                  *)

\* Fault: any controller of the conversation will do.
isAnyController(t) == asked[t].conv \in DOMAIN controllers

isCurrent(t) == asked[t].conv \in DOMAIN controllers /\ controllers[asked[t].conv] = t

\* Fault: the chunk that was waited for is taken whatever happened since.
ReadsOn(t) ==
  /\ wire[t].phase \in {"open", "ended", "broken"} /\ wire[t].chunks # <<>>
  /\ ws' = SetTurn(ws, asked[t].conv, t,
                   LAMBDA turn : [turn EXCEPT !.given = Append(@, Head(wire[t].chunks))])
  /\ wire' = [wire EXCEPT ![t].chunks = Tail(@), ![t].said = Append(@, Head(wire[t].chunks))]
  /\ UNCHANGED <<shown, probing, controllers, mounted, asked, convs, probes>>

\* A chunk may also have been on its way when the request was aborted.
ReadChunk(t) ==
  /\ wire[t].phase \in {"open", "ended", "broken"} /\ wire[t].chunks # <<>>
  /\ IF isCurrent(t)
       THEN /\ ws' = SetTurn(ws, asked[t].conv, t,
                             LAMBDA turn : [turn EXCEPT !.given = Append(@, Head(wire[t].chunks))])
            /\ wire' = [wire EXCEPT ![t].chunks = Tail(@), ![t].said = Append(@, Head(wire[t].chunks))]
       ELSE wire' = [wire EXCEPT ![t].phase = "gone"] /\ UNCHANGED ws
  /\ UNCHANGED <<shown, probing, controllers, mounted, asked, convs, probes>>

Verdict(t, otherwise) ==
  LET terminal == deriveTurnStatusFromEnvelopes(t, wire[t].said)
  IN IF terminal.status = "none" THEN [status |-> otherwise, backend |-> 0] ELSE terminal

\* The turn is given its status, and the controller is let go, unless
\* another turn or nobody owns the conversation by now.
Settle(t, verdict) ==
  /\ wire' = [wire EXCEPT ![t].phase = "gone"]
  /\ IF isCurrent(t)
       THEN /\ ws' = SetTurn(ws, asked[t].conv, t,
                             LAMBDA turn : [turn EXCEPT !.status = verdict.status,
                                                        !.backend = verdict.backend])
            /\ controllers' = Without(controllers, asked[t].conv)
       ELSE UNCHANGED <<ws, controllers>>
  /\ UNCHANGED <<shown, probing, mounted, asked, convs, probes>>

ReadDone(t) ==
  /\ wire[t].phase = "ended" /\ wire[t].chunks = <<>>
  /\ Settle(t, Verdict(t, "network-aborted"))

Throws(t) ==
  \/ wire[t].phase = "refused" /\ Settle(t, Verdict(t, "failed"))
  \/ wire[t].phase = "broken"  /\ Settle(t, Verdict(t, "network-aborted"))

-----------------------------------------------------------------------------
(* The daemon and the network.                                             *)

Put(t, phase, chunks) == wire' = [wire EXCEPT ![t].phase = phase, ![t].chunks = @ \o chunks]

Respond(t) ==
  /\ \/ wire[t].phase = "asked" /\ \E phase \in {"open", "refused", "broken"} : Put(t, phase, <<>>)
     \/ /\ wire[t].phase = "open"
        /\ \/ Len(wire[t].chunks) + Len(wire[t].said) < MaxChunks /\ Put(t, "open", <<Text>>)
           \/ \E s \in Terminals, named \in BOOLEAN :
                Put(t, "ended", <<[status |-> s, named |-> named]>>)
           \/ Put(t, "ended", <<>>)
           \/ Put(t, "broken", <<>>)
     \/ wire[t].phase = "ended" /\ Put(t, "broken", <<>>)
  /\ UNCHANGED <<ws, shown, probing, controllers, mounted, asked, convs, probes>>

-----------------------------------------------------------------------------

NoWorkspace == [convs |-> <<>>, active |-> 0, installed |-> {}]

Init ==
  /\ ws = NoWorkspace /\ shown = NoWorkspace
  /\ probing = TRUE /\ controllers = <<>> /\ mounted = TRUE
  /\ asked = <<>> /\ wire = <<>> /\ convs = 0 /\ probes = 1

Next ==
  \/ Render \/ refresh \/ ProbeFails \/ \E installed \in SUBSET Agents : AgentsProbed(installed)
  \/ submit \/ retry \/ cancel \/ newChat \/ Unmount
  \/ \E agent \in Agents : setSelectedAgent(agent)
  \/ \E c \in 1..MaxConvs : selectConversation(c)
  \/ \E t \in Turns : ReadChunk(t) \/ ReadDone(t) \/ Throws(t) \/ Respond(t)

Spec == Init /\ [][Next]_vars
=============================================================================
