-------------------------- MODULE CodexTurn_proofs --------------------------
(***************************************************************************)
(* What the Result of a codex run says of the child, for every option, any *)
(* notifications in any order and number, and any capacity of the activity *)
(* channel.                                                                *)
(*                                                                         *)
(* None of the invariants is inductive: they speak of the lines the reader *)
(* has heard, the code of what it made of them.  The invariant that is     *)
(* says what the reader's dialect, the error flag, the turn-done channel,  *)
(* the activity channel and the count of texts owe to those lines.         *)
(***************************************************************************)
EXTENDS CodexTurnProps, Integers, FiniteSetTheorems, SequenceTheorems, TLAPS

NoteKinds == LegacyKinds \cup RawKinds \cup {Unsupported}
Threads   == {"ours", "foreign", "early"}
Lines     == [k : NoteKinds \cup {"ok", "bad"}, of : Methods \cup Threads]
Working   == Methods \cup {"waiting"}
Statuses  == {"completed", "failed", "aborted", "timeout"}
Causes    == {"none", "handshake", "turn", "no_progress", "inactivity", "context", "exit"}
Activity  == {"status:running", "progress", "error:retry"}

ChildTypes ==
  /\ opts \subseteq {"resume", "name"} /\ ctx \in {"live", "canceled", "deadline"}
  /\ proc \in {"up", "exited"} /\ asked \subseteq Methods /\ said \in Seq(Lines)
ReaderTypes ==
  /\ reader \in {"reading", "done", "choked"} /\ heard \in Nat /\ heard <= Len(said)
  /\ protocol \in {"unknown", "raw", "legacy"} /\ turnStarted \in BOOLEAN
EndTypes ==
  /\ threadID \in {"", "ours"} /\ turnDone \in {"empty", "done", "aborted"}
  /\ turnError \in BOOLEAN
QueueTypes == activity \in Seq(Activity) /\ dropped \in BOOLEAN
MainTypes ==
  /\ pc \in Working \cup {"closing", "killing", "reaping", "failing", "closed"}
  /\ call \in {"unsent", "waiting", "ok", "bad", "exit"}
  /\ firstTurn \in {"off", "armed", "stopped"}
  /\ verdict \in [status : Statuses, cause : Causes]
ResultTypes ==
  texts \in Nat /\ result \in [status : Statuses \cup {"none"}, output : Nat]

TypesOK ==
  ChildTypes /\ ReaderTypes /\ EndTypes /\ QueueTypes /\ MainTypes /\ ResultTypes

\* A line of another thread is a notification of the raw protocol, and one
\* that is not early comes when our thread is known.
SaidOK ==
  /\ \A i \in 1..Len(said) :
       IsNote(said[i]) =>
         /\ said[i].of \in Threads
         /\ said[i].of # "ours" => said[i].k \in RawKinds
         /\ said[i].of # "early" => threadID = "ours"
  /\ "turn/start" \in asked \/ pc \in {"turn/start", "waiting"} => threadID = "ours"

\* The reader's dialect is that of the lines it has heard.
Legacy(n)  == \E j \in 1..n : said[j].k \in LegacyKinds
Telling(n) == \E j \in 1..n : said[j].k \in TellingKinds

DialectOK ==
  /\ protocol = "legacy" <=> Legacy(heard)
  /\ protocol = "raw" <=> Telling(heard) /\ ~Legacy(heard)

Failures == ErrorKinds \cup {Unsupported}
Ends     == CleanKinds \cup ErrorKinds
Others   == EndKinds \ (GuardedKinds \cup AbortKinds)

\* What the two goroutines share of the end of the turn.
ErrorOK == IF turnError THEN Heard(Failures) \cup Early(ErrorKinds) # {}
                        ELSE Heard(Failures) = {}

DoneOK ==
  pc \in Working =>
    /\ verdict = NoVerdict
    /\ turnDone = "empty" => Heard(EndKinds \ GuardedKinds) = {}
    /\ turnDone = "aborted" => Announced(AbortKinds, Others)
    /\ turnDone = "done" => Announced(Ends, AbortKinds)
    /\ turnDone = "done" /\ ~turnError => Announced(CleanKinds, AbortKinds)

\* Where the lifecycle goroutine is, the verdict and the end of the reader.
ShutdownOK ==
  /\ verdict.cause = "handshake" => pc \in {"failing", "closed"}
  /\ pc = "failing" => verdict.cause = "handshake"
  /\ verdict.cause = "exit" => Ended
  /\ pc = "reaping" \/ (pc = "closed" /\ verdict.cause # "handshake") => Ended
  /\ pc = "closed" => proc = "exited"
  /\ reader = "done" => /\ proc = "exited"
                        /\ heard = Len(said) \/ (pc = "closed" /\ verdict.cause = "handshake")

TextOK ==
  /\ pc # "closed" \/ verdict.cause # "handshake" =>
       /\ texts >= Cardinality(Heard(TextKinds))
       /\ texts <= Cardinality(Heard(TextKinds) \cup Early(TextKinds))
  /\ pc = "closed" /\ verdict.cause # "handshake" => result.output = texts

\* Every activity since the turn started is queued until it is seen.
Queued(a) == \E p \in 1..Len(activity) : activity[p] = a
ActivityOK ==
  ~dropped =>
    /\ Heard(StartKinds) # {} => firstTurn # "off" \/ Queued("status:running")
    /\ \A s \in Heard(StartKinds), i \in Heard(Progress) : s < i =>
         \/ firstTurn = "stopped"
         \/ firstTurn = "armed" /\ Queued("progress")
         \/ /\ firstTurn = "off"
            /\ \E p, q \in 1..Len(activity) :
                 p < q /\ activity[p] = "status:running" /\ activity[q] = "progress"

CInv ==
  /\ TypesOK /\ SaidOK /\ DialectOK /\ ErrorOK /\ DoneOK
  /\ EndIsTheChilds /\ CompletionBeatsExit /\ ShutdownOK /\ TextOK /\ ActivityOK

-----------------------------------------------------------------------------
(* The lines that are heard.                                               *)

\* The sets of kinds are of notifications.
LEMMA KindSets ==
  /\ StartKinds \in SUBSET NoteKinds /\ TextKinds \in SUBSET NoteKinds
  /\ AbortKinds \in SUBSET NoteKinds /\ ErrorKinds \in SUBSET NoteKinds
  /\ CleanKinds \in SUBSET NoteKinds /\ Failures \in SUBSET NoteKinds
  /\ EndKinds \ GuardedKinds \in SUBSET NoteKinds /\ Progress \in SUBSET NoteKinds
  /\ Bad \in SUBSET NoteKinds /\ TellingKinds \in SUBSET NoteKinds
  /\ Ends \in SUBSET NoteKinds /\ Others \in SUBSET NoteKinds
  BY DEF StartKinds, TextKinds, AbortKinds, ErrorKinds, CleanKinds, Failures, EndKinds, Ends,
         Others, GuardedKinds, Progress, Bad, TellingKinds, NoteKinds, LegacyKinds, RawKinds

\* What has been heard is part of what was said.
LEMMA LineTypes ==
  ASSUME TypesOK
  PROVE  /\ heard \in Nat /\ Len(said) \in Nat /\ heard <= Len(said)
         /\ \A i \in 1..heard : i \in 1..Len(said)
         /\ \A i \in 1..Len(said) : said[i] \in Lines
<1>1. said \in Seq(Lines) /\ heard \in Nat /\ heard <= Len(said)
  BY DEF TypesOK, ChildTypes, ReaderTypes
<1>2. Len(said) \in Nat
  BY <1>1
<1>3. \A i \in 1..Len(said) : said[i] \in Lines
  BY <1>1
<1>4. \A i \in 1..heard : i \in 1..Len(said)
  BY <1>1, <1>2
<1> QED BY <1>1, <1>2, <1>3, <1>4

\* What the child adds to its output changes none of the lines before it.
SameLines == /\ Len(said') \in Nat /\ Len(said') >= Len(said)
             /\ \A i \in 1..Len(said) : said'[i] = said[i]

\* Whether a line is of our thread does not change.
LEMMA OursStays ==
  ASSUME TypesOK, SameLines
  PROVE  \A i \in 1..Len(said) : Ours(i)' = Ours(i)
<1> SUFFICES ASSUME NEW i \in 1..Len(said) PROVE Ours(i)' = Ours(i)
  OBVIOUS
<1>1. Len(said) \in Nat /\ \A j \in 1..i : j \in 1..Len(said)
  BY LineTypes
<1>2. \A j \in 1..i : said'[j] = said[j]
  BY <1>1 DEF SameLines
<1>3. said'[i] = said[i]
  BY DEF SameLines
<1>4. IsNote(said[i])' = IsNote(said[i])
  BY <1>3 DEF IsNote
<1> QED BY <1>2, <1>3, <1>4 DEF Ours

\* What was heard does not change by what is said.
LEMMA HeardStays ==
  ASSUME TypesOK, SameLines, heard' = heard
  PROVE  /\ \A ks \in SUBSET NoteKinds : Heard(ks)' = Heard(ks) /\ Early(ks)' = Early(ks)
         /\ Legacy(heard)' = Legacy(heard) /\ Telling(heard)' = Telling(heard)
<1>1. \A i \in 1..heard : said'[i] = said[i] /\ Ours(i)' = Ours(i)
  BY LineTypes, OursStays DEF SameLines
<1>2. \A ks \in SUBSET NoteKinds : Heard(ks)' = Heard(ks)
  BY <1>1 DEF Heard
<1>3. \A ks \in SUBSET NoteKinds : Early(ks)' = Early(ks)
  BY <1>1 DEF Early, IsNote
<1>4. Legacy(heard)' = Legacy(heard) /\ Telling(heard)' = Telling(heard)
  BY <1>1 DEF Legacy, Telling
<1> QED BY <1>2, <1>3, <1>4

\* One more line is heard.
LEMMA HeardNext ==
  ASSUME TypesOK, NEW n \in Nat, n = heard + 1, n <= Len(said), heard' = n, UNCHANGED said
  PROVE  /\ \A ks \in SUBSET NoteKinds :
              /\ Heard(ks)' = Heard(ks) \cup (IF Ours(n) /\ said[n].k \in ks THEN {n} ELSE {})
              /\ Early(ks)' = Early(ks) \cup (IF /\ IsNote(said[n]) /\ said[n].of = "early"
                                                 /\ said[n].k \in ks THEN {n} ELSE {})
              /\ \A i \in Heard(ks) \cup Early(ks) : i \in Nat /\ i < n
         /\ Legacy(heard)' <=> Legacy(heard) \/ said[n].k \in LegacyKinds
         /\ Telling(heard)' <=> Telling(heard) \/ said[n].k \in TellingKinds
<1>1. heard \in Nat /\ 1..heard' = (1..heard) \cup {n} /\ \A i \in 1..heard : i \in Nat /\ i < n
  BY LineTypes
<1>2. \A i : Ours(i)' = Ours(i)
  BY DEF Ours, IsNote
<1>3. \A ks \in SUBSET NoteKinds :
        Heard(ks)' = Heard(ks) \cup (IF Ours(n) /\ said[n].k \in ks THEN {n} ELSE {})
  BY <1>1, <1>2 DEF Heard
<1>4. \A ks \in SUBSET NoteKinds :
        Early(ks)' = Early(ks) \cup (IF /\ IsNote(said[n]) /\ said[n].of = "early"
                                        /\ said[n].k \in ks THEN {n} ELSE {})
  BY <1>1 DEF Early, IsNote
<1>5. \A ks \in SUBSET NoteKinds : \A i \in Heard(ks) \cup Early(ks) : i \in Nat /\ i < n
  BY <1>1 DEF Heard, Early
<1>6. /\ Legacy(heard)' <=> Legacy(heard) \/ said[n].k \in LegacyKinds
      /\ Telling(heard)' <=> Telling(heard) \/ said[n].k \in TellingKinds
  BY <1>1 DEF Legacy, Telling
<1> QED BY <1>3, <1>4, <1>5, <1>6

\* The reader heeds the lines of our thread that are in its dialect, and
\* others only while it does not know our thread.
LEMMA Heeded ==
  ASSUME TypesOK, SaidOK, DialectOK, NEW n \in Nat, n = heard + 1, n <= Len(said)
  PROVE  /\ Heeds(said[n]) /\ IsNote(said[n]) => Ours(n) \/ said[n].of = "early"
         /\ Ours(n) => Heeds(said[n]) /\ IsNote(said[n]) /\ said[n].of = "ours"
         /\ IsNote(said[n]) =>
              /\ Protocol(said[n]) = "legacy" <=> Legacy(heard) \/ said[n].k \in LegacyKinds
              /\ Protocol(said[n]) = "raw" <=>
                   /\ Telling(heard) \/ said[n].k \in TellingKinds
                   /\ ~(Legacy(heard) \/ said[n].k \in LegacyKinds)
              /\ Protocol(said[n]) \in {"unknown", "raw", "legacy"}
<1>1. /\ n \in 1..Len(said) /\ heard \in Nat /\ 1..n = (1..heard) \cup {n} /\ said[n] \in Lines
      /\ protocol \in {"unknown", "raw", "legacy"}
  <2>1. heard \in Nat /\ Len(said) \in Nat /\ \A i \in 1..Len(said) : said[i] \in Lines
    BY LineTypes
  <2>2. n \in 1..Len(said) /\ 1..n = (1..heard) \cup {n}
    BY <2>1
  <2> QED BY <2>1, <2>2 DEF TypesOK, ReaderTypes
<1>2. Ours(n) <=> /\ IsNote(said[n]) /\ said[n].of = "ours"
                  /\ \/ said[n].k \in LegacyKinds \cup {Unsupported}
                     \/ /\ Telling(heard) \/ said[n].k \in TellingKinds
                        /\ ~(Legacy(heard) \/ said[n].k \in LegacyKinds)
  BY <1>1 DEF Ours, Legacy, Telling
<1>3. /\ Protocol(said[n]) = "legacy" <=> Legacy(heard) \/ said[n].k \in LegacyKinds
      /\ Protocol(said[n]) = "raw" <=>
           /\ Telling(heard) \/ said[n].k \in TellingKinds
           /\ ~(Legacy(heard) \/ said[n].k \in LegacyKinds)
      /\ Protocol(said[n]) \in {"unknown", "raw", "legacy"}
  <2> DEFINE L == said[n].k \in LegacyKinds
             T == said[n].k \in TellingKinds
             K == Legacy(heard)
             U == Telling(heard)
  <2>1. (protocol = "legacy" <=> K) /\ (protocol = "raw" <=> U /\ ~K)
    BY DEF DialectOK
  <2>2. Protocol(said[n]) = IF L THEN "legacy"
                            ELSE IF protocol = "unknown" /\ T THEN "raw" ELSE protocol
    BY DEF Protocol
  <2> HIDE DEF L, T, K, U
  <2>3. /\ Protocol(said[n]) = "legacy" <=> K \/ L
        /\ Protocol(said[n]) = "raw" <=> (U \/ T) /\ ~(K \/ L)
        /\ Protocol(said[n]) \in {"unknown", "raw", "legacy"}
    BY <1>1, <2>1, <2>2
  <2> QED BY <2>3 DEF L, T, K, U
<1>4. IsNote(said[n]) =>
         /\ said[n].of \in Threads
         /\ said[n].of # "ours" => said[n].k \notin LegacyKinds \cup {Unsupported}
         /\ said[n].of = "foreign" => threadID # ""
  BY <1>1 DEF SaidOK, LegacyKinds, RawKinds, Unsupported
<1>5. said[n].of = "ours" => (Heeds(said[n]) /\ IsNote(said[n]) <=> Ours(n))
  BY <1>2, <1>3 DEF Heeds
<1> QED BY <1>2, <1>3, <1>4, <1>5 DEF Heeds, Threads

-----------------------------------------------------------------------------
(* Types.                                                                  *)

\* What follows a request is another one, the wait or the failure.
LEMMA AfterType ==
  ASSUME NEW m \in Methods, NEW o
  PROVE  /\ After(m, o) \in Methods \cup {"waiting", "failing"}
         /\ After(m, o) = "waiting" => m = "turn/start"
  BY DEF After, Methods

\* What a notification puts into the activity channel, by its kind.
LEMMA ActivitiesType ==
  ASSUME NEW k
  PROVE  /\ k \in StartKinds => Activities(k) = <<"status:running">>
         /\ k \in Progress => Activities(k) \in {<<"progress">>, <<"progress", "progress">>}
         /\ k \notin StartKinds \cup Progress => Activities(k) \in {<<>>, <<"error:retry">>}
<1>1. CASE k \in StartKinds
  BY <1>1 DEF Activities, StartKinds, Progress, TextKinds
<1>2. CASE k \in {"text", "final_answer"}
  BY <1>2 DEF Activities, StartKinds, Progress, TextKinds
<1>3. CASE k \in {"item", "agent_message", "error"}
  BY <1>3 DEF Activities, StartKinds, Progress, TextKinds
<1>4. CASE k = "retry"
  BY <1>4 DEF Activities, StartKinds, Progress, TextKinds
<1>5. CASE k \notin StartKinds \cup {"text", "final_answer", "item", "agent_message", "error", "retry"}
  BY <1>5 DEF Activities, StartKinds, Progress, TextKinds
<1> QED BY <1>1, <1>2, <1>3, <1>4, <1>5

\* onSemanticActivity: what is queued afterwards.
LEMMA TrySendType ==
  ASSUME TypesOK, NEW acts \in Seq(Activity), TrySend(acts)
  PROVE  /\ activity' \in Seq(Activity) /\ dropped' \in BOOLEAN
         /\ dropped => dropped'
         /\ ~dropped' => activity' = activity \o acts
<1>1. activity \in Seq(Activity) /\ dropped \in BOOLEAN
  BY DEF TypesOK, QueueTypes
<1>2. PICK r \in Int : r = Room
  <2>1. Len(activity) \in Nat /\ ActivityCap \in Nat
    BY <1>1, CodexAssumption
  <2> QED BY <2>1 DEF Room
<1>3. /\ activity' = activity \o SubSeq(acts, 1, IF Len(acts) <= r THEN Len(acts) ELSE r)
      /\ dropped' = (dropped \/ Len(acts) > r)
  BY <1>2 DEF TrySend
<1>4. Len(acts) \in Nat
  OBVIOUS
<1>5. CASE Len(acts) <= r
  <2>1. SubSeq(acts, 1, Len(acts)) = acts
    BY SubSeqFull
  <2>2. activity' = activity \o acts
    BY <1>3, <1>5, <2>1
  <2>3. dropped' = dropped
    BY <1>1, <1>3, <1>4, <1>5
  <2> QED BY <1>1, <2>2, <2>3
<1>6. CASE ~(Len(acts) <= r)
  <2>1. activity' = activity \o SubSeq(acts, 1, r)
    BY <1>3, <1>6
  <2>2. dropped' = TRUE
    <3>1. Len(acts) > r
      BY <1>2, <1>4, <1>6
    <3> QED BY <1>3, <3>1
  <2>3. \A i \in 1..r : acts[i] \in Activity
    BY <1>4, <1>6
  <2>4. SubSeq(acts, 1, r) \in Seq(Activity)
    BY <2>3, SubSeqProperties
  <2> QED BY <1>1, <2>1, <2>2, <2>4
<1> QED BY <1>5, <1>6

\* The same as a sequence.
LEMMA ActivitiesSeq == ASSUME NEW k \in NoteKinds PROVE Activities(k) \in Seq(Activity)
<1>1. <<>> \in Seq(Activity) /\ <<"status:running">> \in Seq(Activity)
      /\ <<"progress">> \in Seq(Activity) /\ <<"progress", "progress">> \in Seq(Activity)
      /\ <<"error:retry">> \in Seq(Activity)
  BY DEF Activity
<1> QED BY <1>1, ActivitiesType

\* What the reader makes of a line that it heeds, and of the others.
LEMMA Hear ==
  ASSUME TypesOK, HandleLine
  PROVE  \E n \in Nat :
           /\ n = heard + 1 /\ n <= Len(said) /\ heard' = n /\ reader = "reading"
           /\ UNCHANGED <<opts, ctx, childVars, reader, threadID, pc, firstTurn, verdict, result>>
           /\ \/ IsNote(said[n]) /\ TakeNote(said[n])
              \/ ~IsNote(said[n]) /\ TakeResponse(said[n])
<1>1. heard + 1 \in Nat /\ heard + 1 <= Len(said)
  <2>1. heard \in Nat /\ Len(said) \in Nat /\ heard < Len(said)
    BY LineTypes DEF HandleLine
  <2> QED BY <2>1
<1>2. \/ IsNote(said[heard + 1]) /\ TakeNote(said[heard + 1])
      \/ ~IsNote(said[heard + 1]) /\ TakeResponse(said[heard + 1])
  BY DEF HandleLine
<1> QED BY <1>1, <1>2 DEF HandleLine

Unheard == UNCHANGED <<turnStarted, turnError, turnDone, activity, dropped, texts>>

\* Handling a line keeps the types.
LEMMA HandleTypes ==
  ASSUME TypesOK, SaidOK, DialectOK, HandleLine
  PROVE  TypesOK'
<1>1. PICK n \in Nat :
           /\ n = heard + 1 /\ n <= Len(said) /\ heard' = n /\ reader = "reading"
           /\ UNCHANGED <<opts, ctx, childVars, reader, threadID, pc, firstTurn, verdict, result>>
           /\ \/ IsNote(said[n]) /\ TakeNote(said[n])
              \/ ~IsNote(said[n]) /\ TakeResponse(said[n])
  BY Hear
<1>2. said[n] \in Lines
  <2>1. n \in 1..Len(said)
    BY <1>1, LineTypes
  <2> QED BY <2>1, LineTypes
<1>3. UNCHANGED <<opts, ctx, proc, asked, said, reader, threadID, pc, firstTurn, verdict, result>>
  BY <1>1 DEF childVars
<1>4. CASE IsNote(said[n]) /\ TakeNote(said[n])
  <2>1. protocol' \in {"unknown", "raw", "legacy"}
    BY <1>1, <1>4, Heeded DEF TakeNote, TypesOK, ReaderTypes
  <2>2. CASE Heeds(said[n])
    <3>1. /\ TrySend(Activities(said[n].k)) /\ call' = call
          /\ turnStarted' = (turnStarted \/ said[n].k \in StartKinds)
          /\ turnError' = (turnError \/ said[n].k \in ErrorKinds \cup {Unsupported})
          /\ turnDone' \in {"aborted", "done", turnDone}
          /\ texts' \in {texts, texts + 1}
      BY <1>4, <2>2 DEF TakeNote
    <3>2. activity' \in Seq(Activity) /\ dropped' \in BOOLEAN
      BY <1>4, <3>1, ActivitiesSeq, TrySendType DEF IsNote, NoteKinds
    <3>3. EndTypes'
      BY <1>3, <3>1 DEF TypesOK, EndTypes
    <3>4. ReaderTypes'
      BY <1>1, <1>3, <2>1, <3>1 DEF TypesOK, ReaderTypes
    <3>5. ChildTypes' /\ MainTypes' /\ ResultTypes'
      BY <1>3, <3>1 DEF TypesOK, ChildTypes, MainTypes, ResultTypes
    <3> QED BY <3>2, <3>3, <3>4, <3>5 DEF TypesOK, QueueTypes
  <2>3. CASE ~Heeds(said[n])
    <3>1. Unheard /\ call' = call
      BY <1>4, <2>3 DEF TakeNote, Unheard
    <3>2. ReaderTypes'
      BY <1>1, <1>3, <2>1, <3>1 DEF TypesOK, ReaderTypes, Unheard
    <3>3. EndTypes' /\ QueueTypes'
      BY <1>3, <3>1 DEF TypesOK, Unheard, EndTypes, QueueTypes
    <3>4. ChildTypes' /\ MainTypes' /\ ResultTypes'
      BY <1>3, <3>1 DEF TypesOK, Unheard, ChildTypes, MainTypes, ResultTypes
    <3> QED BY <3>2, <3>3, <3>4 DEF TypesOK
  <2> QED BY <2>2, <2>3
<1>5. CASE ~IsNote(said[n]) /\ TakeResponse(said[n])
  <2>1. protocol' = protocol /\ Unheard
    BY <1>5 DEF TakeResponse, Unheard
  <2>2. said[n].k \in {"ok", "bad"}
    BY <1>2, <1>5 DEF Lines, NoteKinds, IsNote
  <2>3. call' \in {"unsent", "waiting", "ok", "bad", "exit"}
    BY <1>5, <2>2 DEF TakeResponse, TypesOK, MainTypes
  <2>4. ReaderTypes'
    BY <1>1, <1>3, <2>1 DEF TypesOK, ReaderTypes, Unheard
  <2>5. EndTypes' /\ QueueTypes'
    BY <1>3, <2>1 DEF TypesOK, Unheard, EndTypes, QueueTypes
  <2>6. ChildTypes' /\ ResultTypes'
    BY <1>3, <2>1 DEF TypesOK, Unheard, ChildTypes, ResultTypes
  <2>7. MainTypes'
    BY <1>3, <2>3 DEF TypesOK, MainTypes
  <2> QED BY <2>4, <2>5, <2>6, <2>7 DEF TypesOK
<1> QED BY <1>1, <1>4, <1>5

\* Every other step leaves alone what the reader has made of its lines, and
\* the lines.
Deaf == /\ UNCHANGED <<heard, protocol, turnStarted, turnError, dropped, texts>>
        /\ SameLines

\* Without a new line every line is as it was.
LEMMA Same == ASSUME TypesOK, UNCHANGED said PROVE SameLines
  BY LineTypes DEF SameLines

\* Nor does a new line change one.
LEMMA Added ==
  ASSUME TypesOK, NEW l \in Lines, said' = Append(said, l)
  PROVE  SameLines /\ said' \in Seq(Lines) /\ Len(said') = Len(said) + 1 /\ said'[Len(said) + 1] = l
<1>1. said \in Seq(Lines)
  BY DEF TypesOK, ChildTypes
<1> QED BY <1>1 DEF SameLines

\* What a step leaves alone keeps its type.
LEMMA KeptTypes ==
  ASSUME TypesOK
  PROVE  /\ UNCHANGED <<opts, ctx, proc, asked, said>> => ChildTypes'
         /\ UNCHANGED <<said, reader, heard, protocol, turnStarted>> => ReaderTypes'
         /\ UNCHANGED <<threadID, turnDone, turnError>> => EndTypes'
         /\ UNCHANGED <<activity, dropped>> => QueueTypes'
         /\ UNCHANGED <<pc, call, firstTurn, verdict>> => MainTypes'
         /\ UNCHANGED <<texts, result>> => ResultTypes'
<1>1. UNCHANGED <<opts, ctx, proc, asked, said>> => ChildTypes'
  BY DEF TypesOK, ChildTypes
<1>2. UNCHANGED <<said, reader, heard, protocol, turnStarted>> => ReaderTypes'
  BY DEF TypesOK, ReaderTypes
<1>3. UNCHANGED <<threadID, turnDone, turnError>> => EndTypes'
  BY DEF TypesOK, EndTypes
<1>4. UNCHANGED <<activity, dropped>> => QueueTypes'
  BY DEF TypesOK, QueueTypes
<1>5. UNCHANGED <<pc, call, firstTurn, verdict>> => MainTypes'
  BY DEF TypesOK, MainTypes
<1>6. UNCHANGED <<texts, result>> => ResultTypes'
  BY DEF TypesOK, ResultTypes
<1> QED BY <1>1, <1>2, <1>3, <1>4, <1>5, <1>6

\* A step that touches nothing of the reader's hears nothing.
LEMMA KeptDeaf ==
  ASSUME TypesOK, UNCHANGED <<said, heard, protocol, turnStarted, turnError, dropped, texts>>
  PROVE  Deaf
  BY Same DEF Deaf

\* The types are kept, and only the reader hears.
LEMMA TypesStep ==
  ASSUME TypesOK, SaidOK, DialectOK, [Next]_vars
  PROVE  TypesOK' /\ (HandleLine \/ Deaf)
<1> USE DEF TypesOK
<1>1. CASE HandleLine
  BY <1>1, HandleTypes
<1>2. ASSUME NEW m \in Methods, Answer(m) PROVE TypesOK' /\ Deaf
  <2>1. PICK o \in {"ok", "bad"} : said' = Append(said, Response(m, o))
    BY <1>2 DEF Answer
  <2>2. Response(m, o) \in Lines
    BY DEF Response, Lines
  <2>3. SameLines /\ said' \in Seq(Lines) /\ Len(said') = Len(said) + 1
    BY <2>1, <2>2, Added
  <2>4. UNCHANGED <<opts, ctx, proc, asked, readerVars, sharedVars, mainVars, texts, result>>
    BY <1>2 DEF Answer
  <2>5. EndTypes' /\ QueueTypes' /\ MainTypes' /\ ResultTypes'
    BY <2>4, KeptTypes DEF sharedVars, mainVars
  <2>6. ChildTypes'
    BY <2>3, <2>4 DEF ChildTypes
  <2>7. ReaderTypes'
    <3>1. heard' \in Nat /\ heard' <= Len(said')
      BY <2>3, <2>4, LineTypes DEF readerVars
    <3> QED BY <2>4, <3>1 DEF ReaderTypes, readerVars
  <2>8. Deaf
    BY <2>3, <2>4 DEF Deaf, readerVars, sharedVars
  <2> QED BY <2>5, <2>6, <2>7, <2>8
<1>3. ASSUME NEW k \in Kinds \cup ForeignKinds, NEW t \in {"ours", "foreign", "early"}, Notify(k, t)
      PROVE  TypesOK' /\ Deaf
  <2>1. Note(k, t) \in Lines
    BY CodexAssumption DEF Note, Lines, NoteKinds, Threads
  <2>2. SameLines /\ said' \in Seq(Lines) /\ Len(said') = Len(said) + 1
    BY <1>3, <2>1, Added DEF Notify
  <2>3. UNCHANGED <<opts, ctx, proc, asked, readerVars, sharedVars, mainVars, texts, result>>
    BY <1>3 DEF Notify
  <2>4. EndTypes' /\ QueueTypes' /\ MainTypes' /\ ResultTypes'
    BY <2>3, KeptTypes DEF sharedVars, mainVars
  <2>5. ChildTypes'
    BY <2>2, <2>3 DEF ChildTypes
  <2>6. ReaderTypes'
    <3>1. heard' \in Nat /\ heard' <= Len(said')
      BY <2>2, <2>3, LineTypes DEF readerVars
    <3> QED BY <2>3, <3>1 DEF ReaderTypes, readerVars
  <2>7. Deaf
    BY <2>2, <2>3 DEF Deaf, readerVars, sharedVars
  <2> QED BY <2>4, <2>5, <2>6, <2>7
<1>4. ASSUME UNCHANGED <<said, heard, protocol, turnStarted, turnError, dropped, texts>>,
             opts' = opts, ctx' \in {"live", "canceled", "deadline"}, proc' \in {"up", "exited"},
             asked' \subseteq Methods, reader' \in {"reading", "done", "choked"},
             threadID' \in {"", "ours"}, turnDone' \in {"empty", turnDone},
             activity' \in Seq(Activity), MainTypes',
             result' \in [status : Statuses \cup {"none"}, output : Nat]
      PROVE  TypesOK' /\ Deaf
  <2>1. SameLines
    BY <1>4, Same
  <2>2. ChildTypes' /\ ReaderTypes' /\ EndTypes'
    BY <1>4 DEF ChildTypes, ReaderTypes, EndTypes
  <2>3. QueueTypes' /\ ResultTypes'
    BY <1>4 DEF QueueTypes, ResultTypes
  <2> QED BY <1>4, <2>1, <2>2, <2>3, KeptDeaf
<1>5. CASE UNCHANGED vars
  BY <1>5, KeptTypes, KeptDeaf DEF vars, childVars, readerVars, sharedVars, mainVars
<1>6. CASE Exit
  <2>1. /\ proc' = "exited"
        /\ UNCHANGED <<opts, ctx, asked, said, readerVars, sharedVars, mainVars, texts, result>>
    BY <1>6 DEF Exit
  <2>2. ChildTypes'
    BY <2>1 DEF ChildTypes
  <2> QED BY <2>1, <2>2, KeptTypes, KeptDeaf DEF readerVars, sharedVars, mainVars
<1>6a. CASE LetGo
  <2>1. UNCHANGED <<opts, ctx, proc, asked, said, readerVars, sharedVars, mainVars, texts, result>>
    BY <1>6a DEF LetGo
  <2> QED BY <2>1, KeptTypes, KeptDeaf DEF readerVars, sharedVars, mainVars
<1>7. CASE ContextDone
  <2>1. /\ ctx' \in {"live", "canceled", "deadline"}
        /\ UNCHANGED <<opts, childVars, readerVars, sharedVars, mainVars, texts, result>>
    BY <1>7 DEF ContextDone
  <2>2. ChildTypes'
    BY <2>1 DEF ChildTypes, childVars
  <2> QED BY <2>1, <2>2, KeptTypes, KeptDeaf DEF childVars, readerVars, sharedVars, mainVars
<1>8. CASE MarkExited
  BY <1>4, <1>8 DEF MarkExited, childVars, sharedVars, ChildTypes, ReaderTypes,
     EndTypes, QueueTypes, MainTypes, ResultTypes
<1>9. ASSUME NEW m \in Methods, NEW o \in {"ok", "bad", "exit", "ctx", "waiting"}, Return(m, o),
             firstTurn' = firstTurn
      PROVE  MainTypes' /\ threadID' \in {"", "ours"}
  <2> DEFINE next == After(m, o)
  <2>1. next \in Methods \cup {"waiting", "failing"}
    BY AfterType
  <2>2. /\ pc' = next /\ call' = "unsent"
        /\ threadID' = IF next = "turn/start" THEN "ours" ELSE threadID
        /\ verdict' = IF next = "failing" THEN [status |-> "failed", cause |-> "handshake"] ELSE verdict
    BY <1>9 DEF Return
  <2> HIDE DEF next
  <2> QED BY <1>9, <2>1, <2>2 DEF MainTypes, EndTypes, Working, Statuses, Causes
<1>10. ASSUME NEW m \in Methods, Send(m) PROVE TypesOK' /\ Deaf
  <2>1. /\ UNCHANGED <<opts, ctx, proc, said, reader, heard, protocol, turnStarted, turnDone, turnError,
                       activity, dropped, firstTurn, texts, result>>
        /\ asked' \subseteq Methods
    BY <1>10 DEF Send, readerVars, ChildTypes
  <2>2. MainTypes' /\ threadID' \in {"", "ours"}
    <3>1. CASE Return(m, "ctx") \/ Return(m, "exit")
      BY <1>9, <2>1, <3>1
    <3>2. CASE call' = "waiting" /\ UNCHANGED <<pc, threadID, verdict>>
      BY <2>1, <3>2 DEF MainTypes, EndTypes
    <3> QED BY <1>10, <3>1, <3>2 DEF Send
  <2> QED BY <1>4, <2>1, <2>2 DEF ChildTypes, ReaderTypes, QueueTypes, ResultTypes
<1>11. ASSUME NEW m \in Methods, Await(m) PROVE TypesOK' /\ Deaf
  <2>1. UNCHANGED <<opts, ctx, proc, asked, said, reader, heard, protocol, turnStarted, turnDone, turnError,
                    activity, dropped, firstTurn, texts, result>>
    BY <1>11 DEF Await, childVars, readerVars
  <2>2. PICK o \in {"ok", "bad", "exit", "ctx", "waiting"} : Return(m, o)
    BY <1>11 DEF Await, MainTypes
  <2>3. MainTypes' /\ threadID' \in {"", "ours"}
    BY <1>9, <2>1, <2>2
  <2> QED BY <1>4, <2>1, <2>3 DEF ChildTypes, ReaderTypes, QueueTypes, ResultTypes
<1>12. CASE SeeActivity
  <2>1. activity # <<>> /\ activity' = Tail(activity) /\ activity \in Seq(Activity)
    BY <1>12 DEF SeeActivity, QueueTypes
  <2>2. activity' \in Seq(Activity)
    BY <2>1
  <2>3. firstTurn' \in {"armed", "stopped", firstTurn}
    BY <1>12 DEF SeeActivity
  <2>4. UNCHANGED <<opts, ctx, childVars, readerVars, threadID, turnError, dropped, call, texts, result,
                    turnDone, pc, verdict>>
    BY <1>12 DEF SeeActivity, TurnOnly
  <2>5. MainTypes'
    BY <2>3, <2>4 DEF MainTypes
  <2>6. QueueTypes'
    BY <2>2, <2>4 DEF QueueTypes
  <2> QED BY <2>4, <2>5, <2>6, KeptTypes, KeptDeaf DEF childVars, readerVars
<1>13. ASSUME UNCHANGED firstTurn, UNCHANGED activity, turnDone' \in {"empty", turnDone}, TurnOnly,
              NEW st \in Statuses, NEW cause \in Causes, Leave(st, cause)
       PROVE  TypesOK' /\ Deaf
  <2>1. MainTypes'
    BY <1>13 DEF TurnOnly, Leave, MainTypes
  <2> QED BY <1>4, <1>13, <2>1 DEF TurnOnly, childVars, readerVars, ChildTypes, ReaderTypes, EndTypes,
            QueueTypes, ResultTypes
<1>14. ASSUME FinishTurn PROVE \E st \in Statuses, cause \in Causes : Leave(st, cause)
  BY <1>14 DEF FinishTurn, Statuses, Causes
<1>15. /\ ContextStatus \in Statuses
       /\ {"aborted", "failed", "completed", "timeout"} \subseteq Statuses
       /\ {"context", "exit", "no_progress", "inactivity"} \subseteq Causes
  BY DEF ContextStatus, Statuses, Causes
<1>16. CASE TurnDone
  BY <1>13, <1>14, <1>16 DEF TurnDone
<1>17. CASE FirstTurnTimeout
  BY <1>13, <1>15, <1>17 DEF FirstTurnTimeout
<1>18. CASE SemanticTimeout
  BY <1>13, <1>15, <1>18 DEF SemanticTimeout
<1>19. CASE SeeContext
  BY <1>13, <1>15, <1>19 DEF SeeContext
<1>20. CASE SeeExit
  <2>1. UNCHANGED firstTurn /\ UNCHANGED activity /\ turnDone' \in {"empty", turnDone} /\ TurnOnly
    BY <1>20 DEF SeeExit
  <2>2. \E st \in Statuses, cause \in Causes : Leave(st, cause)
    <3>1. \/ FinishTurn \/ Leave(ContextStatus, "context") \/ Leave("failed", "exit")
      BY <1>20 DEF SeeExit
    <3> QED BY <1>14, <1>15, <3>1
  <2> QED BY <1>13, <2>1, <2>2
<1>21. CASE Grace \/ JoinReader
  <2>1. /\ pc' \in {"killing", "reaping"} /\ ctx' \in {"canceled", ctx}
        /\ UNCHANGED <<opts, childVars, readerVars, sharedVars, call, firstTurn, verdict, texts, result>>
    BY <1>21 DEF Grace, JoinReader
  <2>2. MainTypes'
    BY <2>1 DEF MainTypes
  <2>3. ChildTypes'
    BY <2>1 DEF ChildTypes, childVars
  <2> QED BY <2>1, <2>2, <2>3, KeptTypes, KeptDeaf DEF childVars, readerVars, sharedVars
<1>22. CASE Report
  <2>1. result' \in [status : Statuses \cup {"none"}, output : Nat]
    BY <1>22 DEF Report, MainTypes, ResultTypes
  <2> QED BY <1>4, <1>22, <2>1 DEF Report, childVars, readerVars, sharedVars, ChildTypes, ReaderTypes,
     EndTypes, QueueTypes, MainTypes
<1> QED BY <1>1, <1>2, <1>3, <1>5, <1>6, <1>6a, <1>7, <1>8, <1>10, <1>11, <1>12, <1>16, <1>17, <1>18,
           <1>19, <1>20, <1>21, <1>22
    DEF Next, ReaderStep, MainStep, TimerStep, ChildStep

-----------------------------------------------------------------------------
(* What a step is to the rest of the invariant.                            *)

EarlyNote(n) == IsNote(said[n]) /\ said[n].of = "early"

Taken(k) ==
  /\ turnStarted' = (turnStarted \/ k \in StartKinds)
  /\ turnError' = (turnError \/ k \in Failures)
  /\ turnDone' = IF k \in EndKinds /\ (k \in GuardedKinds => turnStarted) /\ turnDone = "empty"
                   THEN (IF k \in AbortKinds THEN "aborted" ELSE "done") ELSE turnDone
  /\ TrySend(Activities(k))
  /\ texts' = IF k \in TextKinds /\ pc # "closed" THEN texts + 1 ELSE texts

\* The reader handles line n, of kind k.
Hearing(n, k) ==
  /\ n = heard + 1 /\ n <= Len(said) /\ heard' = n /\ reader = "reading" /\ k = said[n].k
  /\ UNCHANGED <<opts, ctx, proc, asked, said, reader, threadID, pc, firstTurn, verdict, result>>
  /\ \/ k \in NoteKinds /\ (Ours(n) \/ EarlyNote(n)) /\ Taken(k)
     \/ ~Ours(n) /\ Unheard

\* The reader hears one line, of our thread or not.
LEMMA HandleHears ==
  ASSUME TypesOK, SaidOK, DialectOK, HandleLine
  PROVE  /\ \E n \in Nat : \E k \in NoteKinds \cup {"ok", "bad"} : Hearing(n, k)
         /\ DialectOK' /\ SaidOK'
<1>1. PICK n \in Nat :
           /\ n = heard + 1 /\ n <= Len(said) /\ heard' = n /\ reader = "reading"
           /\ UNCHANGED <<opts, ctx, childVars, reader, threadID, pc, firstTurn, verdict, result>>
           /\ \/ IsNote(said[n]) /\ TakeNote(said[n])
              \/ ~IsNote(said[n]) /\ TakeResponse(said[n])
  BY Hear
<1>2. said[n] \in Lines
  <2>1. n \in 1..Len(said)
    BY <1>1, LineTypes
  <2> QED BY <2>1, LineTypes
<1>3. UNCHANGED <<opts, ctx, proc, asked, said, reader, threadID, pc, firstTurn, verdict, result>>
  BY <1>1 DEF childVars
<1>4. PICK k \in NoteKinds \cup {"ok", "bad"} : k = said[n].k
  BY <1>2 DEF Lines
<1>5. ASSUME IsNote(said[n]) /\ TakeNote(said[n]) /\ Heeds(said[n])
      PROVE  Hearing(n, k)
  <2>1. Taken(k)
    BY <1>4, <1>5 DEF TakeNote, Taken, EndsTurn, Failures
  <2>2. k \in NoteKinds /\ (Ours(n) \/ EarlyNote(n))
    BY <1>1, <1>4, <1>5, Heeded DEF EarlyNote, IsNote, NoteKinds
  <2>3. Hearing(n, k)
    BY <1>1, <1>3, <1>4, <2>1, <2>2 DEF Hearing
  <2> QED BY <2>3
<1>6. ASSUME IsNote(said[n]) /\ TakeNote(said[n]) /\ ~Heeds(said[n])
      PROVE  Hearing(n, k)
  <2>1. Unheard
    BY <1>6 DEF TakeNote, Unheard
  <2>2. ~Ours(n)
    BY <1>1, <1>6, Heeded
  <2>3. Hearing(n, k)
    BY <1>1, <1>3, <1>4, <2>1, <2>2 DEF Hearing
  <2> QED BY <2>3
<1>7. ASSUME ~IsNote(said[n]) /\ TakeResponse(said[n])
      PROVE  Hearing(n, k)
  <2>1. Unheard /\ ~Ours(n)
    BY <1>7 DEF TakeResponse, Unheard, Ours
  <2>2. Hearing(n, k)
    BY <1>1, <1>3, <1>4, <2>1 DEF Hearing
  <2> QED BY <2>2
<1>8. /\ Legacy(heard)' <=> Legacy(heard) \/ said[n].k \in LegacyKinds
      /\ Telling(heard)' <=> Telling(heard) \/ said[n].k \in TellingKinds
  BY <1>1, <1>3, HeardNext
<1>9. DialectOK'
  <2>1. CASE IsNote(said[n]) /\ TakeNote(said[n]) /\ said[n].k # Unsupported
    <3>1. protocol' = Protocol(said[n])
      BY <2>1 DEF TakeNote
    <3> QED BY <1>1, <1>8, <2>1, <3>1, Heeded DEF DialectOK
  <2>2. CASE (IsNote(said[n]) /\ TakeNote(said[n]) /\ said[n].k = Unsupported)
             \/ (~IsNote(said[n]) /\ TakeResponse(said[n]))
    <3>1. protocol' = protocol
      BY <2>2 DEF TakeNote, TakeResponse
    <3>2. said[n].k \notin LegacyKinds /\ said[n].k \notin TellingKinds
      BY <2>2 DEF IsNote, TellingKinds, LegacyKinds, RawKinds, Unsupported
    <3> QED BY <1>8, <3>1, <3>2 DEF DialectOK
  <2> QED BY <1>1, <2>1, <2>2
<1>10. SaidOK'
  BY <1>3 DEF SaidOK, IsNote
<1> QED BY <1>1, <1>5, <1>6, <1>7, <1>9, <1>10

\* The other steps, by what they do to the lifecycle goroutine.
Aside ==
  /\ UNCHANGED <<pc, verdict, threadID, turnDone, asked, result>>
  /\ \/ UNCHANGED <<reader, proc>> /\ (proc = "up" \/ said' = said)
     \/ UNCHANGED <<reader, said>> /\ proc' = "exited"
     \/ /\ UNCHANGED <<proc, said>> /\ reader = "reading"
        /\ \/ reader' = "choked"
           \/ reader' = "done" /\ proc = "exited" /\ (heard = Len(said) \/ pc = "closed")

Handshake(m) ==
  /\ pc = m /\ UNCHANGED <<turnDone, result, reader, proc, said>>
  /\ \/ asked' = asked \cup {m} /\ UNCHANGED <<pc, threadID, verdict>>
     \/ asked' = asked /\ \E o \in {"ok", "bad", "exit", "ctx", "waiting"} : Return(m, o)

Ending ==
  /\ pc = "waiting" /\ pc' = "closing"
  /\ UNCHANGED <<threadID, asked, result, reader, proc, said>>
  /\ \/ verdict'.cause \notin {"handshake", "turn", "exit"}
     \/ turnDone # "empty" /\ FinishTurn
     \/ turnDone = "empty" /\ Ended /\ verdict' = [status |-> "failed", cause |-> "exit"]

Closing ==
  /\ UNCHANGED <<threadID, asked, turnDone, verdict, reader, proc, said>>
  /\ \/ pc = "closing" /\ pc' = "killing" /\ result' = result
     \/ pc \in {"closing", "killing"} /\ Ended /\ pc' = "reaping" /\ result' = result
     \/ /\ pc \in {"reaping", "failing"} /\ proc = "exited" /\ pc' = "closed"
        /\ pc = "reaping" => result'.output = texts

Moves == Aside \/ (\E m \in Methods : Handshake(m)) \/ Ending \/ Closing

\* Any other step is none of the reader, and takes from the activity channel at most.
LEMMA StepMoves ==
  ASSUME TypesOK, [Next]_vars, ~HandleLine
  PROVE  Moves /\ (SeeActivity \/ UNCHANGED <<activity, firstTurn>>)
<1>1. CASE UNCHANGED vars
  <2>1. Aside
    BY <1>1 DEF vars, childVars, readerVars, sharedVars, mainVars, Aside
  <2> QED BY <1>1, <2>1 DEF Moves, vars, sharedVars, mainVars
<1>2. ASSUME NEW m \in Methods, Answer(m)
      PROVE  Aside /\ UNCHANGED <<activity, firstTurn>>
  BY <1>2 DEF Answer, readerVars, sharedVars, mainVars, Aside
<1>3. ASSUME NEW k \in Kinds \cup ForeignKinds, NEW t \in {"ours", "foreign", "early"}, Notify(k, t)
      PROVE  Aside /\ UNCHANGED <<activity, firstTurn>>
  BY <1>3 DEF Notify, readerVars, sharedVars, mainVars, Aside
<1>4. CASE Exit
  <2>1. Aside /\ UNCHANGED <<activity, firstTurn>>
    BY <1>4 DEF Exit, readerVars, sharedVars, mainVars, Aside
  <2> QED BY <2>1 DEF Moves
<1>4a. CASE LetGo
  <2>1. Aside /\ UNCHANGED <<activity, firstTurn>>
    BY <1>4a DEF LetGo, readerVars, sharedVars, mainVars, Aside
  <2> QED BY <2>1 DEF Moves
<1>5. CASE ContextDone
  <2>1. Aside /\ UNCHANGED <<activity, firstTurn>>
    BY <1>5 DEF ContextDone, childVars, readerVars, sharedVars, mainVars, Aside
  <2> QED BY <2>1 DEF Moves
<1>6. CASE MarkExited
  <2>1. Aside /\ UNCHANGED <<activity, firstTurn>>
    BY <1>6 DEF MarkExited, childVars, sharedVars, Aside
  <2> QED BY <2>1 DEF Moves
<1>7. CASE SeeActivity
  <2>1. Aside
    BY <1>7 DEF SeeActivity, TurnOnly, childVars, readerVars, Aside
  <2> QED BY <1>7, <2>1 DEF Moves
<1>8. ASSUME NEW m \in Methods, Send(m)
      PROVE  Handshake(m) /\ UNCHANGED <<activity, firstTurn>>
  BY <1>8 DEF Send, readerVars, Handshake
<1>9. ASSUME NEW m \in Methods, Await(m)
      PROVE  Handshake(m) /\ UNCHANGED <<activity, firstTurn>>
  <2>1. \E o \in {"ok", "bad", "exit", "ctx", "waiting"} : Return(m, o)
    BY <1>9 DEF Await, TypesOK, MainTypes
  <2> QED BY <1>9, <2>1 DEF Await, childVars, readerVars, Handshake
<1>10. CASE TurnDone \/ SeeExit
  <2>1. /\ pc = "waiting" /\ TurnOnly /\ UNCHANGED <<activity, firstTurn>>
    BY <1>10 DEF TurnDone, SeeExit, Waiting
  <2>2. \/ turnDone # "empty" /\ FinishTurn
        \/ turnDone = "empty" /\ Ended /\ Leave(ContextStatus, "context")
        \/ turnDone = "empty" /\ Ended /\ Leave("failed", "exit")
    BY <1>10 DEF TurnDone, SeeExit
  <2>3. pc' = "closing"
    BY <2>2 DEF FinishTurn, Leave
  <2>4. Ending
    BY <2>1, <2>2, <2>3 DEF Ending, TurnOnly, childVars, readerVars, Leave
  <2> QED BY <2>1, <2>4 DEF Moves
<1>11. CASE FirstTurnTimeout \/ SemanticTimeout \/ SeeContext
  <2>1. /\ pc = "waiting" /\ TurnOnly /\ UNCHANGED <<activity, firstTurn>>
        /\ pc' = "closing" /\ verdict'.cause \notin {"handshake", "turn", "exit"}
    <3>1. CASE FirstTurnTimeout
      BY <3>1 DEF FirstTurnTimeout, Waiting, Leave
    <3>2. CASE SemanticTimeout
      BY <3>2 DEF SemanticTimeout, Waiting, Leave
    <3>3. CASE SeeContext
      BY <3>3 DEF SeeContext, Waiting, Leave
    <3> QED BY <1>11, <3>1, <3>2, <3>3
  <2>2. Ending
    BY <2>1 DEF Ending, TurnOnly, childVars, readerVars
  <2> QED BY <2>1, <2>2 DEF Moves
<1>12. CASE Grace \/ JoinReader
  <2>1. Closing /\ UNCHANGED <<activity, firstTurn>>
    BY <1>12 DEF Grace, JoinReader, childVars, readerVars, sharedVars, Closing
  <2> QED BY <2>1 DEF Moves
<1>13. CASE Report
  <2>1. Closing /\ UNCHANGED <<activity, firstTurn>>
    BY <1>13 DEF Report, childVars, readerVars, sharedVars, Closing
  <2> QED BY <2>1 DEF Moves
<1> QED BY <1>1, <1>2, <1>3, <1>4, <1>4a, <1>5, <1>6, <1>7, <1>8, <1>9, <1>10, <1>11, <1>12, <1>13
    DEF Next, ReaderStep, MainStep, TimerStep, ChildStep, Moves

\* The child says what its protocol allows, in its dialect.
LEMMA SaidStep ==
  ASSUME TypesOK, SaidOK, DialectOK, [Next]_vars
  PROVE  SaidOK' /\ DialectOK'
<1>1. CASE HandleLine
  BY <1>1, HandleHears
<1>2. CASE ~HandleLine
  <2>1. Deaf /\ Moves
    BY <1>2, TypesStep, StepMoves
  <2>2. DialectOK'
    BY <2>1, HeardStays DEF Deaf, DialectOK
  <2>3. threadID = "ours" => threadID' = "ours"
    BY <2>1 DEF Moves, Aside, Handshake, Return, Ending, Closing
  <2>4. "turn/start" \in asked' \/ pc' \in {"turn/start", "waiting"} => threadID' = "ours"
    <3>1. CASE Aside \/ Ending \/ Closing
      BY <3>1 DEF Aside, Ending, Closing, SaidOK
    <3>2. ASSUME NEW m \in Methods, Handshake(m)
          PROVE  "turn/start" \in asked' \/ pc' \in {"turn/start", "waiting"} => threadID' = "ours"
      <4>1. CASE asked' = asked \cup {m} /\ UNCHANGED <<pc, threadID, verdict>>
        BY <3>2, <4>1 DEF Handshake, SaidOK
      <4>2. CASE asked' = asked /\ \E o \in {"ok", "bad", "exit", "ctx", "waiting"} : Return(m, o)
        <5>1. PICK o \in {"ok", "bad", "exit", "ctx", "waiting"} : Return(m, o)
          BY <4>2
        <5>2. After(m, o) = "waiting" => m = "turn/start"
          BY AfterType
        <5> QED BY <2>3, <3>2, <4>2, <5>1, <5>2 DEF Handshake, Return, SaidOK
      <4> QED BY <3>2, <4>1, <4>2 DEF Handshake
    <3> QED BY <2>1, <3>1, <3>2 DEF Moves
  <2>5. ASSUME NEW i \in 1..Len(said'), IsNote(said'[i])
        PROVE  /\ said'[i].of \in Threads
               /\ said'[i].of # "ours" => said'[i].k \in RawKinds
               /\ said'[i].of # "early" => threadID' = "ours"
    <3>1. CASE i \in 1..Len(said)
      <4>1. said'[i] = said[i]
        BY <2>1, <3>1 DEF Deaf, SameLines
      <4> QED BY <2>3, <2>5, <3>1, <4>1 DEF SaidOK, IsNote
    <3>2. CASE i \notin 1..Len(said)
      <4>1. said' # said
        BY <3>2
      <4>2. ASSUME NEW m \in Methods, Answer(m) PROVE FALSE
        <5>1. PICK o \in {"ok", "bad"} : said' = Append(said, Response(m, o))
          BY <4>2 DEF Answer
        <5>2. Response(m, o) \in Lines
          BY DEF Response, Lines
        <5>3. i = Len(said) + 1 /\ said'[i] = Response(m, o)
          BY <3>2, <5>1, <5>2, Added, LineTypes
        <5> QED BY <2>5, <5>3 DEF IsNote, Response, LegacyKinds, RawKinds, Unsupported
      <4>3. ASSUME NEW k \in Kinds \cup ForeignKinds, NEW t \in {"ours", "foreign", "early"}, Notify(k, t)
            PROVE  /\ said'[i].of \in Threads
                   /\ said'[i].of # "ours" => said'[i].k \in RawKinds
                   /\ said'[i].of # "early" => threadID' = "ours"
        <5>1. Note(k, t) \in Lines
          BY CodexAssumption DEF Note, Lines, NoteKinds, Threads
        <5>2. i = Len(said) + 1 /\ said'[i] = Note(k, t)
          BY <3>2, <4>3, <5>1, Added, LineTypes DEF Notify
        <5>3. t # "ours" => k \in RawKinds
          BY <4>3, CodexAssumption DEF Notify
        <5>4. t # "early" => threadID' = "ours"
          BY <2>3, <4>3 DEF Notify, SaidOK
        <5> QED BY <5>2, <5>3, <5>4 DEF Note, Threads
      <4>4. ASSUME ~(\E m \in Methods : Answer(m)),
                   ~(\E k \in Kinds \cup ForeignKinds, t \in {"ours", "foreign", "early"} : Notify(k, t))
            PROVE  said' = said
        BY <1>2, <4>4 DEF Next, ReaderStep, MainStep, TimerStep, ChildStep, Exit, LetGo, ContextDone, MarkExited,
           Send, Await, TurnDone, SeeActivity, SeeContext, SeeExit, FirstTurnTimeout, SemanticTimeout,
           TurnOnly, Grace, JoinReader, Report, childVars, vars
      <4> QED BY <4>1, <4>2, <4>3, <4>4
    <3> QED BY <3>1, <3>2
  <2> QED BY <2>2, <2>4, <2>5 DEF SaidOK, IsNote
<1> QED BY <1>1, <1>2

-----------------------------------------------------------------------------
(* The end of the turn.                                                    *)

\* Sets of lines as of before and after line n is heard.
LEMMA HearingSets ==
  ASSUME TypesOK, NEW n \in Nat, NEW k \in NoteKinds \cup {"ok", "bad"}, Hearing(n, k)
  PROVE  /\ \A ks \in SUBSET NoteKinds :
              /\ Heard(ks) \subseteq Heard(ks)' /\ Early(ks) \subseteq Early(ks)'
              /\ Heard(ks)' \subseteq Heard(ks) \cup {n}
              /\ n \in Heard(ks)' <=> Ours(n) /\ k \in ks
              /\ EarlyNote(n) /\ k \in ks => n \in Early(ks)'
              /\ \A i \in Heard(ks) \cup Early(ks) : i \in Nat /\ i < n
<1>1. n = heard + 1 /\ n <= Len(said) /\ heard' = n /\ UNCHANGED said /\ k = said[n].k
  BY DEF Hearing
<1>2. \A ks \in SUBSET NoteKinds :
         /\ Heard(ks)' = Heard(ks) \cup (IF Ours(n) /\ k \in ks THEN {n} ELSE {})
         /\ Early(ks)' = Early(ks) \cup (IF EarlyNote(n) /\ k \in ks THEN {n} ELSE {})
         /\ \A i \in Heard(ks) \cup Early(ks) : i \in Nat /\ i < n
  BY <1>1, HeardNext DEF EarlyNote
<1>3. \A ks \in SUBSET NoteKinds : n \notin Heard(ks)
  BY <1>2
<1> QED BY <1>2, <1>3

\* A line that is early carries no failure but a raw one.
LEMMA SaidOKEarly ==
  ASSUME TypesOK, SaidOK, NEW n \in Nat, NEW k \in NoteKinds \cup {"ok", "bad"}, Hearing(n, k),
         EarlyNote(n)
  PROVE  k \in RawKinds /\ k # Unsupported
<1>1. n \in 1..Len(said) /\ k = said[n].k
  BY LineTypes DEF Hearing
<1> QED BY <1>1 DEF SaidOK, EarlyNote, RawKinds, Unsupported

\* A raised error flag has a failure that was heard, a lowered one has none on our thread.
LEMMA ErrorStep ==
  ASSUME TypesOK, SaidOK, DialectOK, ErrorOK, [Next]_vars
  PROVE  ErrorOK'
<1>1. CASE HandleLine
  <2>1. PICK n \in Nat, k \in NoteKinds \cup {"ok", "bad"} : Hearing(n, k)
    BY <1>1, HandleHears
  <2>2. /\ Heard(Failures) \subseteq Heard(Failures)'
        /\ Early(ErrorKinds) \subseteq Early(ErrorKinds)'
        /\ Heard(Failures)' \subseteq Heard(Failures) \cup {n}
        /\ n \in Heard(Failures)' <=> Ours(n) /\ k \in Failures
        /\ EarlyNote(n) /\ k \in ErrorKinds => n \in Early(ErrorKinds)'
    BY <2>1, HearingSets, KindSets
  <2>3. CASE ~Ours(n) /\ Unheard
    BY <2>2, <2>3 DEF ErrorOK, Unheard
  <2>4. CASE k \in NoteKinds /\ (Ours(n) \/ EarlyNote(n)) /\ Taken(k)
    <3>1. turnError' = (turnError \/ k \in Failures)
      BY <2>4 DEF Taken
    <3>2. CASE turnError
      BY <2>2, <3>1, <3>2 DEF ErrorOK
    <3>3. CASE ~turnError /\ k \notin Failures
      BY <2>2, <3>1, <3>3 DEF ErrorOK
    <3>4. CASE k \in Failures
      <4>1. EarlyNote(n) => k \in ErrorKinds
        BY <2>1, <3>4, SaidOKEarly DEF Failures
      <4> QED BY <2>2, <2>4, <3>1, <3>4, <4>1 DEF ErrorOK
    <3> QED BY <3>2, <3>3, <3>4
  <2> QED BY <2>1, <2>3, <2>4 DEF Hearing
<1>2. CASE ~HandleLine
  <2>1. Deaf
    BY <1>2, TypesStep
  <2>2. /\ Heard(Failures)' = Heard(Failures) /\ Early(ErrorKinds)' = Early(ErrorKinds)
        /\ turnError' = turnError
    BY <2>1, HeardStays, KindSets DEF Deaf
  <2> QED BY <2>2 DEF ErrorOK
<1> QED BY <1>1, <1>2

\* What was announced first stays first, whatever is heard.
LEMMA AnnouncedStays ==
  ASSUME TypesOK, NEW n \in Nat, NEW k \in NoteKinds \cup {"ok", "bad"}, Hearing(n, k),
         NEW ks \in SUBSET NoteKinds, NEW others \in SUBSET NoteKinds, Announced(ks, others)
  PROVE  Announced(ks, others)'
<1>1. PICK i \in Heard(ks) \cup Early(ks) : \A j \in Heard(others) : i < j
  BY DEF Announced
<1>2. /\ i \in Heard(ks)' \cup Early(ks)' /\ i < n
      /\ Heard(others)' \subseteq Heard(others) \cup {n}
  BY HearingSets
<1>3. \A j \in Heard(others)' : i < j
  BY <1>1, <1>2
<1> QED BY <1>2, <1>3 DEF Announced

\* The one-place channel holds the end that was heard first.
LEMMA DoneStep ==
  ASSUME TypesOK, SaidOK, DialectOK, ErrorOK, DoneOK, [Next]_vars
  PROVE  DoneOK'
<1>1. CASE HandleLine
  <2>1. PICK n \in Nat, k \in NoteKinds \cup {"ok", "bad"} : Hearing(n, k)
    BY <1>1, HandleHears
  <2> SUFFICES ASSUME pc \in Working
      PROVE  /\ verdict = NoVerdict
             /\ turnDone' = "empty" => Heard(EndKinds \ GuardedKinds)' = {}
             /\ turnDone' = "aborted" => Announced(AbortKinds, Others)'
             /\ turnDone' = "done" => Announced(Ends, AbortKinds)'
             /\ turnDone' = "done" /\ ~turnError' => Announced(CleanKinds, AbortKinds)'
    BY <2>1 DEF Hearing, DoneOK
  <2>2. /\ verdict = NoVerdict
        /\ turnDone = "empty" => Heard(EndKinds \ GuardedKinds) = {}
        /\ turnDone = "aborted" => Announced(AbortKinds, Others)
        /\ turnDone = "done" => Announced(Ends, AbortKinds)
        /\ turnDone = "done" /\ ~turnError => Announced(CleanKinds, AbortKinds)
    BY DEF DoneOK
  <2>3. \A ks \in SUBSET NoteKinds :
              /\ Heard(ks) \subseteq Heard(ks)' /\ Early(ks) \subseteq Early(ks)'
              /\ Heard(ks)' \subseteq Heard(ks) \cup {n}
              /\ n \in Heard(ks)' <=> Ours(n) /\ k \in ks
              /\ EarlyNote(n) /\ k \in ks => n \in Early(ks)'
              /\ \A i \in Heard(ks) \cup Early(ks) : i \in Nat /\ i < n
    BY <2>1, HearingSets
  <2>3a. /\ Announced(AbortKinds, Others) => Announced(AbortKinds, Others)'
         /\ Announced(Ends, AbortKinds) => Announced(Ends, AbortKinds)'
         /\ Announced(CleanKinds, AbortKinds) => Announced(CleanKinds, AbortKinds)'
    BY <2>1, AnnouncedStays, KindSets
  <2>4. CASE ~Ours(n) /\ Unheard
    <3>1. Heard(EndKinds \ GuardedKinds)' = Heard(EndKinds \ GuardedKinds)
      BY <2>3, <2>4, KindSets
    <3> QED BY <2>2, <2>3a, <2>4, <3>1 DEF Unheard
  <2>5. CASE k \in NoteKinds /\ (Ours(n) \/ EarlyNote(n)) /\ Taken(k)
    <3>1. /\ turnError' = (turnError \/ k \in Failures)
          /\ turnDone' = IF k \in EndKinds /\ (k \in GuardedKinds => turnStarted) /\ turnDone = "empty"
                         THEN (IF k \in AbortKinds THEN "aborted" ELSE "done") ELSE turnDone
          /\ turnDone \in {"empty", "done", "aborted"} /\ turnError \in BOOLEAN
      BY <2>5 DEF Taken, TypesOK, EndTypes
    <3>2. CASE turnDone # "empty"
      <4>1. turnDone' = turnDone /\ (~turnError' => ~turnError)
        BY <3>1, <3>2
      <4> QED BY <2>2, <2>3a, <3>2, <4>1
    <3>3. CASE turnDone = "empty" /\ k \in EndKinds /\ (k \in GuardedKinds => turnStarted)
      <4>0. Heard(AbortKinds) = {} /\ Heard(Others) = {}
        <5>1. /\ Heard(AbortKinds) \subseteq Heard(EndKinds \ GuardedKinds)
              /\ Heard(Others) \subseteq Heard(EndKinds \ GuardedKinds)
          BY DEF Heard, EndKinds, GuardedKinds, AbortKinds, Others
        <5> QED BY <2>2, <3>3, <5>1
      <4>1. CASE k \in AbortKinds
        <5>1. turnDone' = "aborted"
          BY <3>1, <3>3, <4>1
        <5>2. n \in Heard(AbortKinds)' \cup Early(AbortKinds)'
          BY <2>3, <2>5, <4>1, KindSets
        <5>3. Heard(Others)' = {}
          BY <2>3, <4>0, <4>1, KindSets DEF Others
        <5> QED BY <2>2, <5>1, <5>2, <5>3 DEF Announced
      <4>2. CASE k \notin AbortKinds
        <5>1. turnDone' = "done"
          BY <3>1, <3>3, <4>2
        <5>2. Heard(AbortKinds)' = {}
          BY <2>3, <4>0, <4>2, KindSets
        <5>3. Announced(Ends, AbortKinds)'
          <6>1. k \in Ends
            BY <3>3, <4>2 DEF EndKinds, Ends
          <6>2. n \in Heard(Ends)' \cup Early(Ends)'
            BY <2>3, <2>5, <6>1, KindSets
          <6> QED BY <5>2, <6>2 DEF Announced
        <5>4. ASSUME ~turnError' PROVE Announced(CleanKinds, AbortKinds)'
          <6>1. k \in CleanKinds
            BY <3>1, <3>3, <4>2, <5>4 DEF EndKinds, Failures
          <6>2. n \in Heard(CleanKinds)' \cup Early(CleanKinds)'
            BY <2>3, <2>5, <6>1, KindSets
          <6> QED BY <5>2, <6>2 DEF Announced
        <5> QED BY <2>2, <5>1, <5>3, <5>4
      <4> QED BY <4>1, <4>2
    <3>4. CASE turnDone = "empty" /\ ~(k \in EndKinds /\ (k \in GuardedKinds => turnStarted))
      <4>1. turnDone' = "empty"
        BY <3>1, <3>4
      <4>2. k \notin EndKinds \ GuardedKinds
        BY <3>4
      <4>3. Heard(EndKinds \ GuardedKinds)' \subseteq Heard(EndKinds \ GuardedKinds)
        BY <2>3, <4>2, KindSets
      <4> QED BY <2>2, <3>4, <4>1, <4>3
    <3> QED BY <3>2, <3>3, <3>4
  <2> QED BY <2>1, <2>4, <2>5 DEF Hearing
<1>2. CASE ~HandleLine
  <2>1. Deaf /\ Moves
    BY <1>2, TypesStep, StepMoves
  <2>2. \A ks \in SUBSET NoteKinds : Heard(ks)' = Heard(ks) /\ Early(ks)' = Early(ks)
    BY <2>1, HeardStays DEF Deaf
  <2>3. pc' \in Working => pc \in Working /\ UNCHANGED <<verdict, turnDone>>
    <3>1. ASSUME NEW m \in Methods, Handshake(m)
          PROVE  pc' \in Working => pc \in Working /\ UNCHANGED <<verdict, turnDone>>
      BY <3>1 DEF Handshake, Return, Working, Methods
    <3> QED BY <2>1, <3>1 DEF Moves, Aside, Ending, Closing, Working, Methods
  <2> QED BY <2>1, <2>2, <2>3, KindSets DEF DoneOK, Deaf, Announced
<1> QED BY <1>1, <1>2

-----------------------------------------------------------------------------
(* The verdict.                                                            *)

\* EndIsTheChilds, an implication for each status.
EndTold ==
  verdict.cause = "turn" =>
    /\ verdict.status = "completed" => Announced(CleanKinds, Bad)
    /\ verdict.status = "aborted" => Announced(AbortKinds, Others)
    /\ verdict.status \notin {"completed", "aborted"} =>
         /\ verdict.status = "failed" /\ Announced(Ends, AbortKinds)
         /\ Heard(Failures) \cup Early(ErrorKinds) # {}

\* EndIsTheChilds, status by status.
LEMMA EndCases == (EndIsTheChilds <=> EndTold) /\ (EndIsTheChilds' <=> EndTold')
<1>1. EndIsTheChilds <=> EndTold
  BY DEF EndIsTheChilds, EndTold, Failures, Ends, Others
<1>2. EndIsTheChilds' <=> EndTold'
  BY DEF EndIsTheChilds, EndTold, Failures, Ends, Others
<1> QED BY <1>1, <1>2

\* The verdict is of the end announced, or there was none.
LEMMA VerdictStep ==
  ASSUME TypesOK, SaidOK, DialectOK, ErrorOK, DoneOK, ShutdownOK, EndIsTheChilds,
         CompletionBeatsExit, [Next]_vars
  PROVE  EndIsTheChilds' /\ CompletionBeatsExit'
<1> SUFFICES EndTold' /\ CompletionBeatsExit'
  BY EndCases
<1>1. EndTold
  BY EndCases
<1>2. CASE HandleLine
  <2>1. PICK n \in Nat : \E k \in NoteKinds \cup {"ok", "bad"} : Hearing(n, k)
    BY <1>2, HandleHears
  <2>2. PICK k \in NoteKinds \cup {"ok", "bad"} : Hearing(n, k)
    BY <2>1
  <2>3. verdict' = verdict /\ verdict.cause # "exit"
    BY <2>2 DEF Hearing, ShutdownOK, Ended
  <2>4. \A ks \in SUBSET NoteKinds : Heard(ks) \subseteq Heard(ks)' /\ Early(ks) \subseteq Early(ks)'
    BY <2>2, HearingSets
  <2>5. /\ Heard(Failures) \cup Early(ErrorKinds) # {} => Heard(Failures)' \cup Early(ErrorKinds)' # {}
    BY <2>4, KindSets
  <2>6. /\ Announced(CleanKinds, Bad) => Announced(CleanKinds, Bad)'
        /\ Announced(AbortKinds, Others) => Announced(AbortKinds, Others)'
        /\ Announced(Ends, AbortKinds) => Announced(Ends, AbortKinds)'
    BY <2>2, AnnouncedStays, KindSets
  <2> QED BY <1>1, <2>3, <2>5, <2>6 DEF EndTold, CompletionBeatsExit
<1>3. CASE ~HandleLine
  <2>1. Deaf /\ Moves
    BY <1>3, TypesStep, StepMoves
  <2>2. \A ks \in SUBSET NoteKinds : Heard(ks)' = Heard(ks) /\ Early(ks)' = Early(ks)
    BY <2>1, HeardStays DEF Deaf
  <2>3. /\ Heard(Failures)' = Heard(Failures) /\ Early(ErrorKinds)' = Early(ErrorKinds)
        /\ Heard(EndKinds \ GuardedKinds)' = Heard(EndKinds \ GuardedKinds)
        /\ Announced(CleanKinds, Bad)' = Announced(CleanKinds, Bad)
        /\ Announced(AbortKinds, Others)' = Announced(AbortKinds, Others)
        /\ Announced(Ends, AbortKinds)' = Announced(Ends, AbortKinds)
    BY <2>2, KindSets DEF Announced
  <2>4. CASE verdict' = verdict
    BY <1>1, <2>3, <2>4 DEF EndTold, CompletionBeatsExit
  <2>5. CASE verdict'.cause \notin {"turn", "exit"}
    BY <2>5 DEF EndTold, CompletionBeatsExit
  <2>6. CASE pc = "waiting" /\ turnDone # "empty" /\ FinishTurn
    <3>1. /\ verdict'.cause = "turn"
          /\ verdict'.status = IF turnDone = "aborted" THEN "aborted"
                               ELSE IF turnError THEN "failed" ELSE "completed"
      BY <2>6 DEF FinishTurn, Leave
    <3>2. /\ turnDone = "aborted" => Announced(AbortKinds, Others)
          /\ turnDone = "done" => Announced(Ends, AbortKinds)
          /\ turnDone = "done" /\ ~turnError => Announced(CleanKinds, AbortKinds)
          /\ turnDone \in {"done", "aborted"} /\ turnError \in BOOLEAN
      BY <2>6 DEF DoneOK, Working, TypesOK, EndTypes
    <3>3. turnError => Heard(Failures) \cup Early(ErrorKinds) # {}
      BY DEF ErrorOK
    <3>4. ~turnError => Heard(Bad) = Heard(AbortKinds)
      <4>1. Heard(Bad) = Heard(AbortKinds) \cup Heard(Failures)
        BY DEF Heard, Bad, Failures
      <4> QED BY <4>1 DEF ErrorOK
    <3>5. ~turnError /\ Announced(CleanKinds, AbortKinds) => Announced(CleanKinds, Bad)
      BY <3>4 DEF Announced
    <3> QED BY <2>3, <3>1, <3>2, <3>3, <3>5 DEF EndTold, CompletionBeatsExit
  <2>7. CASE pc = "waiting" /\ turnDone = "empty" /\ verdict' = [status |-> "failed", cause |-> "exit"]
    <3>1. Heard(EndKinds \ GuardedKinds) = {}
      BY <2>7 DEF DoneOK, Working
    <3> QED BY <2>3, <2>7, <3>1 DEF EndTold, CompletionBeatsExit
  <2>8. ASSUME NEW m \in Methods, Handshake(m)
        PROVE  verdict' = verdict \/ verdict'.cause = "handshake"
    BY <2>8 DEF Handshake, Return
  <2> QED BY <2>1, <2>4, <2>5, <2>6, <2>7, <2>8 DEF Moves, Aside, Ending, Closing
<1> QED BY <1>2, <1>3

\* The shutdown is on its way once the wait is over.
LEMMA ShutdownStep ==
  ASSUME TypesOK, SaidOK, DialectOK, DoneOK, ShutdownOK, [Next]_vars
  PROVE  ShutdownOK'
<1>1. CASE HandleLine
  <2>1. PICK n \in Nat : \E k \in NoteKinds \cup {"ok", "bad"} : Hearing(n, k)
    BY <1>1, HandleHears
  <2>2. reader = "reading" /\ UNCHANGED <<reader, proc, pc, verdict, said>>
    BY <2>1 DEF Hearing
  <2> QED BY <2>2 DEF ShutdownOK, Ended
<1>2. CASE ~HandleLine
  <2>1. Deaf /\ Moves
    BY <1>2, TypesStep, StepMoves
  <2>2. heard' = heard
    BY <2>1 DEF Deaf
  <2>3. CASE Aside
    <3>1. UNCHANGED <<pc, verdict>>
      BY <2>3 DEF Aside
    <3>2. CASE UNCHANGED <<reader, proc>> /\ (proc = "up" \/ said' = said)
      BY <2>2, <3>1, <3>2 DEF ShutdownOK, Ended
    <3>3. CASE UNCHANGED <<reader, said>> /\ proc' = "exited"
      BY <2>2, <3>1, <3>3 DEF ShutdownOK, Ended
    <3>4. CASE /\ UNCHANGED <<proc, said>> /\ reader = "reading"
               /\ \/ reader' = "choked"
                  \/ reader' = "done" /\ proc = "exited" /\ (heard = Len(said) \/ pc = "closed")
      BY <2>2, <3>1, <3>4 DEF ShutdownOK, Ended
    <3> QED BY <2>3, <3>2, <3>3, <3>4 DEF Aside
  <2>4. ASSUME NEW m \in Methods, Handshake(m) PROVE ShutdownOK'
    <3>1. UNCHANGED <<reader, proc, said>> /\ pc \in Methods /\ verdict = NoVerdict
      BY <2>4 DEF Handshake, DoneOK, Working
    <3>2. \/ verdict' = verdict /\ pc' \in Methods \cup {"waiting"}
          \/ verdict'.cause = "handshake" /\ pc' = "failing"
      <4>1. CASE UNCHANGED <<pc, threadID, verdict>>
        BY <3>1, <4>1
      <4>2. CASE \E o \in {"ok", "bad", "exit", "ctx", "waiting"} : Return(m, o)
        BY <4>2, AfterType DEF Return
      <4> QED BY <2>4, <4>1, <4>2 DEF Handshake
    <3> QED BY <2>2, <3>1, <3>2 DEF ShutdownOK, Ended, NoVerdict, Methods
  <2>5. CASE Ending
    <3>1. verdict'.cause # "handshake" /\ (verdict'.cause = "exit" => Ended)
      BY <2>5 DEF Ending, FinishTurn, Leave
    <3> QED BY <2>2, <2>5, <3>1 DEF Ending, ShutdownOK, Ended
  <2>6. CASE Closing
    BY <2>2, <2>6 DEF Closing, ShutdownOK, Ended
  <2> QED BY <2>1, <2>3, <2>4, <2>5, <2>6 DEF Moves
<1> QED BY <1>1, <1>2

-----------------------------------------------------------------------------
(* The text of the Result.                                                 *)

\* The lines heard of some kinds are finitely many.
LEMMA FiniteHeard ==
  ASSUME TypesOK, NEW ks \in SUBSET NoteKinds
  PROVE  IsFiniteSet(Heard(ks)) /\ IsFiniteSet(Heard(ks) \cup Early(ks))
<1>1. IsFiniteSet(1..heard)
  BY LineTypes, FS_Interval
<1>2. Heard(ks) \subseteq 1..heard /\ Heard(ks) \cup Early(ks) \subseteq 1..heard
  BY DEF Heard, Early
<1> QED BY <1>1, <1>2, FS_Subset

\* Counting text messages, as the reader does.
LEMMA TextCount ==
  ASSUME NEW A, NEW B, NEW A1, NEW B1, NEW n, NEW c \in Nat,
         IsFiniteSet(A), IsFiniteSet(B), IsFiniteSet(B1), n \notin B, B \subseteq B1,
         c >= Cardinality(A), c <= Cardinality(B)
  PROVE  /\ A1 \subseteq A => c >= Cardinality(A1) /\ c <= Cardinality(B1)
         /\ A1 \subseteq A \cup {n} /\ n \in B1 => c + 1 >= Cardinality(A1) /\ c + 1 <= Cardinality(B1)
<1>1. /\ Cardinality(A) \in Nat /\ Cardinality(B) \in Nat /\ Cardinality(B1) \in Nat
      /\ Cardinality(B) <= Cardinality(B1)
  BY FS_CardinalityType, FS_Subset
<1>2. ASSUME A1 \subseteq A PROVE c >= Cardinality(A1)
  <2>1. IsFiniteSet(A1) /\ Cardinality(A1) <= Cardinality(A)
    BY <1>2, FS_Subset
  <2>2. Cardinality(A1) \in Nat
    BY <2>1, FS_CardinalityType
  <2> QED BY <1>1, <2>1, <2>2
<1>3. ASSUME A1 \subseteq A \cup {n} PROVE c + 1 >= Cardinality(A1)
  <2>1. IsFiniteSet(A \cup {n}) /\ Cardinality(A \cup {n}) \in {Cardinality(A), Cardinality(A) + 1}
    BY FS_AddElement
  <2>2. IsFiniteSet(A1) /\ Cardinality(A1) <= Cardinality(A \cup {n})
    BY <1>3, <2>1, FS_Subset
  <2>3. Cardinality(A1) \in Nat
    BY <2>2, FS_CardinalityType
  <2> QED BY <1>1, <2>1, <2>2, <2>3
<1>4. ASSUME n \in B1 PROVE c + 1 <= Cardinality(B1)
  <2>1. IsFiniteSet(B \cup {n}) /\ Cardinality(B \cup {n}) = Cardinality(B) + 1
    BY FS_AddElement
  <2>2. Cardinality(B \cup {n}) <= Cardinality(B1)
    <3>1. B \cup {n} \subseteq B1
      BY <1>4
    <3> QED BY <3>1, FS_Subset
  <2> QED BY <1>1, <2>1, <2>2
<1> QED BY <1>1, <1>2, <1>3, <1>4

\* The count of texts is between those heard on our thread and those with the early ones.
LEMMA TextStep ==
  ASSUME TypesOK, SaidOK, DialectOK, DoneOK, ShutdownOK, TextOK, [Next]_vars
  PROVE  TextOK'
<1>1. TypesOK'
  BY TypesStep
<1>2. CASE HandleLine
  <2>1. PICK n \in Nat : \E k \in NoteKinds \cup {"ok", "bad"} : Hearing(n, k)
    BY <1>2, HandleHears
  <2>2. PICK k \in NoteKinds \cup {"ok", "bad"} : Hearing(n, k)
    BY <2>1
  <2>3. reader = "reading" /\ UNCHANGED <<pc, verdict, result>>
    BY <2>2 DEF Hearing
  <2>4. pc = "closed" => verdict.cause = "handshake"
    BY <2>3 DEF ShutdownOK, Ended
  <2>5. CASE pc = "closed"
    BY <2>3, <2>4, <2>5 DEF TextOK
  <2>6. CASE pc # "closed"
    <3> DEFINE A  == Heard(TextKinds)
               B  == Heard(TextKinds) \cup Early(TextKinds)
               A1 == Heard(TextKinds)'
               B1 == Heard(TextKinds)' \cup Early(TextKinds)'
    <3>1. IsFiniteSet(A) /\ IsFiniteSet(B)
      BY FiniteHeard, KindSets
    <3>2. IsFiniteSet(B1)
      <4>1. heard' \in Nat
        BY <1>1 DEF TypesOK, ReaderTypes
      <4>2. IsFiniteSet(1..heard')
        BY <4>1, FS_Interval
      <4>3. B1 \subseteq 1..heard'
        BY DEF Heard, Early
      <4> QED BY <4>2, <4>3, FS_Subset
    <3>3. /\ B \subseteq B1 /\ A1 \subseteq A \cup {n} /\ n \notin B
          /\ n \in A1 <=> Ours(n) /\ k \in TextKinds
          /\ EarlyNote(n) /\ k \in TextKinds => n \in B1
      BY <2>2, HearingSets, KindSets
    <3>4. texts \in Nat /\ texts >= Cardinality(A) /\ texts <= Cardinality(B)
      BY <2>6 DEF TextOK, TypesOK, ResultTypes
    <3>5. texts' >= Cardinality(A1) /\ texts' <= Cardinality(B1)
      <4>1. CASE texts' = texts /\ n \notin A1
        <5>1. A1 \subseteq A
          BY <3>3, <4>1
        <5> HIDE DEF A, B, A1, B1
        <5> QED BY <3>1, <3>2, <3>3, <3>4, <4>1, <5>1, TextCount
      <4>2. CASE texts' = texts + 1 /\ n \in B1
        <5> HIDE DEF A, B, A1, B1
        <5> QED BY <3>1, <3>2, <3>3, <3>4, <4>2, TextCount
      <4>3. CASE ~Ours(n) /\ Unheard
        BY <3>3, <4>1, <4>3 DEF Unheard
      <4>4. CASE (Ours(n) \/ EarlyNote(n)) /\ Taken(k)
        BY <2>6, <3>3, <4>1, <4>2, <4>4 DEF Taken
      <4> QED BY <2>2, <4>3, <4>4 DEF Hearing
    <3> QED BY <2>3, <2>6, <3>5 DEF TextOK
  <2> QED BY <2>5, <2>6
<1>3. CASE ~HandleLine
  <2>1. Deaf /\ Moves
    BY <1>3, TypesStep, StepMoves
  <2>2. /\ Heard(TextKinds)' = Heard(TextKinds) /\ Early(TextKinds)' = Early(TextKinds)
        /\ texts' = texts
    BY <2>1, HeardStays, KindSets DEF Deaf
  <2>3. \/ UNCHANGED <<pc, verdict, result>>
        \/ pc # "closed" /\ pc' # "closed"
        \/ pc = "failing" /\ pc' = "closed" /\ verdict' = verdict
        \/ pc = "reaping" /\ pc' = "closed" /\ verdict' = verdict /\ result'.output = texts
    <3>1. ASSUME NEW m \in Methods, Handshake(m) PROVE pc # "closed" /\ pc' # "closed"
      <4>1. pc = m /\ m # "closed"
        BY <3>1 DEF Handshake, Methods
      <4>2. ASSUME NEW o, Return(m, o) PROVE pc' # "closed"
        BY <4>2, AfterType DEF Return, Methods
      <4> QED BY <3>1, <4>1, <4>2 DEF Handshake
    <3> QED BY <2>1, <3>1 DEF Moves, Aside, Ending, Closing
  <2> QED BY <2>2, <2>3 DEF TextOK, ShutdownOK
<1> QED BY <1>2, <1>3

-----------------------------------------------------------------------------
(* The activity channel and the first-turn timer.                          *)

\* ActivityOK in its two parts.
Started == Heard(StartKinds) # {} => firstTurn # "off" \/ Queued("status:running")
Moved   ==
  \/ firstTurn = "stopped"
  \/ firstTurn = "armed" /\ Queued("progress")
  \/ /\ firstTurn = "off"
     /\ \E p, q \in 1..Len(activity) :
          p < q /\ activity[p] = "status:running" /\ activity[q] = "progress"

\* An activity more loses none that is queued.
LEMMA QueueGrows ==
  ASSUME activity \in Seq(Activity), firstTurn \in {"off", "armed", "stopped"},
         NEW acts \in Seq(Activity), activity' = activity \o acts, firstTurn' = firstTurn
  PROVE  /\ \A a : Queued(a) => Queued(a)'
         /\ Moved => Moved'
         /\ \A a : acts # <<>> /\ acts[1] = a => Queued(a)'
         /\ /\ acts # <<>> /\ acts[1] = "progress"
            /\ firstTurn # "off" \/ Queued("status:running")
            => Moved'
<1>1. /\ Len(activity) \in Nat /\ Len(acts) \in Nat /\ Len(activity') = Len(activity) + Len(acts)
      /\ \A p \in 1..Len(activity) : activity'[p] = activity[p]
      /\ \A p \in 1..Len(acts) : activity'[Len(activity) + p] = acts[p]
  OBVIOUS
<1>2. \A p \in 1..Len(activity) : p \in 1..Len(activity')
  BY <1>1
<1>3. \A a : Queued(a) => Queued(a)'
  BY <1>1, <1>2 DEF Queued
<1>4. Moved => Moved'
  BY <1>1, <1>2 DEF Moved, Queued
<1>5. ASSUME acts # <<>>
      PROVE  Len(activity) + 1 \in 1..Len(activity') /\ activity'[Len(activity) + 1] = acts[1]
  <2>1. 1 \in 1..Len(acts)
    BY <1>5, <1>1
  <2> QED BY <1>1, <2>1
<1>6. \A a : acts # <<>> /\ acts[1] = a => Queued(a)'
  BY <1>5 DEF Queued
<1>7. ASSUME acts # <<>>, acts[1] = "progress", firstTurn # "off" \/ Queued("status:running")
      PROVE  Moved'
  <2>1. CASE firstTurn # "off"
    BY <1>6, <1>7, <2>1 DEF Moved
  <2>2. CASE firstTurn = "off" /\ Queued("status:running")
    <3>1. PICK p \in 1..Len(activity) : activity[p] = "status:running"
      BY <2>2 DEF Queued
    <3>2. /\ p < Len(activity) + 1 /\ p \in 1..Len(activity') /\ activity'[p] = "status:running"
      BY <1>1, <1>2, <3>1
    <3> QED BY <1>5, <1>7, <2>2, <3>2 DEF Moved
  <2> QED BY <1>7, <2>1, <2>2
<1> QED BY <1>3, <1>4, <1>6, <1>7

\* The select takes one activity, and the timers have seen it.
LEMMA QueueShrinks ==
  ASSUME activity \in Seq(Activity), firstTurn \in {"off", "armed", "stopped"}, SeeActivity
  PROVE  /\ firstTurn # "off" \/ Queued("status:running") =>
              firstTurn' # "off" \/ Queued("status:running")'
         /\ Moved => Moved'
<1>1. /\ activity # <<>> /\ activity' = Tail(activity)
      /\ firstTurn' =
           CASE firstTurn = "off" /\ Head(activity) = "status:running" -> "armed"
             [] firstTurn = "armed" /\ Head(activity) = "progress"     -> "stopped"
             [] OTHER                                                  -> firstTurn
  BY DEF SeeActivity
<1>2. /\ Len(activity) \in Nat /\ Len(activity) > 0 /\ Len(activity') = Len(activity) - 1
      /\ Head(activity) = activity[1]
      /\ \A p \in 1..Len(activity') : activity'[p] = activity[p + 1]
  BY <1>1
<1>3. ASSUME NEW p \in 1..Len(activity), p # 1
      PROVE  p - 1 \in 1..Len(activity') /\ activity'[p - 1] = activity[p]
  <2>1. p - 1 \in 1..Len(activity') /\ (p - 1) + 1 = p
    BY <1>2, <1>3
  <2> QED BY <1>2, <2>1
<1>4. \A a : Queued(a) /\ activity[1] # a => Queued(a)'
  BY <1>3 DEF Queued
<1>5. /\ firstTurn = "off" => firstTurn' = IF activity[1] = "status:running" THEN "armed" ELSE "off"
      /\ firstTurn = "armed" => firstTurn' = IF activity[1] = "progress" THEN "stopped" ELSE "armed"
      /\ firstTurn = "stopped" => firstTurn' = "stopped"
  BY <1>1, <1>2
<1>6. firstTurn # "off" \/ Queued("status:running") =>
        firstTurn' # "off" \/ Queued("status:running")'
  BY <1>4, <1>5
<1>7. ASSUME Moved PROVE Moved'
  <2>1. CASE firstTurn = "stopped"
    BY <1>5, <2>1 DEF Moved
  <2>2. CASE firstTurn = "armed" /\ Queued("progress")
    BY <1>4, <1>5, <2>2 DEF Moved
  <2>3. CASE /\ firstTurn = "off"
             /\ \E p, q \in 1..Len(activity) :
                  p < q /\ activity[p] = "status:running" /\ activity[q] = "progress"
    <3>1. PICK p \in 1..Len(activity), q \in 1..Len(activity) :
                 p < q /\ activity[p] = "status:running" /\ activity[q] = "progress"
      BY <2>3
    <3>2. q # 1 /\ p - 1 < q - 1 /\ (activity[1] = "progress" => p # 1)
      BY <1>2, <3>1
    <3>3. q - 1 \in 1..Len(activity') /\ activity'[q - 1] = "progress"
      BY <1>3, <3>1, <3>2
    <3>4. CASE activity[1] = "status:running"
      BY <1>5, <2>3, <3>3, <3>4 DEF Moved, Queued
    <3>5. CASE activity[1] # "status:running"
      <4>1. p # 1
        BY <3>1, <3>5
      <4>2. p - 1 \in 1..Len(activity') /\ activity'[p - 1] = "status:running"
        BY <1>3, <3>1, <4>1
      <4> QED BY <1>5, <2>3, <3>2, <3>3, <3>5, <4>2 DEF Moved
    <3> QED BY <3>4, <3>5
  <2> QED BY <1>7, <2>1, <2>2, <2>3 DEF Moved
<1> QED BY <1>6, <1>7

\* Every activity since the start of a turn is queued or was seen, unless one was dropped.
LEMMA ActivityStep ==
  ASSUME TypesOK, SaidOK, DialectOK, ActivityOK, [Next]_vars
  PROVE  ActivityOK'
<1> SUFFICES ASSUME ~dropped'
    PROVE  Started' /\ \A s \in Heard(StartKinds)', i \in Heard(Progress)' : s < i => Moved'
  BY DEF ActivityOK, Started, Moved, Queued
<1>1. /\ activity \in Seq(Activity) /\ dropped \in BOOLEAN
      /\ firstTurn \in {"off", "armed", "stopped"}
  BY DEF TypesOK, QueueTypes, MainTypes
<1>2. ~dropped => Started /\ \A s \in Heard(StartKinds), i \in Heard(Progress) : s < i => Moved
  BY DEF ActivityOK, Started, Moved, Queued
<1>3. CASE HandleLine
  <2>1. PICK n \in Nat : \E k \in NoteKinds \cup {"ok", "bad"} : Hearing(n, k)
    BY <1>3, HandleHears
  <2>2. PICK k \in NoteKinds \cup {"ok", "bad"} : Hearing(n, k)
    BY <2>1
  <2>3. firstTurn' = firstTurn
    BY <2>2 DEF Hearing
  <2>4. /\ Heard(StartKinds)' \subseteq Heard(StartKinds) \cup {n}
        /\ Heard(Progress)' \subseteq Heard(Progress) \cup {n}
        /\ n \in Heard(StartKinds)' <=> Ours(n) /\ k \in StartKinds
        /\ n \in Heard(Progress)' <=> Ours(n) /\ k \in Progress
        /\ \A i \in Heard(StartKinds) \cup Heard(Progress) : i \in Nat /\ i < n
    BY <2>2, HearingSets, KindSets
  <2>5. CASE ~Ours(n) /\ Unheard
    <3>1. UNCHANGED <<firstTurn, activity, dropped>>
      BY <2>3, <2>5 DEF Unheard
    <3>2. /\ Heard(StartKinds)' \subseteq Heard(StartKinds)
          /\ Heard(Progress)' \subseteq Heard(Progress)
      BY <2>4, <2>5
    <3> QED BY <1>2, <3>1, <3>2 DEF Started, Moved, Queued
  <2>6. CASE k \in NoteKinds /\ Taken(k)
    <3>1. PICK acts \in Seq(Activity) : acts = Activities(k)
      BY <2>6, ActivitiesSeq
    <3>2. ~dropped /\ activity' = activity \o acts
      <4>1. TrySend(acts)
        BY <2>6, <3>1 DEF Taken
      <4> QED BY <4>1, TrySendType
    <3>3. /\ k \in StartKinds => acts # <<>> /\ acts[1] = "status:running"
          /\ k \in Progress => acts # <<>> /\ acts[1] = "progress"
      BY <3>1, ActivitiesType
    <3>4. /\ \A a : Queued(a) => Queued(a)'
          /\ Moved => Moved'
          /\ \A a : acts # <<>> /\ acts[1] = a => Queued(a)'
          /\ /\ acts # <<>> /\ acts[1] = "progress"
             /\ firstTurn # "off" \/ Queued("status:running")
             => Moved'
      BY <1>1, <2>3, <3>2, QueueGrows
    <3>5. Started'
      <4>1. CASE Heard(StartKinds) # {}
        BY <1>2, <2>3, <3>2, <3>4, <4>1 DEF Started
      <4>2. CASE Heard(StartKinds) = {} /\ k \in StartKinds
        BY <3>3, <3>4, <4>2 DEF Started
      <4>3. CASE Heard(StartKinds) = {} /\ k \notin StartKinds
        BY <2>4, <4>3 DEF Started
      <4> QED BY <4>1, <4>2, <4>3
    <3>6. ASSUME NEW s \in Heard(StartKinds)', NEW i \in Heard(Progress)', s < i PROVE Moved'
      <4>1. s \in Heard(StartKinds)
        BY <2>1, <2>4, <3>6
      <4>2. CASE i \in Heard(Progress)
        BY <1>2, <3>2, <3>4, <3>6, <4>1, <4>2
      <4>3. CASE i = n
        <5>1. acts # <<>> /\ acts[1] = "progress"
          BY <2>4, <3>3, <3>6, <4>3
        <5>2. firstTurn # "off" \/ Queued("status:running")
          BY <1>2, <3>2, <4>1 DEF Started
        <5> QED BY <3>4, <5>1, <5>2
      <4> QED BY <2>4, <3>6, <4>2, <4>3
    <3> QED BY <3>5, <3>6
  <2> QED BY <2>2, <2>5, <2>6 DEF Hearing
<1>4. CASE ~HandleLine
  <2>1. Deaf /\ (SeeActivity \/ UNCHANGED <<activity, firstTurn>>)
    BY <1>4, TypesStep, StepMoves
  <2>2. /\ Heard(StartKinds)' = Heard(StartKinds) /\ Heard(Progress)' = Heard(Progress)
        /\ ~dropped
    BY <2>1, HeardStays, KindSets DEF Deaf
  <2>3. CASE UNCHANGED <<activity, firstTurn>>
    BY <1>2, <2>2, <2>3 DEF Started, Moved, Queued
  <2>4. CASE SeeActivity
    <3>1. /\ firstTurn # "off" \/ Queued("status:running") =>
               firstTurn' # "off" \/ Queued("status:running")'
          /\ Moved => Moved'
      BY <1>1, <2>4, QueueShrinks
    <3> QED BY <1>2, <2>2, <3>1 DEF Started
  <2> QED BY <2>1, <2>3, <2>4
<1> QED BY <1>3, <1>4

-----------------------------------------------------------------------------
(* The theorems.                                                           *)

\* Facts about the empty sequence.
LEMMA Nothing ==
  /\ <<>> \in Seq(Lines) /\ <<>> \in Seq(Activity) /\ Len(<<>>) = 0 /\ 1..0 = {}
  /\ Cardinality({}) = 0 /\ \A c, d \in {0} : c >= d /\ c <= d
<1>1. <<>> \in Seq(Lines) /\ <<>> \in Seq(Activity) /\ Len(<<>>) = 0
  OBVIOUS
<1>2. 1..0 = {}
  OBVIOUS
<1>3. \A c, d \in {0} : c >= d /\ c <= d
  OBVIOUS
<1> QED BY <1>1, <1>2, <1>3, FS_EmptySet

\* The invariant holds of a run that has not started.
LEMMA CodexInit == Init => CInv
<1> SUFFICES ASSUME Init PROVE CInv
  OBVIOUS
<1> USE DEF Init
<1>1. TypesOK
  <2>1. \A o \in Options : o \subseteq {"resume", "name"}
    BY CodexAssumption
  <2>2. <<>> \in Seq(Lines) /\ <<>> \in Seq(Activity) /\ Len(<<>>) = 0
    BY Nothing
  <2>3. ChildTypes
    <3>1. opts \subseteq {"resume", "name"} /\ said \in Seq(Lines)
      BY <2>1, <2>2
    <3> QED BY <3>1 DEF ChildTypes
  <2>4. ReaderTypes
    <3>1. Len(said) = 0 /\ heard <= Len(said)
      BY <2>2, Nothing
    <3> QED BY <3>1 DEF ReaderTypes
  <2>5. EndTypes /\ QueueTypes /\ ResultTypes
    BY <2>2 DEF EndTypes, QueueTypes, ResultTypes, NoResult
  <2>6. MainTypes
    BY DEF MainTypes, Working, Methods, NoVerdict, Statuses, Causes
  <2> QED BY <2>3, <2>5, <2>6, <2>4 DEF TypesOK
<1>2. /\ 1..heard = {} /\ 1..Len(said) = {}
  BY Nothing
<1>3. \A ks : Heard(ks) = {} /\ Early(ks) = {}
  BY <1>2 DEF Heard, Early
<1>4. SaidOK /\ DialectOK
  BY <1>2 DEF SaidOK, DialectOK, Legacy, Telling
<1>5. ErrorOK /\ DoneOK
  BY <1>3 DEF ErrorOK, DoneOK
<1>6. EndIsTheChilds /\ CompletionBeatsExit /\ ShutdownOK
  BY DEF EndIsTheChilds, CompletionBeatsExit, ShutdownOK, NoVerdict
<1>7. TextOK
  <2>1. Cardinality({}) = 0
    BY Nothing
  <2>2. Heard(TextKinds) = {} /\ Heard(TextKinds) \cup Early(TextKinds) = {}
    BY <1>3
  <2>3. /\ texts = 0 /\ Cardinality(Heard(TextKinds)) = 0
        /\ Cardinality(Heard(TextKinds) \cup Early(TextKinds)) = 0
    BY <2>1, <2>2
  <2>4. texts >= Cardinality(Heard(TextKinds))
    BY <2>3, Nothing
  <2>5. texts <= Cardinality(Heard(TextKinds) \cup Early(TextKinds))
    BY <2>3, Nothing
  <2> QED BY <2>4, <2>5 DEF TextOK
<1>8. ActivityOK
  BY <1>3 DEF ActivityOK
<1> QED BY <1>1, <1>4, <1>5, <1>6, <1>7, <1>8 DEF CInv

\* What the two goroutines share owes everything to the lines that were heard.
THEOREM CodexInductive == Spec => []CInv
<1>1. Init => CInv
  BY CodexInit
<1>2. CInv /\ [Next]_vars => CInv'
  BY TypesStep, SaidStep, ErrorStep, DoneStep, VerdictStep, ShutdownStep, TextStep, ActivityStep DEF CInv
<1> QED BY <1>1, <1>2, PTL DEF Spec

\* The verdict on a finished turn is the child's: aborted if an abort came
\* first of all ends, completed or failed if another end came before every
\* abort, and completed only if that end was clean and nothing had failed
\* before it; in its own thread's name, or early (finishTurn).
THEOREM EndIsAnnounced == Spec => []EndIsTheChilds
<1>1. CInv => EndIsTheChilds
  BY DEF CInv
<1> QED BY <1>1, CodexInductive, PTL

\* A run that is reported as a crash of the child has seen no end of its turn
\* (processDone in Execute).
THEOREM CrashHasNoEnd == Spec => []CompletionBeatsExit
<1>1. CInv => CompletionBeatsExit
  BY DEF CInv
<1> QED BY <1>1, CodexInductive, PTL

\* The Result is sent when the child is gone and all its text is in it.
THEOREM ResultHasTheText == Spec => []ResultIsLast
<1>1. CInv => ResultIsLast
  BY DEF CInv, ResultIsLast, ShutdownOK, TextOK, Ended
<1> QED BY <1>1, CodexInductive, PTL

\* While it waits, only the first-turn timer finds that there is no progress.
LEMMA OnlyTheTimer ==
  ASSUME [Next]_vars, Waiting, verdict = NoVerdict, verdict'.cause = "no_progress"
  PROVE  firstTurn = "armed"
<1>1. verdict' # verdict
  BY DEF NoVerdict
<1>2. pc = "waiting" /\ pc \notin Methods
  BY DEF Waiting, Methods
<1>3. CASE HandleLine \/ MarkExited \/ Exit \/ LetGo \/ ContextDone
  BY <1>1, <1>3 DEF HandleLine, MarkExited, Exit, LetGo, ContextDone, mainVars
<1>4. CASE \/ \E m \in Methods : Answer(m)
           \/ \E k \in Kinds \cup ForeignKinds, t \in {"ours", "foreign", "early"} : Notify(k, t)
  BY <1>1, <1>4 DEF Answer, Notify, mainVars
<1>5. CASE \E m \in Methods : Send(m) \/ Await(m)
  BY <1>2, <1>5 DEF Send, Await
<1>6. CASE SeeActivity \/ Grace \/ JoinReader \/ Report
  BY <1>1, <1>6 DEF SeeActivity, Grace, JoinReader, Report
<1>7. CASE TurnDone \/ SeeExit
  BY <1>7 DEF TurnDone, SeeExit, FinishTurn, Leave
<1>8. CASE SemanticTimeout \/ SeeContext
  BY <1>8 DEF SemanticTimeout, SeeContext, Leave
<1>9. CASE FirstTurnTimeout
  BY <1>9 DEF FirstTurnTimeout
<1>10. CASE UNCHANGED vars
  BY <1>1, <1>10 DEF vars, mainVars
<1> QED BY <1>3, <1>4, <1>5, <1>6, <1>7, <1>8, <1>9, <1>10
    DEF Next, ReaderStep, MainStep, TimerStep, ChildStep

\* An armed timer, an empty channel and nothing dropped: no progress since the start.
LEMMA SilentSinceStart ==
  ASSUME TypesOK, ActivityOK, firstTurn = "armed", activity = <<>>, ~dropped,
         NEW s \in Heard(StartKinds), NEW i \in Heard(Progress)
  PROVE  i < s
<1>1. ~Queued("progress")
  <2>1. 1..Len(activity) = {}
    BY Nothing
  <2> QED BY <2>1 DEF Queued
<1>2. ~(s < i)
  BY <1>1 DEF ActivityOK
<1>3. s # i
  BY DEF Heard, StartKinds, Progress, TextKinds
<1>4. s \in Nat /\ i \in Nat
  BY LineTypes DEF Heard
<1> QED BY <1>2, <1>3, <1>4

\* The first-turn timer accuses only a child that has been silent since its
\* turn started (firstTurnNoProgressTimer).
THEOREM SilenceIsReal == Spec => NoProgressIsReal
<1>1. ASSUME CInv, [Next]_vars, verdict'.cause = "no_progress", Waiting, activity = <<>>, ~dropped
      PROVE  \A s \in Heard(StartKinds), i \in Heard(Progress) : i < s
  <2>1. TypesOK /\ DoneOK /\ ActivityOK
    BY <1>1 DEF CInv
  <2>2. verdict = NoVerdict
    BY <1>1, <2>1 DEF DoneOK, Waiting, Working
  <2>3. firstTurn = "armed"
    BY <1>1, <2>2, OnlyTheTimer
  <2> QED BY <1>1, <2>1, <2>3, SilentSinceStart
<1>2. CInv /\ [Next]_vars =>
        [verdict'.cause = "no_progress" /\ Waiting /\ activity = <<>> /\ ~dropped =>
           \A s \in Heard(StartKinds), i \in Heard(Progress) : i < s]_vars
  BY <1>1
<1> QED BY <1>2, CodexInductive, PTL DEF Spec, NoProgressIsReal
=============================================================================
