# Verification of meowth

TLA+ modules that model the parts of meowth whose correctness depends on
interleaving, failure and order, the TLC configurations that check them on small
instances, and TLAPS proofs of what matters most, for every value of the
constants. Paths below are relative to the repository root; `pkg/`, `internal/`
and `cmd/` are under `daemon/`.

meowth is a Go daemon, `meowthd`, that runs coding-agent CLIs (claude, codex,
copilot, hermes, pi) as child processes, streams what they say as NDJSON over
HTTP, keeps every session in SQLite, and serves a React dashboard that is a client
of the same API.

## 1. Inventory

| Component | State it keeps | Operations | What is hard | What makes it correct |
|---|---|---|---|---|
| exec handler and pump (`handlers/exec.go`, `exec_pump.go`) | a `sessions` row, `messages` rows, the response, the seq cursor | insert row, register, start backend, select loop over context / message / heartbeat / Result, drain, finalize | a select picks any ready branch; statements fail; the client leaves; the context dies under an INSERT | table and wire hold one well-formed transcript; the row settles as the transcript says |
| cancel registry and endpoint (`cancel_registry.go`, `handlers/sessions.go`) | id to cancel func, `requested`, `shutdownIDs` | Register, unregister, Cancel, CancelAll, IsShutdown | the row is read before the registry is asked; two cancels and a CancelAll race | one cancel fires; the verdict tells who stopped the stream |
| daemon process (`cmd/meowthd/main.go`, `server.go`) | listener, home, lifetime | startup sweep, serve, graceful shutdown, exit sweep | signals, crashes, a second serve on the home | no `running` row outlives its process; a signalled daemon exits |
| first-run door (`mint/`, `handlers/mint.go`, `initcmd/`, `setupnonce/`, `bootstraptoken/`) | nonce file, `tokens` rows, mint window and its mutex | init (two paths), probe, mint, lockout, bootstrap-token | five kinds of process share a home; crashes between COMMIT and unlink; stale checks | one first token; a closed window stays shut; the setup code is given up only over a committed row or in a lockout |
| bearer auth and token endpoints (`auth/middleware.go`, `handlers/tokens.go`, `store/tokens.go`) | `tokens` rows, touch goroutines | prefix lookup, argon2id, touch, create, list, revoke | the row is used long after it is read; touches land in any order | only the presented live token authorizes; the first revocation stands |
| message pipe (`message_pipe.go`) | queue, lock, wake channel, relay goroutine | Send, Close, the relay's loop | lost wake-ups; Close racing Send | a lossless FIFO with an end |
| streaming backends (`claude.go`, `copilot.go`, `pi.go`) | child process, prompt writer, scanner, context watcher, temporary file | start, write, parse, answer, wait, derive a Result | two bounded pipes filled from both ends; the last line racing exit and context; a scanner that gives up; retried attempts | exactly one Result that says what happened; nothing unverified shown; nothing left behind |
| JSON-RPC backends (`codex.go`, `hermes.go`) | pending requests, one-place channels, timers, the replay gate, stderr sniffer | handshake, turn, dispatch of notifications, close | process exit racing the last line; timers racing completion; history replayed into a turn; an answer nobody sends | the Result is what the child announced; the history stays out; the run reports |
| session store (`internal/store`), home (`internal/home`) and remote access (`internal/remoteaccess`) | SQLite, file modes, config.toml | validate the configuration, make the home private, open, check the marker, migrate, bind | processes that start together on one home; a crash within a migration; the order of the checks | the ledger matches the schema; a refused start leaves no trace; no unacknowledged address is served |
| envelope codec (`internal/envelope`) | the seq cursor | build, shrink to the size limit | bisection at a boundary | result fits, and is maximal |
| dashboard view models (`apps/dashboard/src/viewmodels`, `models`) | React state, AbortControllers | send a turn, cancel, retry, page through a snapshot, sign in, manage tokens | responses that arrive after the state they were for has changed | a stale response changes nothing |
| the rest (factory, catalogs, middlewares, assets, UI, scripts) | none to speak of | pure functions and I/O | | |

How they meet: the handler inserts the row, registers its cancel function, and
gives the backend a context. The backend answers with two channels, `Messages`
(an unbounded queue behind a relay goroutine) and `Result` (one value). The pump
turns what it receives into envelopes: INSERT, then Write. The cancel endpoint and
`CancelAll` reach the pump only through the context and the registry's two sets.
The daemon's sweeps reach it only through SQLite. The dashboard sees only the
NDJSON and the JSON endpoints. Tokens are shared between the door, the
middleware and the command-line processes only through SQLite and the nonce file.

`PROJECT.json` lists every component with its status, and every hazard at the
line where it bites.

## 2. Modules

| Module | Models | Notes |
|---|---|---|
| `ExecStream` | exec handler, pump, cancel registry, cancel endpoint, daemon life cycle, the store's exec statements | one action per INSERT, Write, receive or critical section |
| `ExecStreamProps` | properties of the above, and the refinement | `Lifecycle == INSTANCE SessionLifecycle WITH ...` |
| `SessionLifecycle` | abstract: the life of a session row, as a reader of the API sees it | implemented by `ExecStream` |
| `ExecStream_proofs` | proofs about the wire, of the refinement, about the registry and cancel requests, about transcripts and rows, and about `MessagePipe`, the queue they take it for | five parts, in this order |
| `FirstRun`, `FirstRunProps`, `FirstRun_proofs` | init, bootstrap-token, serve's probe, the mint window and handler, the nonce | one action per file-system call, SQL statement or critical section of `Mu` |
| `BearerAuth`, `BearerAuthProps`, `BearerAuth_proofs` | the middleware, touches, create and revoke | |
| `Startup`, `StartupProps`, `Startup_proofs` | serve up to its listener: configuration, home, database, migrations, address | several processes on one home |
| `MessagePipe` | the message pipe | one critical section of its mutex is one step; proved about in `ExecStream_proofs` |
| `Fifo` | abstract: a lossless queue with an end | implemented by `MessagePipe`, assumed by `ExecStream` and `AgentStream` |
| `AgentStream`, `AgentStreamProps`, `AgentStream_proofs` | one run of the claude, copilot or pi backend over bounded pipes | the child is a process of its own |
| `CodexTurn`, `CodexTurnProps`, `CodexTurn_proofs` | one run of the codex backend: client, reader, timers, shutdown, Result | one action per line handled, request, receive or timer |
| `HermesTurn`, `HermesTurnProps`, `HermesTurn_proofs` | one run of the hermes backend: handshake, gate, reader, stderr, Result | likewise |
| `ChatWorkspace`, `ChatWorkspaceProps`, `ChatWorkspace_proofs` | the dashboard's chat: conversations, turns, streams | one action per handler or resolved await |
| `MC*` | instances for TLC | only constants and symmetry sets |

How the modules meet. The backends' modules end at `Send`, `Close` and the Result;
`MessagePipe` carries the messages, and its `PipeIsFifo` is what lets `ExecStream` take
`Messages` for a queue (`chan`) and `AgentStream` take `Send` for an append. `ExecStream` in
turn allows its backend any order of messages and any Result the backends' modules can
produce. `SessionLifecycle` is what is left of `ExecStream` for a client of the JSON API,
and the NDJSON it writes is what `ChatWorkspace` reads, as chunks with at most one end.
`Startup` ends where `FirstRun` (the probe) and `ExecStream` (the sweep) begin.

Definitions whose comment starts with `Fault` are mutated forms of the action
below them. Nothing uses them but the `mutants` of `PROJECT.json`, which substitute each
and expect its property to fail.

### ExecStream

`pc[s]` is the handler's control state and follows the code in order: `idle`,
`arrived` (the request is in the handler, before its INSERT), `inserted` (row in SQLite), `registered`, `opened` (Execute returned), `started`
(session_started persisted), `select`, `write`/`writeBig`/`trunc` (an envelope is
persisted and to be written), `drainCtx`/`awaitCtx` (`drainAndFinalizeCancelled`),
`awaitClosed`, `drainRes`, then `finalizeStream`: `final`, `pin`, `emit`, `writeEnd`, `row`
(UpdateSessionEnded); `abort` (abortStream), `exit` (deferred unregister), `done`; `lost` is a handler whose
process died. `loop[s]` is the loop a write returns to.

A request may only arrive on a connection that was accepted (`Accepting`), but from there on nothing holds it
back: `Begin`, the INSERT of the row, may come after `CancelAll`, after the ten seconds of `Shutdown` and
after the exit sweep, as long as the process lives. A cancel request likewise arrives (`CancelArrive`), reads the
row (`CancelRead`) and asks the registry (`CancelFire`). `finalizeStream` reads `IsShutdown` once
(`Decide`), may pin the Result's id (`PinFinal`), inserts `session_ended` (`EmitEnded`), writes it and
updates the row: five steps, between which `CancelAll` may mark the session.

`persistAndWrite` is two steps (`Persist`, `Deliver`), because a crash or a cancel
may come between. A receive is one step with the INSERT that follows: only a
cancel can come between these, and the select may take the message branch after
the cancel anyway. An INSERT under a context that is done always fails; with a live
context it fails at most `MaxFaults` times. `chan`, `closed`, `sent` and `res` are the
backend as the pump sees it: it may send, finish with any status of
`NaturalStatus`, report any of `CancelStatus` once cancelled, close without a
result (`SilentBackend`), or do nothing for ever. Every timeout in the code is an
action that may come at any time if `Deadlines` lists it (one-second drains,
the wait for a Result, the ten seconds of `Shutdown`).

Message kinds stand for what the pump tells apart: `text`, `big` (does not fit an
envelope, so a `message_truncated` error follows), `ident` (carries the backend
session id to be pinned).

### FirstRun

`home` and `nonce` are what exists on disk; `invalid` is a nonce file that was created and
not yet written (os.WriteFile is a create followed by a write). `tokens` is the table in insertion
order, each row with the process that knows its secret; `told` is the rows whose
secret somebody was shown. Each init, bootstrap-token, daemon and mint request has
a control state. `lock[d]` is `MintWindow.Mu`: `Strike`, `CountFormat` and the
failing half of `Verify` are whole critical sections, while a matching code goes
through `recheck`, `stat`, `tx`, `insert` and `remove` holding it. `Probe` is split
at its count of tokens. A deferred SQLite transaction writes only on top of the
snapshot its count fixed: hence `InsertToken`'s condition, and a failed transaction
otherwise. `Stop` is an exit, an expired deadline or a kill: the window and the
lock vanish, the disk stays. A draining daemon has closed its listener, so its
successor can bind while it still answers.

A request that is refused by the loopback, origin or mount gate, or at
`IsClosed`, changes nothing and is no step. The 404 and its jitter are not
represented.

### BearerAuth

A request presents a token, whose prefix it may share with others. `Select` reads the
candidate rows in one statement; `Verify` goes through them; a match authorizes
and starts a touch, which is an independent pending write of the time captured
then. Revocation is the guarded UPDATE. A restart drops requests and pending
touches. The hash comparison is modelled by whom the row belongs to.

### CodexTurn

`pc` is the lifecycle goroutine of `Execute`: one value per
request of the handshake, `waiting` (the select loop), `closing`/`killing` (stdin closed, the
grace period, the join of the reader), `reaping`, `failing` (a handshake error, which
waits for the process without a grace period), `closed`. `call` is the pending request;
`Send` is `request` up to the write, `Await` one ready case of its select. `said` is all
the child wrote to stdout and `heard` how far the reader is; `HandleLine` is
`handleLine` with the handler it reaches, one step per line, `MarkExited` the end of
stdout or a line over the scanner's 10 MiB. stdout ends when the child has exited and no process that it started
still `held` it, or when `cmd.Wait` closes it (`pc` is `closed`); nothing makes a descendant let go (`LetGo`). `turnDone` is the one-place channel,
`activity` the channel that drops when full. A notification is a kind, which says what
the handlers do with it (`Activities`, `EndsTurn`), and a thread, ours or a subagent's.
Repeated turn ids are left out: a second end of a turn never gets past the one-place channel. So are usage,
approvals and timeout diagnostics. `threadID` is written and read without
synchronisation; the model takes each access as one step and leaves torn reads out.

The child may answer or refuse each request once, notify as soon as turn/start was
asked (a subagent's thread also earlier), die at any time, or ignore its closed
stdin. It never has to act, except that a done context kills it.

### AgentStream

One run of claude, copilot or pi, picked in `Init`. `pc` is the run: its setup (`CreateTemp`,
`Spawn` and the error paths of `Execute`), the read loop, the wait, the verdict, and the
deferred closes in the order Go runs them. The prompt writer of claude (`WritePrompt`) and the
goroutine that closes stdout once the context is done (`WatchContext`) are processes of
their own. A pipe holds `OutCap` lines or `InCap` units: a child whose line does not fit
is `stuck` in its write, and so is a writer of the prompt. A line is named by what the
reader makes of it (`LineKinds`), its text by its place. `huge` is the line at which reading
fails. `held` is a descendant that keeps the child's stdout open after its exit.
`ClaudeHears`, `CopilotHears` and `PiHears` say what a line does to what the reader has
gathered (`st`), `ClaudeSends`, `CopilotSends` and `PiSends` what it sends: pi keeps the text of an
attempt until the attempt has ended in success. `RanStatus` and `Status` are the verdict,
from the exit, the context, the writer's error and what was heard.

### HermesTurn

`stage` is the request the lifecycle goroutine is at, `step` where it is in it (registered,
written, waiting). `gate` is `streamingCurrentTurn`. The reader takes one line per step
(`Line`): an answer, an update (`handleNotification`, behind `acceptNotification`), or a request for
a permission. `promptDone` is the one-place channel that an early turn end fills;
`onPromptDone` is in the step of the line that carries it. `old` marks what belongs to the
turns before: the child may replay it at any time after the session is asked for, also
late. stderr has a reader of its own (`ReadErr`), which the verdict joins (`stderrDone`).

### Startup

Every process runs the same sequence: `LoadConfig`, `Ensure`, `OpenFile`, `CheckMarker`,
`EnsureLedger`, `loadApplied`, then per migration `ExecMigration` and `CommitMigration`, `Migrated`, `Tighten`,
`Listen`. `writer` is SQLite's write lock; a crash rolls back. `rivals` is a ghost that remembers
that somebody else has migrated since the ledger was read. The configuration is any
combination of the field values the rules tell apart. The file may come from an earlier version,
from the other mode, or be new.

### ChatWorkspace

`ws` is React state, `shown` what was last rendered, which is what handlers close over: a step of
a turn's own function changes `ws` and `Render` follows some time later. `controllers` is the map
of the same name, a controller named by its turn. `wire[t]` is the response of turn t: `asked`,
`open`, `ended`, `refused`, `broken`, or `gone` once its function has returned.
`Unmount` may come at any time.

### SessionLifecycle and Fifo

The refinement mapping of `SessionLifecycle` is in `ExecStreamProps`: the row is its own
image; the verdict is the status of the `session_ended` row; the owner is a function of `pc`
(`none` before the INSERT, `working` up to `row` and `abort`, `leaving` at `exit`, `gone` after). A sweep
is a `Sweep` step, a crash a `Die`, a restart a `Restart`. It allows what the code does and the
documents do not like (section 6): a sweep may abort a row that is being streamed, and the owner
then settles it again. What it excludes is a row settled by anyone else, twice, or against
its verdict. `Fifo` is mapped to `hand \o q`: what the relay offers is still in the queue.

## 3. Runs

| Run | Question | Instance |
|---|---|---|
| `exec_transcript` | Do table, wire and backend agree, whatever the select does? | 1 session, 2 messages of 3 kinds, 1 failing statement, a client that leaves, every pump deadline, silent backend |
| `exec_stop` | Do registry, cancels, stops, crashes and sweeps settle every row once, as `SessionLifecycle` has it, and does the verdict tell who stopped the stream? | 1 session, 2 cancels, 1 fault, 2 stops, 1 second serve; the exec and the cancel requests may be arriving when the daemon stops |
| `exec_live` | Does a cancelled stream return, an accepted cancel settle, a signalled daemon exit? | 1 session, 1 cancel, 1 stop, no faults, `FairSpec` |
| `first_run` | Is the first token minted once, and what is the setup code given up for? | 2 daemons, 1 init, 1 bootstrap-token, 2 requests, `MaxFailures = 2`, `MaxRows = 2` |
| `bearer_auth` | Who is authorized, and what do touches and revocations leave? | 2 tokens with one prefix, 2 requests, clock to 2, touches may be lost |
| `startup` | Is what is on disk always migratable, does a refused start leave no trace, is a remote address acknowledged? | 2 processes, 3 starts, 1 crash, 1 fault, 2 migrations, 6 modes x 9 addresses x 3 ports x 2 labels |
| `message_pipe` | Is the pipe a FIFO, and does its reader see the end? | 2 producers with the sends of its cfg, Close at any time |
| `agent_stream` | Does the Result tell what happened, is nothing unverified shown, nothing left behind, and does the run report? | 3 backends, at most 3 lines (5 for pi), both pipes of capacity 1, a prompt of 2 units for claude |
| `codex_turn` | Is the Result what the child announced, does it come, and does it come last? | a resumed and named run, 4 kinds of ours and 1 of a subagent's, at most 3 notifications and refusals, activity channel of 2, oversized lines, `FairSpec` |
| `hermes_turn` | Does the history stay out, is the turn shown whole, does the Result tell why, and does it come? | a resumed run with a model and a fresh one, 6 scripts of a turn, 1 line of history |
| `chat_workspace` | Does a turn tell its own stream, and stay as it ended? | 2 agents, 2 conversations, 2 turns, 1 text chunk each, 2 probes |
| `bug_cancel_fails` | Section 6 | a minimal instance in which nothing else goes wrong |

Why the bounds are enough. Sessions share nothing but the registry and the
database, where each has its own key, so one session shows all the transcript
can do; the theorems hold for any number. Two messages make an order, and one that is
queued while another is written. Two cancels race each other and a
`CancelAll`; two stops make a crash during shutdown and a crash after a restart.
`MaxFailures` is 5 in the code; with 2 a strike can be the first or the last. Two
requests put one behind the other's mutex; two daemons are a draining one and its
successor, or a crash and a restart. Two rows tell "first" from "not first".
Three lines of a codex child make "started, finished, failed", the shortest in which an
end is followed by one that contradicts it; the 256 places of the activity channel are 2,
so that one line may fill it. The four kinds are a start, an end guarded by the
start, an error, and an aborted end in the other dialect. A run that resumes and has a name
passes through every request. A subagent's line may come before `threadID` is known or after.
A pipe of one line and a prompt of two units is the smallest in which the child can fill stdout
before it reads and the writer can be half done. Five lines of pi are an attempt that fails, a
retry and an attempt with text that succeeds. The scripts of a hermes turn are a tool with streamed
arguments, a tool that starts at once, a result without a use, a permission, an early turn end and an oversized
line; one line of history suffices, since the gate treats each alone. Two processes with one start more than
there are processes make a rival and a restart after a crash. Two conversations make one that is left
while it streams; two turns make a cancel or a retry with a late chunk of the first.
Deadlock is not checked in any run: every instance stops when its sessions,
requests or bounds are used up, and a server without work is idle. What must not
get stuck is stated as liveness in `exec_live`, `message_pipe`, `agent_stream`, `codex_turn` and
`hermes_turn` instead.

`SYMMETRY` is used only with sets of interchangeable model values and never with a
liveness property.

### Fairness

`FairSpec` is weakly fair to the steps of the handler goroutine, to the goroutine
that discards after a drain, to net/http noticing a client that left, to a cancel
handler that has read its row, and to `Serve` after the signal. These are ready
goroutines, which the Go scheduler runs. It assumes that SQLite statements and writes to a response
return; the code sets no write timeout, so a client that stays
connected and stops reading can hold a handler in `Write`, until the ten seconds
of `Shutdown`. In `CodexTurn` it is weakly fair to the reader goroutine, to the lifecycle
goroutine and to a kill taking effect; in `AgentStream` and `HermesTurn` to the goroutines of the run
(for hermes the reader and the stderr reader, for claude the writer and the watcher), to a kill, and to a
child that follows its protocol as long as it is not blocked: it reads its stdin, says its last
words or answers a request, and exits when it has said them or its stdin is closed. The liveness properties
of these two are about such a child, or a context that ends, and name what defeats them (a
descendant that holds stdout, a line the scanner gave up on). In `MessagePipe` it is weakly fair to the relay goroutine and to the reader.

In `ExecStream` nothing obliges the backend, the client, the user or the operator to do
anything: a backend may stay silent for ever, and a cancelled stream still returns,
because every wait entered after the cancel has a deadline.

## 4. Proofs

TLAPS checks every leaf; assumptions are only the named assumptions on the constants. Each
proof module has one inductive invariant made of named parts, one lemma per action (or kind of
action) that it is preserved, and the properties as its consequences. The
theorems hold for any number of sessions, requests, daemons, processes, lines,
conversations and faults. In particular two inits on one home, which are too many states for
TLC, are covered by the theorems on `FirstRun`.

### ExecStream_proofs

* `TypeCorrect`, `WireAndLog` (from `WirePrefix` and `ClientCurrent`). `TypeOK` is not
  inductive: `Deliver` reads the last row of the log, so the induction carries that
  the log is not empty wherever a write is owed. `WireIsPrefixOfLog` is not either:
  appending to the wire is sound only if the wire lacks exactly the last row. So
  the invariant says, by control state, how far the wire lags: by one row between
  `Persist` and `Deliver`, by nothing elsewhere for a client that is connected, and
  arbitrarily once it has left, after which the wire never grows.
* `StreamsLiveTheLifecycle`: `ExecStream` implements `SessionLifecycle`. Besides
  the types the mapping needs `LifeOK`: while a handler is at work its row is `running` or
  `aborted`; before `writeEnd` its transcript has no verdict, in `writeEnd` and `row` it has one,
  and a verdict is a terminal status. Each action of `ExecStream` is then shown to be one step of
  `SessionLifecycle` (`Start`, `Conclude`, `Settle`, `GiveUp`, `Leave`, `Sweep`, `Die`, `Restart`) or a stutter.
* `RegistryExact`, `OneCancelFires`. That at most one cancel is
  answered 202 needs that a fired request leaves either its mark in `requested` or a session that is no longer
  registered and never will be again, because session ids are fresh.
* `TranscriptFramed`, `MessagesKept`, `ResumePointer`, `RowsSettled`, from one invariant
  `TInv` on top of `TypeOK` and `LifeOK`. It relates the control state to the shape of the log (no end before
  `writeEnd`, seqs equal to places but for the one gap of a failed INSERT), the messages in the log to
  those the backend sent and the buffer still holds, and the row to the log. `MessagesConserved` speaks of
  the places of messages: `MessagesAmong`, `SentInOrder`, `NothingMissing` say that what the log has is
  among what was sent, in its order, without holes; in this form no filter of a sequence is to be unfolded.
* `VerdictTold`. The verdict is made in three places: the context's end, the backend's Result or its default, and
  `Decide`. So `VInv` carries forward why a context is done: a user's stop (a fired cancel or a client that has left), or a mark of
  `CancelAll`, which only a signalled daemon sets. A `cancelled` Result belongs to such a context, and from `Decide` on to one that
  a user stopped, since a mark that was there turned it into `aborted`. A mark that comes after `Decide` falls on
  a stream a user had stopped.

* `NothingLostOrOvertaken`, about `MessagePipe`, is the safety half of `PipeIsFifo`: every step of the pipe is a step of
  `Fifo` or a stutter (`Queue!Safety`). Besides the types it needs only when the relay holds a message. `NoKickIsLost` is
  what the liveness half rests on, that a relay asleep with something to do has a token in its wake channel.

### FirstRun_proofs

`DoorInductive` and five consequences. The inductive invariant
is type correctness and `MintIsFirst` with `WindowTellsWhy`, `CommitUnderLock` and
three more parts: `InFlight` (a request in flight belongs to a daemon that still
handles requests), `NoWindowYet` (a daemon that does not has no window, and a window
without a setup code is closed), `RowBeforeRemove` (a request about to remove the
nonce has its row). `MintIsFirst` rests on the snapshot rule: the row goes into
an empty table. `NonceGoesLast` needs on top that a request about to remove the nonce has its *own* row first in the
table (`OwnRow`), which stays true since rows are only appended and revoked (`FirstRowStays`).

### BearerAuth_proofs

`AuthInductive`, `OnlyLiveTokens`, `RevokedStaysRevoked`, `TouchesTellUses`.
`AuthorizedByLiveToken` speaks of requests in their handler, while what keeps a
revoked token out is decided at the SELECT two steps earlier. So the invariant says
that a request whose token was revoked before it came has read no row that matches
it and gets no further than Verify (`DeadStaysOut`), that a request past Verify
stands for the token it presented (`OwnToken`), and that the time a DELETE is
about to store is not NULL (`StampIsSet`), without which a revocation could be undone.
`TouchedOnlyByUse` needs that no authorization lies in the future (`UsesArePast`): a later one then cannot
move the token's last use back below what a touch has stored.

### Startup_proofs

`StartupInductive`, `MigrationsRecover`, `RefusalsAreClean`, `RemoteNeedsConsent`. The invariants speak of what a
start has come to; `IInv` adds what a process knows on its way there: that the configuration it has loaded was valid
(`OnItsWay`), that past the marker check the store is of its mode and what it has made private stays so (`Private`), and
that what it has read of the ledger is part of it, and all of it unless it has a rival or holds the write
transaction (`Read`). The migrations that are done are the first so many (`Prefixes`), which a committed one extends.
Assumed of the constants: the versions are a finite set, `"none"` is not a process.

### AgentStream_proofs

`StreamInductive` and `ResultHasAReason`, `EverythingIsGivenBack`, `CompletedIsWhole`, `NothingUnverified`.
The parts of `SInv`: `TypesOK`; `PhaseOK`, which resource is held at which control state of which backend; `StateOK`, what the
reader knows (`st`) of the lines it has read; `EndOK`, why it stopped reading; `ShownOK`, which texts were sent or are
kept back, by their places in the child's output; `WholeOK`, that the Result has all of them. That the concatenation of the messages
(`Flat`, a fold) grows by what a message adds is an induction over the number of messages. The library's
induction theorems take a predicate as parameter, which the provers cannot instantiate; the lemma uses the same fact in its
first-order form, that a non-empty set of naturals has a least member: the first place at which the claim fails.

### CodexTurn_proofs

`CodexInductive`, `EndIsAnnounced`, `CrashHasNoEnd`, `ResultHasTheText`, and of the action property `SilenceIsReal`. `CInv` says what the dialect and the
error flag are in terms of the lines heard, that the one-place channel of the turn's end is empty only if no end was heard and otherwise
tells which came first, an abort before every other end or an end before every abort (`Announced`), that unless one was dropped every activity since the start of the turn is queued until the select has seen it, and
what the count of texts owes to the lines heard. The lines of a subagent's thread that come before
`threadID` is known (`Early`) count as heard by the handlers, and the invariant carries them throughout.

### HermesTurn_proofs

`HermesInductive` and its consequences `HistoryIsOut`, `TurnShown`, `ResultHasACause`. The properties speak of the messages and the
Result; what decides them lies earlier, and is in the parts of `HInv`:

* `AskOK`, `SlotOK`, `ServersOK`: one request is at work at a time, the child answers it once, and what is in the one-place slot is
  the answer to the request the lifecycle goroutine is at, or the reader's end.
* `GateOK`, `LateOK`: the gate opens after the answer to the session was read and before the prompt is written; before it opens nothing is
  sent or kept and the child has said nothing of the turn. So everything that is shown, or buffered to be
  shown, comes after that answer (`HistoryStaysOut`), and nothing of the turn was dropped at the gate.
* `TextOK`, `ToolOK`: each text heard of the turn is in the messages once and in order; what `pendingTools` keeps of the tool call is
  what was heard of it and not shown yet. Together with `ScriptOK`, that what the child has said is the
  beginning of one of `Turns`, and the assumption that a script has one call (`OneTool`), this is `TurnIsShown`: without it
  a second start after the result would show a second use. `OneTool` also rules out arguments after a start that
  was shown at once, which the code would ignore; the comment at `hermes.go:998` says that such a start is complete.
* `EndOK`: a verdict, from where it is decided on, has its cause (`Cause`), and no cause goes away (`Lasts`). A completed run has
  joined both readers (`Sound`), so no complaint of the provider is missed.

### ChatWorkspace_proofs

`ChatInductive`, `TurnsTellTheirStream`, and of the action property `EndedTurnsAreLeft`. `ChatInv`: `TypesOK`; `ConvsOK` (ids of
turns ascend, only the last turn of a conversation runs and only its stream owns the conversation, each turn says what its stream
said); `OwnersOK`; `ShownOK` (what was rendered is behind the workspace by nothing but its
streams, since handlers close over a rendering); `WireOK`; `ResumeOK`. Each step is one of four kinds, of which the lemmas speak instead
of the dozen actions: it rearranges conversations without touching a turn, is quiet, moves a stream along, or starts a turn.

### Only model-checked

The liveness properties (`CancelledStreamReturns`, `FiredCancelSettles`, `SignalledDaemonExits`, the three `RunReports`
and the fair half of `PipeIsFifo`): liveness under fairness and ENABLED are out of the prover's reach. Every other property
of a passing run is stated by a theorem.

### What the proofs changed in the models

`validate` of `Startup` and `pickApprovalOptionID` of `HermesTurn` are IF instead of CASE: the
order of their conditions matters, which CASE leaves open. `MessagesConserved` speaks of places instead of filtered
sequences. `ResultIsLast` used to count only the lines of our thread; a text of a subagent's thread that
precedes `threadID` counts too, so the output lies between the texts heard on ours and those together with the early ones. `NoProgressIsReal` has a control
label of its own (`no_progress`) for the timer's verdict. `Fifo` separates its safety (`Safety`) from its fairness, and `MessagePipe` has
names of its own (`PipeInit`, `PipeNext`, `queued`), so that one module of proofs can extend it together with `ExecStream`.
In `HermesTurn` `TurnIsShown` compares places instead of filtered sequences, `Output` is the set of the messages that
`promoteACPResultOnProviderError` looks at, the child follows a script by rank (`Begins`) instead of by a filter, and what
was implicit in the scripts of the run, that each has one tool call, is now the assumption `OneTool`.

## 5. Plan

In this order.

1. Proofs: every invariant and action property of the runs is proved. What is left are the invariants behind the liveness
   properties, that whoever waits has a wake-up under way, as `NoKickIsLost` states of the pipe.
2. The smaller view models (setup, tokens, session detail with snapshot paging), whose
   one listed hazard is a response that outlives its modal.
3. Pure algorithms against reference definitions: envelope shrinking, if its dependence on the length of
   encodings can be stated without inventing them.

## 6. Where code and documents disagree

Shown by a run that refutes the documented statement:

* `bug_cancel_fails`: the select may take the message branch although the
  context is done; the INSERT under that context fails, and a cancelled run is
  stored as `failed`.

Met while modelling, described here without a run. About sessions:

* docs/architecture/03 section 6.2 reserves `aborted` for the daemon's own stop and gives a
  user's cancel `cancelled`. Every production backend reports `aborted` for a cancelled context
  (`claude.go:217`), and the pump stores what it is told.
* The startup sweep runs before the port is bound (`main.go:172`), so a second `meowthd serve` on a
  home aborts the rows of live streams. `SessionLifecycle` therefore lets a sweep come at any time.
* A failed INSERT leaves a gap in the seqs before `session_ended`
  (`exec_pump.go:133`); `TranscriptIsFramed` allows exactly that one.
* A handler whose first Write fails returns and leaves its row `running` until the next sweep
  (`handlers/exec.go:254`); `RowsAreSettled` excludes exactly that case.
* A session that is not in the registry is reported as already terminal although
  it may be running and not yet registered (`handlers/sessions.go:246`).
* A handler that registers after `CancelAll` is not cancelled by it (`server.go:247`); the
  ten-second deadline is what ends such a daemon.
* A request that was accepted before the shutdown may insert its row after Shutdown has given up and the exit sweep is over
  (`handlers/exec.go:161`): the exit leaves it `running`, though the comment at `main.go:230` says that the
  sweep flips any such row. The next start settles it; `RowsAreSettled` speaks of the streams that `CancelAll` stopped.
* `finalizeStream` asks `IsShutdown` before it inserts `session_ended` (`exec_pump.go:244`): a session that
  `CancelAll` marks in between ends as `cancelled` if its client had already left, where 02 section 8.1 has every
  session that is active at the shutdown aborted. `VerdictTellsWhoStopped` says that this needs a client that left.
* A Result whose session id is not that of the messages is announced by `session_ended`, while the row keeps the
  first (`exec_pump.go:256`): the transcript and the row then name different sessions.
* `UpdateSessionEnded` is unguarded, so a handler that outlives the exit sweep
  overwrites the `aborted` it left (`store/sessions.go:153`); so does `Settle` of
  `SessionLifecycle`.
* abortStream returns without reading on: the relay goroutine of the message pipe
  then blocks for good, which `message_pipe.go:12` says cannot happen.
* The one-second drain after a Result drops what is still queued
  (`exec_pump.go:223`); `MessagesConserved` says when.

About the backends:

* A handshake request that fails because the context was cancelled or expired is
  reported `failed`, not `aborted` or `timeout` (`codex.go:684`, `:698`, `:725`), and the
  wait for the process comes before the deferred cancel: a live child that ignores
  its closed stdin holds the run.
* The same holds after a line over 10 MiB: the reader ends, the grace period is over at once
  and `cmd.Wait` waits for a child nobody kills (`codex.go:868`). `RunReports` excludes it.
* codex: a process that the child started and that keeps stdout open holds the run at `<-readerDone` (`codex.go:877`)
  when the child is gone. The `WaitDelay` of `codex.go:554`, set against "an open pipe held by a grandchild", takes
  effect in `cmd.Wait`, which comes after; and the comment at `codex.go:865` says the reader can never block forever.
  `RunReports` excludes a held stdout, and says the run reports once it is let go. (If stderr is held too, os/exec
  itself closes the pipes ten seconds after the context is done; the model does not count on that.)
* codex: an `error` that follows a clean `final_answer` before the select has read `turnDone` makes the run
  `failed`, after it `completed` (`codex.go:766`); `EndIsTheChilds` allows both.
* A terminal `error` notification that comes before any line tells the dialect is
  dropped (`codex.go:1541`); `Ours` in `CodexTurnProps` says which lines count.
* The notifications of a subagent's thread are filtered only once `threadID` is known
  (`codex.go:1634`): a turn one of them completes before that ends ours. `EndIsTheChilds` counts such
  an early end (`Early`), and `threadID`'s comment (`codex.go:1626`) says there is none.
* claude and copilot do not look at `scanner.Err()` (`claude.go:152`): after a line over the buffer they wait for
  the process, and a run that was cut off may be `completed`. `Choked` marks these in the properties.
* copilot has no counterpart of `resolveSessionID`, so a resume that failed before the child took it up may be
  reported with an id; and the text of its `assistant.message` is not relayed, only deltas are.
* hermes: an update of the history that the child flushes after the gate has opened enters the turn
  (`hermes.go:335`), and a late `turn_end` of it with `cancelled` can make the run `aborted`. An early
  turn end hides the stop reason and the usage of the response to the prompt; a usage snapshot and that
  response's usage are added up. A cancel during the handshake is reported `failed`. A line of stderr
  without a newline is never sniffed. A request made after the reader has given up on an oversized line waits for
  the context.

About the rest:

* `last_used_at` is documented as the most recent authentication (03:117), but touch goroutines are not
  ordered and the UPDATE is unguarded (`auth/middleware.go:172`): the column may move back.
* docs/architecture/05 section 5 checks the address (D3) before the port (D4); the code checks the
  port first (`remoteaccess.go:215`), and `validate` follows the code.
* `MEOWTH_TEST_HOME` may name the production home (`home.go:198`); the marker is what keeps the two apart.
* The chat gives a turn `failed` also when the daemon answers with an HTTP error and nothing was streamed
  (`useChatViewModel.ts:212`, and the test at `useChatViewModel.test.tsx:413`), while `models/chat.ts:35` and
  docs/features/03 section 5.4 reserve it to a `session_ended` with that status. `TurnTellsItsStream` follows the code.
* A mint that dies between its COMMIT and its 201 leaves a row whose secret nobody was told, and no setup code that
  would be of use (`mint/window.go:257`): the next daemon removes it and mounts no mint endpoint. `meowthd bootstrap-token` is what
  gets the operator in. `NonceOutlivesMint` says what the code is given up for, not that somebody has the secret.
* docs/architecture/04 section 8.2 has bootstrap-token run on a stopped daemon; the command
  does not check (`bootstraptoken.go:52`), and the model lets it run at any time.
* `bootstraptoken.go:109` advises `meowthd init` for a home without a store, but init
  refuses every non-empty home (`initcmd.go:98`); only `serve` creates the database
  then.
* Two inits on one home may both pass `ensureHomeAbsent` and both go on.

## 7. Not modelled

Wording, formatting and logging; HTTP routing and headers; file ownership, and file
modes beyond loose and tight; the contents of messages beyond their kinds; command-line
parsing, argument and environment building of the child processes, usage numbers; the test backend (of which only
its status for a cancelled context matters, as the constant `TestBackend`); rendering. The catalogs of models and
thinking levels and the factory are tables, parsing and construction. Envelope
shrinking depends on the length of JSON encodings. The dashboard's other view models are one
request and one flag each (section 5). The 64 MiB body limit, jitter and argon2id's cost have no state. Time is
not a clock but the freedom of a timeout to come first, except in `BearerAuth`, where
the order of times is the point.

## 8. Running

    tlc -workers 2 -config first_run.cfg MCFirstRun
    tlapm FirstRun_proofs.tla

Each run of `PROJECT.json` names its module and configuration.
