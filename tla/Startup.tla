------------------------------ MODULE Startup ------------------------------
(***************************************************************************)
(* How `meowthd serve` comes up: it validates the [remote_access] block,   *)
(* makes the home private, opens the database (marker check, migrations,   *)
(* marker check, file modes), takes its port and decides whether the mint  *)
(* endpoint is mounted.  Several processes may start on one home at the    *)
(* same time, any of them may crash anywhere and be started again.         *)
(*                                                                         *)
(* A statement that SQLite commits by itself is one step, as is each step  *)
(* of a migration's transaction; a writer waits for the write lock.  The   *)
(* sweep of stale sessions is in ExecStream, the mint window in FirstRun.  *)
(***************************************************************************)
EXTENDS Naturals, FiniteSets

CONSTANTS
  Procs,        \* processes that serve this home
  Modes, Addrs, Ports, Acks,  \* what the fields of the block may hold
  Ifaces,       \* the addresses of this host
  TestHome,     \* the values of MEOWTH_TEST
  Markers,      \* what an existing database may hold in _test_marker
  Versions,     \* the migrations
  MaxStarts, MaxCrashes, MaxFaults   \* bounds

ModeNames == {"local", "tailscale", "ssh_tunnel", "https_proxy"}

ASSUME StartupAssumption ==
  /\ "none" \notin Procs
  /\ Modes \subseteq ModeNames \cup {"missing", "other"}
  /\ Addrs \subseteq {"missing", "empty", "localhost", "127.0.0.1", "::1", "127.0.0.2", "tailnet",
                      "tailnet2", "public", "cidr", "withPort", "wildcard", "name"}
  /\ Ports \subseteq {"missing", "zero", "7040", "above"}
  /\ Acks \subseteq {"missing", "blank", "label"}
  /\ TestHome \subseteq BOOLEAN /\ Markers \subseteq {"none", "table", "row"}
  /\ IsFiniteSet(Versions) /\ Versions = 1..Cardinality(Versions)
  /\ MaxStarts \in Nat /\ MaxCrashes \in Nat /\ MaxFaults \in Nat

VARIABLES
  config, test,          \* config.toml, and the mode of this home
  dirs, file,            \* modes of the directories and of the database: "none", "loose", "tight"
  marker,                \* the _test_marker table
  hasLedger, ledger,     \* the _migrations table and its versions
  schema,                \* versions whose tables exist
  writer,                \* who holds the write lock, in a migration's transaction
  pc, applied, err,      \* each process, what it has read of the ledger, why it gave up
  wrote,                 \* what it has changed on disk since it was started
  rivals,                \* another process has committed a migration since it read the ledger
  bound, mint,           \* its listener's address; is the mint endpoint mounted?
  starts, crashes, faults

confVars == <<config, test>>
diskVars == <<dirs, file, marker, hasLedger, ledger, schema, writer>>
procVars == <<pc, applied, err, wrote, rivals, bound, mint>>
cntVars  == <<starts, crashes, faults>>
vars == <<confVars, diskVars, procVars, cntVars>>

-----------------------------------------------------------------------------
(* remoteaccess.Load.                                                      *)

DefaultBlock == [mode |-> "local", addr |-> "127.0.0.1", port |-> "7040", ack |-> "missing"]

Loopback == {"127.0.0.1", "::1"}
Tailnet  == {"tailnet", "tailnet2"}

\* "only 127.0.0.1 and ::1" (remoteaccess.go).
isLoopback(addr) == addr \in Loopback

\* An IP literal, or localhost, which is never looked up.
parseBindAddr(raw) == IF raw = "localhost" THEN "127.0.0.1" ELSE raw
BadAddr == {"empty", "cidr", "withPort", "wildcard", "name"}

checkModeAddrAllowSet(mode, addr) == IF mode = "tailscale" THEN addr \in Tailnet ELSE isLoopback(addr)

checkTailscaleInterface(addr) ==
  IF addr \in Ifaces THEN "ok" ELSE IF Tailnet \cap Ifaces # {} THEN "D6 mismatch" ELSE "D6 not running"

\* The first rule that the block breaks, in the order they are tried.
validate(b) ==
  IF b.mode = "missing" \/ b.addr = "missing" \/ b.port = "missing" THEN "D0"
  ELSE IF b.mode \notin ModeNames                                    THEN "D1"
  ELSE IF b.mode # "local" /\ b.ack # "label"                        THEN "D2"
  ELSE IF b.port \in {"zero", "above"}                               THEN "D4"
  ELSE IF b.addr \in BadAddr                                         THEN "D3"
  ELSE IF ~checkModeAddrAllowSet(b.mode, parseBindAddr(b.addr))      THEN "D5"
  ELSE IF b.mode = "tailscale" THEN checkTailscaleInterface(b.addr)  ELSE "ok"

\* config.toml may be missing, which stands for the default, or unreadable.
Block == IF config.kind = "none" THEN DefaultBlock ELSE config.block
Load  == IF config.kind = "broken" THEN "parse" ELSE validate(Block)

-----------------------------------------------------------------------------

To(p, next) == pc' = [pc EXCEPT ![p] = next]

\* The process exits with an error; a transaction it is in is rolled back.
Quit(p, why) == To(p, "failed") /\ err' = [err EXCEPT ![p] = why]

Wrote(p, what) == wrote' = [wrote EXCEPT ![p] = @ \cup {what}]

Serve(p) ==
  /\ pc[p] \in {"idle", "failed", "dead"} /\ starts < MaxStarts
  /\ starts' = starts + 1
  /\ To(p, "config")
  /\ err' = [err EXCEPT ![p] = ""] /\ wrote' = [wrote EXCEPT ![p] = {}]
  /\ applied' = [applied EXCEPT ![p] = {}] /\ rivals' = [rivals EXCEPT ![p] = FALSE]
  /\ UNCHANGED <<confVars, diskVars, bound, mint, crashes, faults>>

LoadConfig(p) ==
  /\ pc[p] = "config"
  /\ IF Load = "ok" THEN To(p, "ensure") /\ UNCHANGED err ELSE Quit(p, Load)
  /\ UNCHANGED <<confVars, diskVars, applied, wrote, rivals, bound, mint, cntVars>>

\* The directories are made, or made private.
Ensure(p) ==
  /\ pc[p] = "ensure"
  /\ dirs' = "tight"
  /\ Wrote(p, "dirs")
  /\ To(p, "open")
  /\ UNCHANGED <<confVars, file, marker, hasLedger, ledger, schema, writer, applied, err, rivals, bound,
                 mint, cntVars>>

\* SQLite materialises the file as the pragmas are applied.
OpenFile(p) ==
  /\ pc[p] = "open"
  /\ file' = IF file = "none" THEN "loose" ELSE file
  /\ IF file = "none" THEN Wrote(p, "file") ELSE UNCHANGED wrote
  /\ To(p, "marker")
  /\ UNCHANGED <<confVars, dirs, marker, hasLedger, ledger, schema, writer, applied, err, rivals, bound,
                 mint, cntVars>>

verifyStore == IF test THEN marker = "row" ELSE marker = "none"

\* Fault: the marker is looked at when the migrations are done.
CheckMarkerLater(p) ==
  /\ pc[p] = "marker"
  /\ To(p, "ledger")
  /\ UNCHANGED <<confVars, diskVars, applied, err, wrote, rivals, bound, mint, cntVars>>

CheckMarker(p) ==
  /\ pc[p] = "marker"
  /\ IF verifyStore THEN To(p, "ledger") /\ UNCHANGED err ELSE Quit(p, "marker")
  /\ UNCHANGED <<confVars, diskVars, applied, wrote, rivals, bound, mint, cntVars>>

-----------------------------------------------------------------------------
(* ApplyMigrations.                                                        *)

EnsureLedger(p) ==
  /\ pc[p] = "ledger" /\ (hasLedger \/ writer = "none")
  /\ hasLedger' = TRUE
  /\ IF hasLedger THEN UNCHANGED wrote ELSE Wrote(p, "ledger")
  /\ To(p, "load")
  /\ UNCHANGED <<confVars, dirs, file, marker, ledger, schema, writer, applied, err, rivals, bound, mint,
                 cntVars>>

loadApplied(p) ==
  /\ pc[p] = "load"
  /\ applied' = [applied EXCEPT ![p] = ledger]
  /\ rivals' = [rivals EXCEPT ![p] = FALSE]
  /\ To(p, "migrate")
  /\ UNCHANGED <<confVars, diskVars, err, wrote, bound, mint, cntVars>>

Missing(p) == Versions \ applied[p]
NextVersion(p) == CHOOSE v \in Missing(p) : \A w \in Missing(p) : v <= w

\* Another process is told that it has a rival.
Overtake(p) == rivals' = [q \in Procs |-> rivals[q] \/ (q # p /\ pc[q] \in {"migrate", "record"})]

\* Fault: a migration is run outside of a transaction.
ExecUnprotected(p) ==
  /\ pc[p] = "migrate" /\ Missing(p) # {} /\ writer = "none"
  /\ IF NextVersion(p) \in schema
       THEN Quit(p, "migrate") /\ UNCHANGED <<schema, writer>>
       ELSE To(p, "record") /\ writer' = p /\ schema' = schema \cup {NextVersion(p)} /\ UNCHANGED err
  /\ UNCHANGED <<confVars, dirs, file, marker, hasLedger, ledger, applied, wrote, rivals, bound, mint,
                 cntVars>>

\* The transaction takes the write lock with its first statement, which
\* makes a table: if the table is there, the migration fails.
ExecMigration(p) ==
  /\ pc[p] = "migrate" /\ Missing(p) # {} /\ writer = "none"
  /\ IF NextVersion(p) \in schema
       THEN Quit(p, "migrate") /\ UNCHANGED writer
       ELSE To(p, "record") /\ writer' = p /\ UNCHANGED err
  /\ UNCHANGED <<confVars, dirs, file, marker, hasLedger, ledger, schema, applied, wrote, rivals, bound,
                 mint, cntVars>>

\* The row of _migrations, and the commit.
CommitMigration(p) ==
  /\ pc[p] = "record"
  /\ LET v == NextVersion(p)
     IN /\ schema' = schema \cup {v} /\ ledger' = ledger \cup {v}
        /\ applied' = [applied EXCEPT ![p] = @ \cup {v}]
  /\ writer' = "none"
  /\ Overtake(p)
  /\ Wrote(p, "schema")
  /\ To(p, "migrate")
  /\ UNCHANGED <<confVars, dirs, file, marker, hasLedger, err, bound, mint, cntVars>>

Migrated(p) ==
  /\ pc[p] = "migrate" /\ Missing(p) = {}
  /\ IF test \/ verifyStore THEN To(p, "chmod") /\ UNCHANGED err ELSE Quit(p, "late marker")
  /\ UNCHANGED <<confVars, diskVars, applied, wrote, rivals, bound, mint, cntVars>>

\* home.EnsureFileMode on the database and its sidecars.
Tighten(p) ==
  /\ pc[p] = "chmod"
  /\ file' = "tight"
  /\ To(p, "listen")
  /\ UNCHANGED <<confVars, dirs, marker, hasLedger, ledger, schema, writer, applied, err, wrote, rivals,
                 bound, mint, cntVars>>

-----------------------------------------------------------------------------

\* Fault: the decision is taken from the address.
IsLoopbackBind == isLoopback(parseBindAddr(Block.addr))

IsLocal == Block.mode = "local"

Listen(p) ==
  /\ pc[p] = "listen"
  /\ \/ /\ \A q \in Procs : bound[q] = "none"
        /\ bound' = [bound EXCEPT ![p] = parseBindAddr(Block.addr)]
        /\ mint' = [mint EXCEPT ![p] = IsLocal]
        /\ To(p, "serving")
        /\ UNCHANGED err
     \/ /\ \E q \in Procs : bound[q] # "none"
        /\ Quit(p, "port")
        /\ UNCHANGED <<bound, mint>>
  /\ UNCHANGED <<confVars, diskVars, applied, wrote, rivals, cntVars>>

Release(p) ==
  /\ writer' = IF writer = p THEN "none" ELSE writer
  /\ bound' = [bound EXCEPT ![p] = "none"] /\ mint' = [mint EXCEPT ![p] = FALSE]

\* A system call or a statement fails, the 5 seconds that a writer waits
\* for the lock being over among the reasons.
Fault(p) ==
  /\ pc[p] \notin {"idle", "failed", "dead", "config", "serving"} /\ faults < MaxFaults
  /\ faults' = faults + 1
  /\ Quit(p, "fault") /\ Release(p)
  /\ UNCHANGED <<confVars, dirs, file, marker, hasLedger, ledger, schema, applied, wrote, rivals, starts,
                 crashes>>

Crash(p) ==
  /\ pc[p] \notin {"idle", "failed", "dead"} /\ crashes < MaxCrashes
  /\ crashes' = crashes + 1
  /\ To(p, "dead") /\ Release(p)
  /\ UNCHANGED <<confVars, dirs, file, marker, hasLedger, ledger, schema, applied, err, wrote, rivals,
                 starts, faults>>

\* store.EnsureTestMarker, called by the harness of the tests on the file of
\* a test home ("production code must never call this").
EnsureTestMarker ==
  /\ test /\ file # "none" /\ marker # "row" /\ writer = "none"
  /\ marker' = "row"
  /\ UNCHANGED <<confVars, dirs, file, hasLedger, ledger, schema, writer, procVars, cntVars>>

-----------------------------------------------------------------------------

Blocks == [mode : Modes, addr : Addrs, port : Ports, ack : Acks]
Files  == {[kind |-> k, block |-> DefaultBlock] : k \in {"none", "broken"}} \cup
          {[kind |-> "block", block |-> b] : b \in Blocks}

\* A home that is new, or that an earlier version has left at some migration.
Init ==
  /\ config \in Files /\ test \in TestHome
  /\ \/ dirs = "none" /\ file = "none" /\ marker = "none" /\ schema = {}
     \/ /\ dirs \in {"loose", "tight"} /\ file = "loose" /\ marker \in Markers
        /\ schema \in {{}} \cup {1..v : v \in Versions}
  /\ ledger = schema /\ hasLedger = (schema # {}) /\ writer = "none"
  /\ pc = [p \in Procs |-> "idle"] /\ applied = [p \in Procs |-> {}] /\ err = [p \in Procs |-> ""]
  /\ wrote = [p \in Procs |-> {}] /\ rivals = [p \in Procs |-> FALSE]
  /\ bound = [p \in Procs |-> "none"] /\ mint = [p \in Procs |-> FALSE]
  /\ starts = 0 /\ crashes = 0 /\ faults = 0

Next ==
  \/ \E p \in Procs :
       \/ Serve(p) \/ LoadConfig(p) \/ Ensure(p) \/ OpenFile(p) \/ CheckMarker(p)
       \/ EnsureLedger(p) \/ loadApplied(p) \/ ExecMigration(p) \/ CommitMigration(p) \/ Migrated(p)
       \/ Tighten(p) \/ Listen(p)
       \/ Fault(p) \/ Crash(p)
  \/ EnsureTestMarker

Spec == Init /\ [][Next]_vars
=============================================================================
