--------------------------- MODULE Startup_proofs ---------------------------
(***************************************************************************)
(* How the daemon starts, for any number of processes, migrations, starts, *)
(* crashes and faults, and every configuration.                            *)
(*                                                                         *)
(* None of the three invariants is inductive.  Each speaks of what a start *)
(* has come to, and rests on what a process knows on its way: that the     *)
(* configuration it has loaded was valid, that the store it goes on with   *)
(* is of its own mode, and that what it has read of the ledger is still    *)
(* all there is unless it has a rival.                                     *)
(***************************************************************************)
EXTENDS StartupProps, FiniteSetTheorems, TLAPS

Resting  == {"idle", "failed", "dead"}
Way      == {"config", "ensure", "open", "marker", "ledger", "load", "migrate", "record", "chmod",
             "listen", "serving"}
Checked  == {"ledger", "load", "migrate", "record", "chmod", "listen", "serving"}
Reasons  == {"", "parse", "D0", "D1", "D2", "D3", "D4", "D5", "D6 mismatch", "D6 not running", "ok",
             "marker", "late marker", "migrate", "port", "fault"}
Things   == {"dirs", "file", "ledger", "schema"}
BindAddr == {"none"} \cup {parseBindAddr(a) : a \in Addrs \cup {"127.0.0.1"}}
Prefixes == {{}} \cup {1..v : v \in Versions}

Typing ==
  /\ config \in Files /\ test \in BOOLEAN
  /\ pc \in [Procs -> Resting \cup Way] /\ err \in [Procs -> Reasons]
  /\ wrote \in [Procs -> SUBSET Things] /\ rivals \in [Procs -> BOOLEAN]
  /\ applied \in [Procs -> Prefixes] /\ schema \in Prefixes
  /\ bound \in [Procs -> BindAddr] /\ mint \in [Procs -> BOOLEAN]

\* A process on its way has no reason to fail yet, and has loaded a
\* configuration that passed.
OnItsWay(p) ==
  /\ pc[p] \in Way => err[p] = ""
  /\ pc[p] \in Way \ {"config"} => Load = "ok"
  /\ pc[p] = "config" => wrote[p] = {}

\* Its address and its endpoint are those of the configuration.
Bound(p) ==
  /\ bound[p] # "none" => pc[p] = "serving" /\ bound[p] = parseBindAddr(Block.addr)
  /\ mint[p] => Block.mode = "local"

\* What it has made private stays so, and past the marker check the store is
\* of its mode.
Private(p) ==
  /\ pc[p] \in Way \ {"config", "ensure"} => dirs = "tight"
  /\ pc[p] \in {"listen", "serving"} => file = "tight"
  /\ pc[p] \in Checked \/ wrote[p] \cap {"ledger", "schema"} # {} => verifyStore
  /\ pc[p] = "failed" /\ err[p] \notin {"marker", "late marker", "migrate", "port", "fault"} => wrote[p] = {}

\* What it has read of the ledger is part of it, and all of it while it has
\* no rival or is alone to write.
Read(p) ==
  /\ pc[p] \in {"migrate", "record"} => applied[p] \subseteq schema
  /\ pc[p] = "migrate" /\ ~rivals[p] => applied[p] = schema
  /\ pc[p] = "record" => writer = p /\ applied[p] = schema /\ Missing(p) # {}
  /\ pc[p] \in {"chmod", "listen", "serving"} => schema = Versions
  /\ err[p] = "migrate" => rivals[p]

OnePort == \A p, q \in Procs : bound[p] # "none" /\ bound[q] # "none" => p = q

Starts == \A p \in Procs : OnItsWay(p) /\ Bound(p)
Stores == \A p \in Procs : Private(p) /\ Read(p)
IInv   == Typing /\ ledger = schema /\ OnePort /\ Starts /\ Stores

-----------------------------------------------------------------------------
(* The migrations a database may have, and the configurations.             *)

\* The versions are 1 up to their number.
LEMMA VersionsAreNumbers == Cardinality(Versions) \in Nat /\ Versions = 1..Cardinality(Versions)
  BY StartupAssumption, FS_CardinalityType

\* The first so many versions are an interval.
LEMMA PrefixIsInterval ==
  ASSUME NEW s \in Prefixes PROVE \E b \in 0..Cardinality(Versions) : s = 1..b
<1> DEFINE n == Cardinality(Versions)
<1>1. n \in Nat /\ Versions = 1..n
  BY VersionsAreNumbers
<1> HIDE DEF n
<1>2. CASE s = {}
  <2>1. 1..0 = {} /\ 0 \in 0..n
    BY <1>1
  <2> QED BY <1>2, <2>1 DEF n
<1>3. CASE \E v \in Versions : s = 1..v
  <2>1. \A v \in Versions : v \in 0..n
    BY <1>1
  <2> QED BY <1>3, <2>1 DEF n
<1> QED BY <1>2, <1>3 DEF Prefixes

\* The next migration extends a prefix of the versions by one, and one that
\* does not have it is no shorter than the prefix it extends.
LEMMA NextExtends ==
  ASSUME NEW p \in Procs, applied[p] \in Prefixes, Missing(p) # {}
  PROVE  /\ NextVersion(p) \in Versions \ applied[p]
         /\ applied[p] \cup {NextVersion(p)} \in Prefixes
         /\ \A s \in Prefixes : applied[p] \subseteq s /\ NextVersion(p) \notin s => s = applied[p]
<1> DEFINE n == Cardinality(Versions)
<1>1. n \in Nat /\ Versions = 1..n
  BY VersionsAreNumbers
<1> HIDE DEF n
<1>2. PICK a \in 0..n : applied[p] = 1..a
  BY PrefixIsInterval DEF n
<1>3. a < n /\ Missing(p) = (a + 1)..n
  BY <1>1, <1>2 DEF Missing
<1>4. NextVersion(p) = a + 1
  <2>1. a + 1 \in Missing(p) /\ \A w \in Missing(p) : a + 1 <= w
    BY <1>1, <1>2, <1>3
  <2>2. /\ NextVersion(p) \in Missing(p)
        /\ \A w \in Missing(p) : NextVersion(p) <= w
    BY <2>1 DEF NextVersion
  <2>3. NextVersion(p) \in Int /\ a + 1 <= NextVersion(p) /\ NextVersion(p) <= a + 1
    BY <1>1, <1>3, <2>1, <2>2
  <2> QED BY <1>1, <2>3
<1>5. applied[p] \cup {a + 1} = 1..(a + 1) /\ a + 1 \in Versions
  BY <1>1, <1>2, <1>3
<1>6. ASSUME NEW s \in Prefixes, applied[p] \subseteq s, a + 1 \notin s PROVE s = applied[p]
  <2>1. PICK b \in 0..n : s = 1..b
    BY PrefixIsInterval DEF n
  <2>2. a <= b /\ b < a + 1
    BY <1>2, <1>6, <2>1
  <2> QED BY <1>2, <2>1, <2>2
<1> QED BY <1>2, <1>4, <1>5, <1>6 DEF Prefixes

\* They are versions.
LEMMA PrefixIsPart == ASSUME NEW s \in Prefixes PROVE s \subseteq Versions
<1>1. Cardinality(Versions) \in Nat /\ Versions = 1..Cardinality(Versions)
  BY VersionsAreNumbers
<1>2. PICK b \in 0..Cardinality(Versions) : s = 1..b
  BY PrefixIsInterval
<1> QED BY <1>1, <1>2

\* A refusal of the configuration is not one of the migrations.
LEMMA LoadReason == Load \in Reasons /\ Load # "migrate"
  BY DEF Load, validate, checkTailscaleInterface, Reasons

\* The configured address parses to one of those there are.
LEMMA BlockType == ASSUME Typing PROVE parseBindAddr(Block.addr) \in BindAddr
<1>1. Block.addr \in Addrs \cup {"127.0.0.1"}
  BY DEF Typing, Files, Blocks, Block, DefaultBlock
<1> QED BY <1>1 DEF BindAddr

\* What a configuration that passes says of the address it is served on.
LEMMA LoadedBlock ==
  ASSUME Load = "ok"
  PROVE  /\ Block.mode # "local" => Block.ack = "label"
         /\ \/ isLoopback(parseBindAddr(Block.addr))
            \/ Block.mode = "tailscale" /\ parseBindAddr(Block.addr) \in Tailnet \cap Ifaces
<1>1. validate(Block) = "ok"
  BY DEF Load
<1>2. Block.mode # "local" => Block.ack = "label"
  BY <1>1 DEF validate
<1>3. checkModeAddrAllowSet(Block.mode, parseBindAddr(Block.addr))
  BY <1>1 DEF validate
<1>4. CASE Block.mode = "tailscale"
  <2>1. checkTailscaleInterface(Block.addr) = "ok"
    BY <1>1, <1>4 DEF validate
  <2>2. Block.addr \in Ifaces
    BY <2>1 DEF checkTailscaleInterface
  <2>3. parseBindAddr(Block.addr) \in Tailnet
    BY <1>3, <1>4 DEF checkModeAddrAllowSet
  <2>4. parseBindAddr(Block.addr) = Block.addr
    BY <2>3 DEF parseBindAddr, Tailnet
  <2> QED BY <1>2, <1>4, <2>2, <2>3, <2>4
<1>5. CASE Block.mode # "tailscale"
  BY <1>2, <1>3, <1>5 DEF checkModeAddrAllowSet
<1> QED BY <1>4, <1>5

-----------------------------------------------------------------------------

\* The types are kept.
LEMMA TypingStep == ASSUME Typing, ledger = schema, Stores, [Next]_vars PROVE Typing'
<1>1. ASSUME NEW p \in Procs, Serve(p) PROVE Typing'
  BY <1>1 DEF Serve, To, Quit, Wrote, Release, Typing, Resting, Way, Reasons, Things, BindAddr,
         confVars, diskVars, Prefixes
<1>2. ASSUME NEW p \in Procs, LoadConfig(p) PROVE Typing'
  <2>1. CASE Load = "ok"
    <3>1. pc' = [pc EXCEPT ![p] = "ensure"] /\ UNCHANGED <<config, test, err, wrote, rivals, applied, schema, bound, mint>>
      BY <1>2, <2>1, LoadReason DEF LoadConfig, To, Quit, Wrote, confVars, diskVars, IsLocal
    <3> QED BY <3>1, LoadReason DEF Typing, Resting, Way, Reasons, Things, BindAddr
  <2>2. CASE Load # "ok"
    <3>1. pc' = [pc EXCEPT ![p] = "failed"] /\ err' = [err EXCEPT ![p] = Load] /\ UNCHANGED <<config, test, wrote, rivals, applied, schema, bound, mint>>
      BY <1>2, <2>2, LoadReason DEF LoadConfig, To, Quit, Wrote, confVars, diskVars, IsLocal
    <3> QED BY <3>1, LoadReason DEF Typing, Resting, Way, Reasons, Things, BindAddr
  <2> QED BY <1>2, <2>1, <2>2 DEF LoadConfig
<1>3. ASSUME NEW p \in Procs, Ensure(p) PROVE Typing'
  BY <1>3 DEF Ensure, To, Quit, Wrote, Release, Typing, Resting, Way, Reasons, Things, BindAddr,
         confVars, diskVars
<1>4. ASSUME NEW p \in Procs, OpenFile(p) PROVE Typing'
  <2>1. CASE file = "none"
    <3>1. pc' = [pc EXCEPT ![p] = "marker"] /\ wrote' = [wrote EXCEPT ![p] = @ \cup {"file"}] /\ UNCHANGED <<config, test, err, rivals, applied, schema, bound, mint>>
      BY <1>4, <2>1 DEF OpenFile, To, Quit, Wrote, confVars, diskVars, IsLocal
    <3> QED BY <3>1 DEF Typing, Resting, Way, Reasons, Things, BindAddr
  <2>2. CASE file # "none"
    <3>1. pc' = [pc EXCEPT ![p] = "marker"] /\ UNCHANGED <<config, test, err, wrote, rivals, applied, schema, bound, mint>>
      BY <1>4, <2>2 DEF OpenFile, To, Quit, Wrote, confVars, diskVars, IsLocal
    <3> QED BY <3>1 DEF Typing, Resting, Way, Reasons, Things, BindAddr
  <2> QED BY <1>4, <2>1, <2>2 DEF OpenFile
<1>5. ASSUME NEW p \in Procs, CheckMarker(p) PROVE Typing'
  BY <1>5 DEF CheckMarker, To, Quit, Wrote, Release, Typing, Resting, Way, Reasons, Things, BindAddr,
         confVars, diskVars
<1>6. ASSUME NEW p \in Procs, EnsureLedger(p) PROVE Typing'
  <2>1. CASE ~hasLedger
    <3>1. pc' = [pc EXCEPT ![p] = "load"] /\ wrote' = [wrote EXCEPT ![p] = @ \cup {"ledger"}] /\ UNCHANGED <<config, test, err, rivals, applied, schema, bound, mint>>
      BY <1>6, <2>1 DEF EnsureLedger, To, Quit, Wrote, confVars, diskVars, IsLocal
    <3> QED BY <3>1 DEF Typing, Resting, Way, Reasons, Things, BindAddr
  <2>2. CASE hasLedger
    <3>1. pc' = [pc EXCEPT ![p] = "load"] /\ UNCHANGED <<config, test, err, wrote, rivals, applied, schema, bound, mint>>
      BY <1>6, <2>2 DEF EnsureLedger, To, Quit, Wrote, confVars, diskVars, IsLocal
    <3> QED BY <3>1 DEF Typing, Resting, Way, Reasons, Things, BindAddr
  <2> QED BY <1>6, <2>1, <2>2 DEF EnsureLedger
<1>7. ASSUME NEW p \in Procs, loadApplied(p) PROVE Typing'
  BY <1>7 DEF loadApplied, To, Typing, Resting, Way, Stores, Read, confVars, diskVars
<1>8. ASSUME NEW p \in Procs, ExecMigration(p) PROVE Typing'
  BY <1>8 DEF ExecMigration, To, Quit, Wrote, Release, Typing, Resting, Way, Reasons, Things, BindAddr,
         confVars, diskVars
<1>9. ASSUME NEW p \in Procs, CommitMigration(p) PROVE Typing'
  <2> DEFINE v == NextVersion(p)
  <2>1. applied[p] \cup {v} \in Prefixes /\ schema = applied[p]
    BY <1>9, NextExtends DEF CommitMigration, Typing, Stores, Read
  <2>2. /\ schema' = schema \cup {v} /\ applied' = [applied EXCEPT ![p] = @ \cup {v}]
        /\ pc' = [pc EXCEPT ![p] = "migrate"] /\ wrote' = [wrote EXCEPT ![p] = @ \cup {"schema"}]
        /\ rivals' = [q \in Procs |-> rivals[q] \/ (q # p /\ pc[q] \in {"migrate", "record"})]
        /\ UNCHANGED <<config, test, err, bound, mint>>
    BY <1>9 DEF CommitMigration, confVars, To, Wrote, Overtake
  <2> HIDE DEF v
  <2> QED BY <2>1, <2>2 DEF Typing, Resting, Way, Things
<1>10. ASSUME NEW p \in Procs, Migrated(p) PROVE Typing'
  BY <1>10 DEF Migrated, To, Quit, Wrote, Release, Typing, Resting, Way, Reasons, Things, BindAddr,
         confVars, diskVars
<1>11. ASSUME NEW p \in Procs, Tighten(p) PROVE Typing'
  BY <1>11 DEF Tighten, To, Quit, Wrote, Release, Typing, Resting, Way, Reasons, Things, BindAddr,
         confVars, diskVars
<1>12. ASSUME NEW p \in Procs, Listen(p) PROVE Typing'
  <2>1. CASE \A q \in Procs : bound[q] = "none"
    <3>1. pc' = [pc EXCEPT ![p] = "serving"] /\ bound' = [bound EXCEPT ![p] = parseBindAddr(Block.addr)] /\ mint' = [mint EXCEPT ![p] = Block.mode = "local"] /\ UNCHANGED <<config, test, err, wrote, rivals, applied, schema>>
      BY <1>12, <2>1, BlockType DEF Listen, To, Quit, Wrote, confVars, diskVars, IsLocal
    <3> QED BY <3>1, BlockType DEF Typing, Resting, Way, Reasons, Things, BindAddr
  <2>2. CASE \E q \in Procs : bound[q] # "none"
    <3>1. pc' = [pc EXCEPT ![p] = "failed"] /\ err' = [err EXCEPT ![p] = "port"] /\ UNCHANGED <<config, test, wrote, rivals, applied, schema, bound, mint>>
      BY <1>12, <2>2, BlockType DEF Listen, To, Quit, Wrote, confVars, diskVars, IsLocal
    <3> QED BY <3>1, BlockType DEF Typing, Resting, Way, Reasons, Things, BindAddr
  <2> QED BY <1>12, <2>1, <2>2 DEF Listen
<1>13. ASSUME NEW p \in Procs, Fault(p) PROVE Typing'
  BY <1>13 DEF Fault, To, Quit, Wrote, Release, Typing, Resting, Way, Reasons, Things, BindAddr,
         confVars, diskVars
<1>14. ASSUME NEW p \in Procs, Crash(p) PROVE Typing'
  BY <1>14 DEF Crash, To, Quit, Wrote, Release, Typing, Resting, Way, Reasons, Things, BindAddr,
         confVars, diskVars
<1>15. ASSUME EnsureTestMarker PROVE Typing'
  BY <1>15 DEF EnsureTestMarker, Typing, confVars, procVars
<1>16. ASSUME UNCHANGED vars PROVE Typing'
  BY <1>16 DEF vars, Typing, confVars, diskVars, procVars
<1> QED
  BY <1>1, <1>2, <1>3, <1>4, <1>5, <1>6, <1>7, <1>8, <1>9, <1>10, <1>11, <1>12, <1>13, <1>14, <1>15, <1>16
  DEF Next

-----------------------------------------------------------------------------
(* What a step leaves alone.                                               *)

Step(p) ==
  \/ Serve(p) \/ LoadConfig(p) \/ Ensure(p) \/ OpenFile(p) \/ CheckMarker(p)
  \/ EnsureLedger(p) \/ loadApplied(p) \/ ExecMigration(p) \/ CommitMigration(p) \/ Migrated(p)
  \/ Tighten(p) \/ Listen(p) \/ Fault(p) \/ Crash(p)

\* The configuration does not change, and a verified store stays so.
LEMMA SameConfig ==
  ASSUME Typing, [Next]_vars
  PROVE  Load' = Load /\ Block' = Block /\ (verifyStore => verifyStore')
<1>1. ASSUME NEW p \in Procs, Step(p) PROVE UNCHANGED <<config, test, marker>>
  BY <1>1 DEF Step, Serve, LoadConfig, Ensure, OpenFile, CheckMarker, EnsureLedger, loadApplied,
              ExecMigration, CommitMigration, Migrated, Tighten, Listen, Fault, Crash,
              confVars, diskVars
<1>2. UNCHANGED <<config, test>> /\ (UNCHANGED marker \/ (test /\ marker' = "row"))
  BY <1>1 DEF Next, Step, vars, confVars, diskVars, EnsureTestMarker
<1> QED BY <1>2 DEF Load, Block, verifyStore

\* A process does not touch what another one has come to, but for telling it
\* that it has a rival.
LEMMA OthersStay ==
  ASSUME Typing, NEW p \in Procs, Step(p), NEW q \in Procs, q # p
  PROVE  /\ pc'[q] = pc[q] /\ err'[q] = err[q] /\ wrote'[q] = wrote[q]
         /\ applied'[q] = applied[q] /\ bound'[q] = bound[q] /\ mint'[q] = mint[q]
         /\ rivals[q] => rivals'[q]
<1> DEFINE Stay == /\ pc'[q] = pc[q] /\ err'[q] = err[q] /\ wrote'[q] = wrote[q]
                   /\ applied'[q] = applied[q] /\ bound'[q] = bound[q] /\ mint'[q] = mint[q]
                   /\ rivals[q] => rivals'[q]
<1>1. CASE Serve(p)
  BY <1>1 DEF Serve, To, Typing
<1>2. CASE LoadConfig(p)
  BY <1>2 DEF LoadConfig, To, Quit, Typing
<1>3. CASE Ensure(p)
  BY <1>3 DEF Ensure, To, Wrote, Typing
<1>4. CASE OpenFile(p)
  BY <1>4 DEF OpenFile, To, Wrote, Typing
<1>5. CASE CheckMarker(p)
  BY <1>5 DEF CheckMarker, To, Quit, Typing
<1>6. CASE EnsureLedger(p)
  BY <1>6 DEF EnsureLedger, To, Wrote, Typing
<1>7. CASE loadApplied(p)
  BY <1>7 DEF loadApplied, To, Typing
<1>8. CASE ExecMigration(p)
  BY <1>8 DEF ExecMigration, To, Quit, Typing
<1>9. CASE CommitMigration(p)
  BY <1>9 DEF CommitMigration, To, Wrote, Overtake, Typing
<1>10. CASE Migrated(p)
  BY <1>10 DEF Migrated, To, Quit, Typing
<1>11. CASE Tighten(p)
  BY <1>11 DEF Tighten, To, Typing
<1>12. CASE Listen(p)
  BY <1>12 DEF Listen, To, Quit, IsLocal, Typing
<1>13. CASE Fault(p)
  BY <1>13 DEF Fault, Quit, To, Release, Typing
<1>14. CASE Crash(p)
  BY <1>14 DEF Crash, To, Release, Typing
<1> QED BY <1>1, <1>2, <1>3, <1>4, <1>5, <1>6, <1>7, <1>8, <1>9, <1>10, <1>11, <1>12, <1>13, <1>14 DEF Step

-----------------------------------------------------------------------------
(* Starts: what a process has loaded and where it listens.                 *)

\* A step of a process keeps what it knows of its own start.
LEMMA OwnStart ==
  ASSUME IInv, NEW p \in Procs, Step(p), Load' = Load, Block' = Block
  PROVE  OnItsWay(p)' /\ Bound(p)'
<1>1. OnItsWay(p) /\ Bound(p) /\ Typing /\ parseBindAddr(Block.addr)' = parseBindAddr(Block.addr)
  BY DEF IInv, Starts
<1>2. CASE Serve(p)
  BY <1>2, <1>1 DEF Serve, To, Typing, OnItsWay, Bound, Way, Resting
<1>3. CASE LoadConfig(p)
  BY <1>3, <1>1 DEF LoadConfig, To, Quit, Typing, OnItsWay, Bound, Way, Resting
<1>4. CASE Ensure(p)
  BY <1>4, <1>1 DEF Ensure, To, Wrote, Typing, OnItsWay, Bound, Way, Resting
<1>5. CASE OpenFile(p)
  BY <1>5, <1>1 DEF OpenFile, To, Wrote, Typing, OnItsWay, Bound, Way, Resting
<1>6. CASE CheckMarker(p)
  BY <1>6, <1>1 DEF CheckMarker, To, Quit, Typing, OnItsWay, Bound, Way, Resting
<1>7. CASE EnsureLedger(p)
  BY <1>7, <1>1 DEF EnsureLedger, To, Wrote, Typing, OnItsWay, Bound, Way, Resting
<1>8. CASE loadApplied(p)
  BY <1>8, <1>1 DEF loadApplied, To, Typing, OnItsWay, Bound, Way, Resting
<1>9. CASE ExecMigration(p)
  BY <1>9, <1>1 DEF ExecMigration, To, Quit, Typing, OnItsWay, Bound, Way, Resting
<1>10. CASE CommitMigration(p)
  BY <1>10, <1>1 DEF CommitMigration, To, Wrote, Typing, OnItsWay, Bound, Way, Resting
<1>11. CASE Migrated(p)
  BY <1>11, <1>1 DEF Migrated, To, Quit, Typing, OnItsWay, Bound, Way, Resting
<1>12. CASE Tighten(p)
  BY <1>12, <1>1 DEF Tighten, To, Typing, OnItsWay, Bound, Way, Resting
<1>13. CASE Listen(p)
  BY <1>13, <1>1 DEF Listen, To, Quit, IsLocal, Typing, OnItsWay, Bound, Way, Resting
<1>14. CASE Fault(p)
  BY <1>14, <1>1 DEF Fault, Quit, To, Release, Typing, OnItsWay, Bound, Way, Resting
<1>15. CASE Crash(p)
  BY <1>15, <1>1 DEF Crash, To, Release, Typing, OnItsWay, Bound, Way, Resting
<1> QED BY <1>2, <1>3, <1>4, <1>5, <1>6, <1>7, <1>8, <1>9, <1>10, <1>11, <1>12, <1>13, <1>14, <1>15 DEF Step

\* And what every process knows.
LEMMA StartsStep == ASSUME IInv, [Next]_vars PROVE Starts'
<1>1. Load' = Load /\ Block' = Block
  BY SameConfig DEF IInv
<1>2. ASSUME NEW p \in Procs, Step(p) PROVE Starts'
  <2> SUFFICES ASSUME NEW q \in Procs PROVE OnItsWay(q)' /\ Bound(q)'
    BY DEF Starts
  <2>1. CASE q = p
    BY <1>1, <1>2, <2>1, OwnStart
  <2>2. CASE q # p
    <3>1. /\ pc'[q] = pc[q] /\ err'[q] = err[q] /\ wrote'[q] = wrote[q]
          /\ bound'[q] = bound[q] /\ mint'[q] = mint[q]
      BY <1>2, <2>2, OthersStay DEF IInv
    <3>2. OnItsWay(q) /\ Bound(q)
      BY DEF IInv, Starts
    <3> QED BY <1>1, <3>1, <3>2 DEF OnItsWay, Bound
  <2> QED BY <2>1, <2>2
<1>3. ASSUME UNCHANGED procVars PROVE Starts'
  BY <1>1, <1>3 DEF procVars, IInv, Starts, OnItsWay, Bound
<1> QED BY <1>2, <1>3 DEF Next, Step, vars, EnsureTestMarker

\* The port is one process's.
LEMMA PortStep == ASSUME IInv, [Next]_vars PROVE OnePort'
<1>1. ASSUME NEW p \in Procs, Step(p) PROVE OnePort'
  <2>1. \A q \in Procs \ {p} : bound'[q] = bound[q]
    BY <1>1, OthersStay DEF IInv
  <2>2. CASE Listen(p)
    <3>1. \/ \A q \in Procs : bound[q] = "none"
          \/ UNCHANGED bound
      BY <2>2 DEF Listen
    <3> QED BY <2>1, <3>1 DEF OnePort, IInv
  <2>3. CASE ~Listen(p)
    <3>1. bound'[p] \in {bound[p], "none"}
      BY <1>1, <2>3 DEF Step, Serve, LoadConfig, Ensure, OpenFile, CheckMarker, EnsureLedger, loadApplied,
         ExecMigration, CommitMigration, Migrated, Tighten, Fault, Crash, Release, IInv, Typing
    <3> QED BY <2>1, <3>1 DEF OnePort, IInv
  <2> QED BY <2>2, <2>3
<1>2. ASSUME UNCHANGED procVars PROVE OnePort'
  BY <1>2 DEF procVars, IInv, OnePort
<1> QED BY <1>1, <1>2 DEF Next, Step, vars, EnsureTestMarker

-----------------------------------------------------------------------------
(* Stores: what a process knows of the disk.                               *)

\* Nothing on disk is made less private, and no migration is lost.
LEMMA DiskGrows ==
  ASSUME IInv, NEW p \in Procs, Step(p)
  PROVE  /\ dirs = "tight" => dirs' = "tight"
         /\ file = "tight" => file' = "tight"
         /\ schema \subseteq schema' /\ ledger' = schema'
         /\ schema' # schema => CommitMigration(p)
<1>1. ledger = schema
  BY DEF IInv
<1>2. CASE Serve(p)
  BY <1>2, <1>1 DEF Serve, To, diskVars
<1>3. CASE LoadConfig(p)
  BY <1>3, <1>1 DEF LoadConfig, To, Quit, diskVars
<1>4. CASE Ensure(p)
  BY <1>4, <1>1 DEF Ensure, To, Wrote, diskVars
<1>5. CASE OpenFile(p)
  BY <1>5, <1>1 DEF OpenFile, To, Wrote, diskVars
<1>6. CASE CheckMarker(p)
  BY <1>6, <1>1 DEF CheckMarker, To, Quit, diskVars
<1>7. CASE EnsureLedger(p)
  BY <1>7, <1>1 DEF EnsureLedger, To, Wrote, diskVars
<1>8. CASE loadApplied(p)
  BY <1>8, <1>1 DEF loadApplied, To, diskVars
<1>9. CASE ExecMigration(p)
  BY <1>9, <1>1 DEF ExecMigration, To, Quit, diskVars
<1>10. CASE CommitMigration(p)
  BY <1>10, <1>1 DEF CommitMigration, To, Wrote, diskVars
<1>11. CASE Migrated(p)
  BY <1>11, <1>1 DEF Migrated, To, Quit, diskVars
<1>12. CASE Tighten(p)
  BY <1>12, <1>1 DEF Tighten, To, diskVars
<1>13. CASE Listen(p)
  BY <1>13, <1>1 DEF Listen, To, Quit, IsLocal, diskVars
<1>14. CASE Fault(p)
  BY <1>14, <1>1 DEF Fault, Quit, To, Release, diskVars
<1>15. CASE Crash(p)
  BY <1>15, <1>1 DEF Crash, To, Release, diskVars
<1> QED BY <1>2, <1>3, <1>4, <1>5, <1>6, <1>7, <1>8, <1>9, <1>10, <1>11, <1>12, <1>13, <1>14, <1>15 DEF Step

\* A migration is recorded by the process that holds the lock.
LEMMA Writer ==
  ASSUME IInv, NEW p \in Procs, Step(p), NEW q \in Procs, q # p, pc[q] = "record"
  PROVE  writer' = q /\ ~CommitMigration(p)
<1>1. Read(p) /\ Read(q)
  BY DEF IInv, Stores
<1>2. writer = q /\ q # "none"
  BY <1>1, StartupAssumption DEF Read
<1>3. pc[p] # "record"
  BY <1>1, <1>2 DEF Read
<1>4. ~CommitMigration(p)
  BY <1>3 DEF CommitMigration
<1>5. ~ExecMigration(p)
  BY <1>2 DEF ExecMigration
<1>6. CASE Fault(p) \/ Crash(p)
  BY <1>2, <1>4, <1>6 DEF Fault, Crash, Release
<1>7. CASE ~(Fault(p) \/ Crash(p))
  BY <1>2, <1>4, <1>5, <1>7 DEF Step, Serve, LoadConfig, Ensure, OpenFile, CheckMarker, EnsureLedger,
                                loadApplied, Migrated, Tighten, Listen, diskVars
<1> QED BY <1>4, <1>6, <1>7

\* A step of one process leaves what another has read and made private.
LEMMA OthersStore ==
  ASSUME IInv, NEW p \in Procs, Step(p), NEW q \in Procs, q # p, verifyStore => verifyStore', Typing'
  PROVE  Private(q)' /\ Read(q)'
<1>1. /\ pc'[q] = pc[q] /\ err'[q] = err[q] /\ wrote'[q] = wrote[q] /\ applied'[q] = applied[q]
      /\ rivals[q] => rivals'[q]
  BY OthersStay DEF IInv
<1>2. /\ dirs = "tight" => dirs' = "tight"
      /\ file = "tight" => file' = "tight"
      /\ schema \subseteq schema'
      /\ schema' # schema => CommitMigration(p)
  BY DiskGrows
<1>3. Private(q) /\ Read(q)
  BY DEF IInv, Stores
<1>4. Private(q)'
  BY <1>1, <1>2, <1>3 DEF Private
<1>5. pc[q] = "migrate" /\ ~rivals'[q] => schema' = schema
  <2>1. CASE CommitMigration(p)
    BY <2>1 DEF CommitMigration, Overtake
  <2> QED BY <1>2, <2>1
<1>6. pc[q] = "record" => schema' = schema /\ writer' = q
  BY <1>2, Writer
<1>7. schema = Versions => schema' = Versions
  BY <1>2, PrefixIsPart DEF Typing
<1>8. Missing(q)' = Missing(q)
  BY <1>1 DEF Missing
<1> QED BY <1>1, <1>2, <1>3, <1>4, <1>5, <1>6, <1>7, <1>8 DEF Read

\* What a process has made private is.
LEMMA OwnPrivate ==
  ASSUME IInv, NEW p \in Procs, Step(p), verifyStore => verifyStore'
  PROVE  Private(p)'
<1>1. Private(p) /\ OnItsWay(p) /\ Typing
  BY DEF IInv, Stores, Starts
<1>2. CASE Serve(p)
  BY <1>2, <1>1 DEF Serve, To, Typing, Private, OnItsWay, Way, Resting, Checked, diskVars, confVars
<1>3. CASE LoadConfig(p)
  BY <1>3, <1>1 DEF LoadConfig, To, Quit, Typing, Private, OnItsWay, Way, Resting, Checked, diskVars, confVars
<1>4. CASE Ensure(p)
  BY <1>4, <1>1 DEF Ensure, To, Wrote, Typing, Private, OnItsWay, Way, Resting, Checked, diskVars, confVars
<1>5. CASE OpenFile(p)
  BY <1>5, <1>1 DEF OpenFile, To, Wrote, Typing, Private, OnItsWay, Way, Resting, Checked, diskVars, confVars
<1>6. CASE CheckMarker(p)
  BY <1>6, <1>1 DEF CheckMarker, To, Quit, Typing, Private, OnItsWay, Way, Resting, Checked, diskVars, confVars
<1>7. CASE EnsureLedger(p)
  BY <1>7, <1>1 DEF EnsureLedger, To, Wrote, Typing, Private, OnItsWay, Way, Resting, Checked, diskVars, confVars
<1>8. CASE loadApplied(p)
  BY <1>8, <1>1 DEF loadApplied, To, Typing, Private, OnItsWay, Way, Resting, Checked, diskVars, confVars
<1>9. CASE ExecMigration(p)
  BY <1>9, <1>1 DEF ExecMigration, To, Quit, Typing, Private, OnItsWay, Way, Resting, Checked, diskVars, confVars
<1>10. CASE CommitMigration(p)
  BY <1>10, <1>1 DEF CommitMigration, To, Wrote, Typing, Private, OnItsWay, Way, Resting, Checked, diskVars, confVars
<1>11. CASE Migrated(p)
  BY <1>11, <1>1 DEF Migrated, To, Quit, Typing, Private, OnItsWay, Way, Resting, Checked, diskVars, confVars
<1>12. CASE Tighten(p)
  BY <1>12, <1>1 DEF Tighten, To, Typing, Private, OnItsWay, Way, Resting, Checked, diskVars, confVars
<1>13. CASE Listen(p)
  BY <1>13, <1>1 DEF Listen, To, Quit, IsLocal, Typing, Private, OnItsWay, Way, Resting, Checked, diskVars, confVars
<1>14. CASE Fault(p)
  BY <1>14, <1>1 DEF Fault, Quit, To, Release, Typing, Private, OnItsWay, Way, Resting, Checked, diskVars, confVars
<1>15. CASE Crash(p)
  BY <1>15, <1>1 DEF Crash, To, Release, Typing, Private, OnItsWay, Way, Resting, Checked, diskVars, confVars
<1> QED BY <1>2, <1>3, <1>4, <1>5, <1>6, <1>7, <1>8, <1>9, <1>10, <1>11, <1>12, <1>13, <1>14, <1>15 DEF Step

\* What a process has read of the ledger is part of it.
LEMMA OwnRead ==
  ASSUME IInv, NEW p \in Procs, Step(p)
  PROVE  Read(p)'
<1>1. Read(p) /\ OnItsWay(p) /\ Typing /\ ledger = schema
  BY DEF IInv, Stores, Starts
<1>2. CASE Serve(p)
  BY <1>2, <1>1 DEF Serve, To, Typing, Read, OnItsWay, Way, Resting, diskVars
<1>3. CASE LoadConfig(p)
  <2>1. err[p] = ""
    BY <1>1, <1>3 DEF LoadConfig, OnItsWay, Way
  <2>2. pc'[p] \in {"ensure", "failed"}
    BY <1>1, <1>3 DEF LoadConfig, Quit, To, Typing
  <2>3. err'[p] \in {err[p], Load}
    BY <1>1, <1>3 DEF LoadConfig, Quit, To, Typing
  <2> QED BY <2>1, <2>2, <2>3, LoadReason DEF Read
<1>4. CASE Ensure(p)
  BY <1>4, <1>1 DEF Ensure, To, Wrote, Typing, Read, OnItsWay, Way, Resting, diskVars
<1>5. CASE OpenFile(p)
  BY <1>5, <1>1 DEF OpenFile, To, Wrote, Typing, Read, OnItsWay, Way, Resting, diskVars
<1>6. CASE CheckMarker(p)
  BY <1>6, <1>1 DEF CheckMarker, To, Quit, Typing, Read, OnItsWay, Way, Resting, diskVars
<1>7. CASE EnsureLedger(p)
  BY <1>7, <1>1 DEF EnsureLedger, To, Wrote, Typing, Read, OnItsWay, Way, Resting, diskVars
<1>8. CASE loadApplied(p)
  BY <1>8, <1>1 DEF loadApplied, To, Typing, Read, OnItsWay, Way, Resting, diskVars
<1>9. CASE ExecMigration(p)
  <2>1. CASE NextVersion(p) \in schema
    <3>1. pc'[p] = "failed" /\ err'[p] = "migrate" /\ UNCHANGED <<applied, rivals>>
      BY <1>9, <1>1, <2>1 DEF ExecMigration, Quit, To, Typing
    <3>2. NextVersion(p) \in Versions \ applied[p]
      BY <1>9, <1>1, NextExtends DEF ExecMigration, Typing
    <3>3. rivals[p]
      BY <1>9, <1>1, <2>1, <3>2 DEF ExecMigration, Read
    <3> QED BY <3>1, <3>3 DEF Read
  <2>2. CASE NextVersion(p) \notin schema
    <3>1. /\ pc'[p] = "record" /\ writer' = p /\ pc[p] = "migrate" /\ Missing(p) # {}
          /\ UNCHANGED <<applied, rivals, err, schema>>
      BY <1>9, <1>1, <2>2 DEF ExecMigration, To, Typing
    <3>2. schema = applied[p]
      BY <1>1, <2>2, <3>1, NextExtends DEF Typing, Read
    <3>3. Missing(p)' = Missing(p)
      BY <3>1 DEF Missing
    <3> QED BY <1>1, <3>1, <3>2, <3>3 DEF Read, OnItsWay, Way
  <2> QED BY <2>1, <2>2
<1>10. CASE CommitMigration(p)
  <2> DEFINE v == NextVersion(p)
  <2>1. schema = applied[p]
    BY <1>10, <1>1 DEF CommitMigration, Read
  <2>2. /\ pc'[p] = "migrate" /\ err'[p] = err[p] /\ pc[p] = "record"
        /\ schema' = schema \cup {v} /\ applied'[p] = applied[p] \cup {v}
    BY <1>10, <1>1 DEF CommitMigration, To, Typing
  <2> HIDE DEF v
  <2> QED BY <1>1, <2>1, <2>2 DEF Read, OnItsWay, Way
<1>11. CASE Migrated(p)
  <2>1. applied[p] \subseteq schema /\ Missing(p) = {} /\ UNCHANGED <<schema, applied, rivals>>
    BY <1>11, <1>1 DEF Migrated, Read, diskVars
  <2>2. schema = Versions
    <3>1. schema \subseteq Versions
      BY <1>1, PrefixIsPart DEF Typing
    <3>2. Versions \subseteq applied[p]
      BY <2>1 DEF Missing
    <3> QED BY <2>1, <3>1, <3>2
  <2>3. \/ pc'[p] = "chmod" /\ err'[p] = ""
        \/ pc'[p] = "failed" /\ err'[p] = "late marker"
    BY <1>11, <1>1 DEF Migrated, Quit, To, Typing, OnItsWay, Way
  <2> QED BY <2>1, <2>2, <2>3 DEF Read
<1>12. CASE Tighten(p)
  BY <1>12, <1>1 DEF Tighten, To, Typing, Read, OnItsWay, Way, Resting, diskVars
<1>13. CASE Listen(p)
  BY <1>13, <1>1 DEF Listen, To, Quit, IsLocal, Typing, Read, OnItsWay, Way, Resting, diskVars
<1>14. CASE Fault(p)
  BY <1>14, <1>1 DEF Fault, Quit, To, Release, Typing, Read, OnItsWay, Way, Resting, diskVars
<1>15. CASE Crash(p)
  BY <1>15, <1>1 DEF Crash, To, Release, Typing, Read, OnItsWay, Way, Resting, diskVars
<1> QED BY <1>2, <1>3, <1>4, <1>5, <1>6, <1>7, <1>8, <1>9, <1>10, <1>11, <1>12, <1>13, <1>14, <1>15 DEF Step

\* Tables and ledger change together, by the next version.
LEMMA StoresStep == ASSUME IInv, [Next]_vars, Typing' PROVE Stores' /\ ledger' = schema'
<1>1. verifyStore => verifyStore'
  BY SameConfig DEF IInv
<1>2. ASSUME NEW p \in Procs, Step(p) PROVE Stores' /\ ledger' = schema'
  <2>1. \A q \in Procs \ {p} : Private(q)' /\ Read(q)'
    BY <1>1, <1>2, OthersStore
  <2>2. Private(p)' /\ Read(p)'
    BY <1>1, <1>2, OwnPrivate, OwnRead
  <2> QED BY <1>2, <2>1, <2>2, DiskGrows DEF Stores
<1>3. ASSUME UNCHANGED <<dirs, file, ledger, schema, writer, procVars>> PROVE Stores' /\ ledger' = schema'
  BY <1>1, <1>3 DEF procVars, IInv, Stores, Private, Read, Missing
<1> QED BY <1>2, <1>3 DEF Next, Step, vars, diskVars, EnsureTestMarker

-----------------------------------------------------------------------------
\* The invariant holds before anything has started.
LEMMA InitHolds == ASSUME Init PROVE IInv
<1>1. Typing
  BY StartupAssumption DEF Init, Typing, Resting, Way, Reasons, Things, BindAddr, Prefixes
<1>2. OnePort /\ Starts /\ Stores
  BY DEF Init, OnePort, Starts, Stores, OnItsWay, Bound, Private, Read, Way, Checked
<1> QED BY <1>1, <1>2 DEF Init, IInv

\* What each process knows on its way holds in every reachable state, for
\* any number of processes, migrations, crashes and faults (main.go runServe,
\* store/open.go, store/migrate.go).
THEOREM StartupInductive == Spec => []IInv
<1>1. IInv /\ [Next]_vars => IInv'
  BY TypingStep, StartsStep, PortStep, StoresStep DEF IInv
<1> QED BY InitHolds, <1>1, PTL DEF Spec

\* Wherever processes race and crash, the ledger tells which tables there
\* are, these are those of the first so many migrations, and a migration
\* fails for nothing but a rival (store/migrate.go ApplyMigrations).
THEOREM MigrationsRecover == Spec => []MigrationsAreRecoverable
<1>1. IInv => MigrationsAreRecoverable
  BY DEF IInv, Typing, Prefixes, Stores, Read, MigrationsAreRecoverable
<1> QED BY <1>1, StartupInductive, PTL

\* A start that is refused for its configuration has changed nothing, one
\* that is refused for the marker nothing in the database, and a daemon
\* serves a private store of its mode (main.go, store/open.go).
THEOREM RefusalsAreClean == Spec => []RefusalLeavesNoTrace
<1>1. IInv => RefusalLeavesNoTrace
  <2> SUFFICES ASSUME IInv, NEW p \in Procs
      PROVE /\ pc[p] = "failed" /\ err[p] \notin {"marker", "late marker", "migrate", "port", "fault"} =>
                 wrote[p] = {}
            /\ pc[p] = "serving" \/ wrote[p] \cap {"ledger", "schema"} # {} => verifyStore
            /\ pc[p] = "serving" => dirs = "tight" /\ file = "tight"
            /\ file = "loose" /\ pc[p] \notin {"idle", "config", "ensure", "failed", "dead"} => dirs = "tight"
    BY DEF RefusalLeavesNoTrace
  <2>1. Private(p) /\ pc[p] \in Resting \cup Way
    BY DEF IInv, Stores, Typing
  <2> QED BY <2>1 DEF Private, Resting, Way, Checked
<1> QED BY <1>1, StartupInductive, PTL

\* Whatever the configuration says, the daemon listens off loopback only on
\* an acknowledged address of its tailnet, mounts the mint endpoint in local
\* mode alone, and one process has the port (remoteaccess.go, main.go).
THEOREM RemoteNeedsConsent == Spec => []RemoteIsAcknowledged
<1>1. IInv => RemoteIsAcknowledged
  <2> SUFFICES ASSUME IInv PROVE RemoteIsAcknowledged
    OBVIOUS
  <2>1. ASSUME NEW p \in Procs
        PROVE  /\ bound[p] \notin {"none", "127.0.0.1", "::1"} =>
                    /\ Block.mode = "tailscale" /\ bound[p] \in Tailnet \cap Ifaces
               /\ bound[p] # "none" /\ Block.mode # "local" => Block.ack = "label" /\ ~mint[p]
    <3>1. OnItsWay(p) /\ Bound(p)
      BY DEF IInv, Starts
    <3>2. bound[p] # "none" => Load = "ok" /\ bound[p] = parseBindAddr(Block.addr)
      BY <3>1 DEF OnItsWay, Bound, Way
    <3> QED BY <3>1, <3>2, LoadedBlock DEF Bound, isLoopback, Loopback
  <2>2. Cardinality({p \in Procs : bound[p] # "none"}) <= 1
    <3> DEFINE B == {p \in Procs : bound[p] # "none"}
    <3>1. CASE B = {}
      BY <3>1, FS_EmptySet
    <3>2. CASE B # {}
      <4>1. PICK p \in B : TRUE
        BY <3>2
      <4>2. B = {p}
        BY <4>1 DEF IInv, OnePort
      <4> QED BY <4>2, FS_Singleton
    <3> QED BY <3>1, <3>2
  <2> QED BY <2>1, <2>2 DEF RemoteIsAcknowledged
<1> QED BY <1>1, StartupInductive, PTL
=============================================================================
