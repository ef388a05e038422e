---------------------------- MODULE StartupProps ----------------------------
(***************************************************************************)
(* What a start of the daemon promises: docs/architecture/03 (the store)   *)
(* and 05 (remote access), and the comments of open.go and main.go.        *)
(***************************************************************************)
EXTENDS Startup

\* However processes race and wherever they crash, the database holds the
\* tables of the first so many migrations, the ledger says which, and a
\* start fails to migrate only because another process has done it since the
\* ledger was read: what a crash leaves behind can always be migrated.
MigrationsAreRecoverable ==
  /\ ledger = schema
  /\ schema \in {{}} \cup {1..v : v \in Versions}
  /\ \A p \in Procs : err[p] = "migrate" => rivals[p]
  /\ \A p \in Procs : pc[p] \in {"chmod", "listen", "serving"} => schema = Versions

\* A start that is refused for its configuration has changed nothing on
\* disk, and one that is refused for the marker has changed nothing in the
\* database (main.go: "nothing on disk is touched until the config
\* validates"; open.go: "opening the wrong mode against an existing store
\* leaves the store unmodified").  A store of the other mode is neither
\* migrated nor served, and the files of a daemon that serves are private.
RefusalLeavesNoTrace ==
  \A p \in Procs :
    /\ pc[p] = "failed" /\ err[p] \notin {"marker", "late marker", "migrate", "port", "fault"} =>
         wrote[p] = {}
    /\ pc[p] = "serving" \/ wrote[p] \cap {"ledger", "schema"} # {} => verifyStore
    /\ pc[p] = "serving" => dirs = "tight" /\ file = "tight"
    /\ file = "loose" /\ pc[p] \notin {"idle", "config", "ensure", "failed", "dead"} => dirs = "tight"

\* A listener that is not on 127.0.0.1 or ::1 is on an address of this host's
\* tailnet that the operator has acknowledged, one port is served by one
\* process, and the mint endpoint is mounted in local mode alone, which is
\* not the same as a loopback address (05 sections 2.4 and 4).
RemoteIsAcknowledged ==
  /\ \A p \in Procs :
       /\ bound[p] \notin {"none", "127.0.0.1", "::1"} =>
            /\ Block.mode = "tailscale" /\ bound[p] \in Tailnet \cap Ifaces
       /\ bound[p] # "none" /\ Block.mode # "local" => Block.ack = "label" /\ ~mint[p]
  /\ Cardinality({p \in Procs : bound[p] # "none"}) <= 1
=============================================================================
