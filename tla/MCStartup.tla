----------------------------- MODULE MCStartup -----------------------------
(* Two processes on one home, and every kind of configuration.             *)
EXTENDS StartupProps

TwoProcs  == {"p1", "p2"}
AllModes  == ModeNames \cup {"missing", "other"}
AllAddrs  == {"missing", "empty", "localhost", "::1", "127.0.0.2", "tailnet", "tailnet2", "public", "name"}
AllPorts  == {"missing", "7040", "above"}
AllAcks   == {"blank", "label"}
HostAddrs == {"127.0.0.1", "::1", "tailnet"}
BothKinds == BOOLEAN
AllMarkers == {"none", "table", "row"}
TwoVersions == {1, 2}
=============================================================================
