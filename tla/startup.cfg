SPECIFICATION Spec
CONSTANTS
  Procs <- TwoProcs
  Modes <- AllModes
  Addrs <- AllAddrs
  Ports <- AllPorts
  Acks <- AllAcks
  Ifaces <- HostAddrs
  TestHome <- BothKinds
  Markers <- AllMarkers
  Versions <- TwoVersions
  MaxStarts = 3
  MaxCrashes = 1
  MaxFaults = 1
INVARIANTS
  MigrationsAreRecoverable
  RefusalLeavesNoTrace
  RemoteIsAcknowledged
CHECK_DEADLOCK FALSE
