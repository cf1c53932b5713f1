\* Snapshots from the claim loop and the socket; the helper and the state file may
\* fail and the agent crash, a self-update or an installation run beside it.
CONSTANTS
  Profiles = {"off", "task", "all"}
  Callers = {"poll", "socket"}
  Faults = {"helper", "write", "crash"}
  MaxChanges = 2
  MaxFaults = 1
  MaxCommands = 1
  Unreadable = Unreadable
SPECIFICATION FairSpec
INVARIANTS
  AppliedMatchesHost
  DiskIsMemory
PROPERTIES
  HostConverges
