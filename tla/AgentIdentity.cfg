\* A fresh or an enrolled host, two commands and one rotation beside them.
CONSTANTS
  Fresh = {TRUE, FALSE}
  Faults = {"write", "crash", "install"}
  MaxTokens = 3
  MaxCommands = 2
  MaxFaults = 2
  Home = Home
  Elsewhere = Elsewhere
  Absent = Absent
  Torn = Torn
SPECIFICATION FairSpec
INVARIANTS
  RestartAccepted
  IdentityKept
  SettingKept
PROPERTIES
  Serves
CHECK_DEADLOCK FALSE
