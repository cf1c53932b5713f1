\* Two rotations; two faults, an update and a refresh at any time.
CONSTANTS
  MaxRotations = 2
  MaxUpdates = 1
  MaxRefreshes = 1
  MaxFaults = 2
SPECIFICATION FairSpec
\* Run returns.
CHECK_DEADLOCK FALSE
INVARIANTS
  IdentityAccepted
  ServingAcknowledged
PROPERTIES
  RecoversUnlessResent
