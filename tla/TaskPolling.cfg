\* Two rotations, under fairness; one is not enough to overtake the refresh.
CONSTANTS
  MaxRotations = 2
SPECIFICATION PollFairSpec
\* The loop ends with the context.
CHECK_DEADLOCK FALSE
INVARIANTS
  PollingSurvivesRotation
PROPERTIES
  KeepsClaiming
  ClaimsNeverOlder
