\* One run, of a root task or another, under fairness and every fault; two
\* attempts of two transmissions.
CONSTANTS
  h1 = h1
  h2 = h2
  t1 = t1
  t2 = t2
  Handlers = {h1}
  TaskIDs = {t1, t2}
  RetryAttempts = 2
  ClientTries = 2
  Faults = {"network", "conflict"}
  RootTasks = {t2}
SPECIFICATION FairSpec
\* The process ends.
CHECK_DEADLOCK FALSE
INVARIANTS
  StatusTruthful
  DuplicatesBounded
PROPERTIES
  CancellationWins
  Finishes
