\* Two dispatches of one task; every request sent is answered.
CONSTANTS
  h1 = h1
  h2 = h2
  t1 = t1
  t2 = t2
  Handlers = {h1, h2}
  TaskIDs = {t1}
  RetryAttempts = 4
  ClientTries = 4
  Faults = {}
  RootTasks = {}
SPECIFICATION Spec
SYMMETRY HandlerSymmetry
\* The process ends.
CHECK_DEADLOCK FALSE
INVARIANTS
  OneRunPerTask
  CompletedUnlessDown
PROPERTIES
  ImplementsContract
