\* Two starts of one identifier, by handlers that overlap.
CONSTANTS
  new = new
  old = old
  Callers = {new, old}
  Closed = {old}
  Sessions = {1, 2}
  MaxOutput = 1
SPECIFICATION FairSpec
\* Every session has ended.
CHECK_DEADLOCK FALSE
INVARIANTS
  ExitedIsFinal
  RegisteredRuns
PROPERTIES
  StopEnds
