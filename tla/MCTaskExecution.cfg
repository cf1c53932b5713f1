\* Both streams, under fairness; the channel can overflow.
CONSTANTS
  stdout = stdout
  stderr = stderr
  Streams = {stdout, stderr}
  MaxLines = 2
  LogCap = 2
SPECIFICATION FairSpec
\* The task ends.
CHECK_DEADLOCK FALSE
INVARIANTS
  NoSendOnClosedChannel
  DrainComplete
PROPERTIES
  NoLogAfterCompletion
  Ends
