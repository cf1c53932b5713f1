\* A file and a journal of at most five bytes; lines of up to five, of which a scan
\* may report three and its scanner takes four.
CONSTANTS
  Sources = {"file", "journal"}
  Inodes = {"i1", "i2"}
  MaxBytes = 3
  MaxLines = 2
  BackfillLines = 3
  MaxToken = 4
  MaxLog = 5
  MaxLine = 5
  MaxTurns = 2
  MaxLost = 1
SPECIFICATION ScanFairSpec
INVARIANTS
  Gapless
  RepeatsWereAhead
PROPERTIES
  CatchesUp
