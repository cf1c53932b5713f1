------------------------------- MODULE LogScan -------------------------------
(***************************************************************************)
(* internal/logscan/scanner.go in monitor mode: each scan starts from the   *)
(* cursor the platform kept of the scan before and returns the next one.   *)
(* A log file grows, perhaps in the middle of a line, is rotated and        *)
(* truncated beside the scan, which looks at its size before it opens it;   *)
(* the journal is read through journalctl, whose entries may be unparsable. *)
(*                                                                         *)
(* A log is a sequence of bytes: "text" inside a line, "newline" at its     *)
(* end, "bad" at the end of a journal entry that does not parse.            *)
(***************************************************************************)
EXTENDS FiniteSets, FiniteSetsExt, Naturals, Sequences

CONSTANTS
  Sources,       \* of "file" and "journal", those to consider
  Inodes,        \* inodes of the log file; a rotation may come back to an old one
  MaxBytes,      \* the request's limits, normalized
  MaxLines,
  BackfillLines,
  MaxToken,      \* the longest line, with its newline, that a bufio.Scanner takes
  MaxLog,        \* bound: bytes of a log
  MaxLine,       \* bound: bytes of a line
  MaxTurns,      \* bound: rotations and truncations
  MaxLost        \* bound: results that do not reach the platform

ASSUME SourceAssumption == Sources \subseteq {"file", "journal"}
ASSUME LimitAssumption == {MaxBytes, MaxLines, BackfillLines} \subseteq Nat \ {0}
\* 1 MiB, where HardMaxBytes is 256 KiB.
ASSUME TokenAssumption == MaxToken \in Nat /\ MaxBytes <= MaxToken
\* A blank inode says that there is no cursor (scanner.go:245); every file has one.
ASSUME InodeAssumption == "" \notin Inodes
ASSUME LogAssumption == {MaxLog, MaxLine, MaxTurns, MaxLost} \subseteq Nat

NoCursor == [inode |-> "", offset |-> 0, generation |-> 0]

VARIABLES
  source,      \* the preset's kind
  log,         \* the log's bytes
  inode,       \* of the file
  generation,  \* history: counts the contents the path has had
  cursor,      \* the cursor the platform keeps; its generation is history
  phase,       \* "idle", or "stat": the file was looked at and not yet opened
  stat,        \* what os.Stat said then
  lost,        \* results lost so far
  seen,        \* history: bytes of the present content that were reported
  again,       \* history: those that were reported more than once
  ahead,       \* history: reported bytes that a returned cursor did not cover
  base         \* history: where the run of scans that ends in the cursor began

content == <<log, inode, generation>>
reports == <<seen, again, ahead, base>>
scanVars == <<source, content, cursor, phase, stat, lost, reports>>

Bytes == {"text", "newline", "bad"}
Cursor == [inode : Inodes \cup {""}, offset : 0..MaxLog, generation : 0..MaxTurns]

ScanTypeOK ==
  /\ source \in Sources
  /\ log \in Seq(Bytes) /\ Len(log) \in 0..MaxLog
  /\ inode \in Inodes
  /\ generation \in 0..MaxTurns
  /\ cursor \in Cursor
  /\ phase \in {"idle", "stat"}
  /\ stat \in Cursor
  /\ lost \in 0..MaxLost
  /\ {seen, again, ahead} \subseteq SUBSET (1..MaxLog)
  /\ base \in 0..MaxLog

ScanInit ==
  /\ source \in Sources
  /\ log = <<>>
  /\ inode \in Inodes
  /\ generation = 0
  /\ cursor = NoCursor
  /\ phase = "idle"
  /\ stat = NoCursor
  /\ lost = 0
  /\ seen = {} /\ again = {} /\ ahead = {}
  /\ base = 0

-------------------------------------------------------------------------------
(* Lines *)

\* The ends of the lines after an offset; what follows the last newline counts.
Ends(o) == {p \in o + 1..Len(log) : log[p] # "text" \/ p = Len(log)}

Starts == {0} \cup Ends(0)

Size(e) == e - Max({s \in Starts : s < e})

Line(e) == e - Size(e) + 1..e

\* A line's size with its newline, which the last line may still be without.
FullSize(e) == Size(e) + (IF log[e] = "text" THEN 1 ELSE 0)

TooLong(e) == FullSize(e) > MaxToken

-------------------------------------------------------------------------------
(* The writers of the log (external) *)

\* A process writes to the file, perhaps part of a line.
Write(b) ==
  /\ source = "file"
  /\ Len(log) < MaxLog
  /\ b = "text" => Len(log) + 1 - Max({0} \cup {p \in DOMAIN log : log[p] # "text"}) < MaxLine
  /\ log' = Append(log, b)
  /\ UNCHANGED <<source, inode, generation, cursor, phase, stat, lost, reports>>

\* The journal gets an entry, which may lack a MESSAGE.
Log(n, b) ==
  /\ source = "journal"
  /\ Len(log) + n <= MaxLog
  /\ log' = log \o [i \in 1..n |-> IF i = n THEN b ELSE "text"]
  /\ UNCHANGED <<source, inode, generation, cursor, phase, stat, lost, reports>>

\* The file is replaced by an empty one, or truncated in place.
Turn(i) ==
  /\ source = "file"
  /\ generation < MaxTurns
  /\ log' = <<>>
  /\ inode' = i
  /\ generation' = generation + 1
  /\ seen' = {} /\ again' = {} /\ ahead' = {}
  /\ base' = 0
  /\ UNCHANGED <<source, cursor, phase, stat, lost>>

-------------------------------------------------------------------------------
(* scanFile *)

Report(bytes, notCovered) ==
  /\ seen' = seen \cup bytes
  /\ again' = again \cup (seen \cap bytes)
  /\ ahead' = ahead \cup notCovered

\* os.Stat: the inode and the size the result's cursor is made of.
Stat ==
  /\ source = "file"
  /\ phase = "idle"
  /\ phase' = "stat"
  /\ stat' = [inode |-> inode, offset |-> Len(log), generation |-> generation]
  /\ UNCHANGED <<source, content, cursor, lost, reports>>

\* No cursor yet, another file ("rotated"), or a shorter one ("truncated").
Restarts == cursor.inode # stat.inode \/ cursor.offset > stat.offset

\* The bytes of the lines from a start on, as tailFileEntries adds them up: with
\* a newline for the last line too.
TailSize(s) == Len(log) - s + (IF log # <<>> /\ log[Len(log)] = "text" THEN 1 ELSE 0)

\* The last BackfillLines, the last MaxLines of those, without the oldest until
\* they fit into MaxBytes.
TailStart ==
  Min({Len(log)} \cup {s \in Starts : /\ Cardinality(Ends(s)) <= Min({BackfillLines, MaxLines})
                                      /\ TailSize(s) <= MaxBytes})

\* tailFileEntries reads the whole file as it is by now, if its scanner takes
\* every line; the cursor is that of os.Stat.
ScanTail ==
  LET reported == TailStart + 1..Len(log)
  IN  /\ ~\E e \in Ends(0) : TooLong(e)
      /\ cursor' = stat
      /\ Report(reported, {p \in reported : stat.generation # generation \/ p > stat.offset})
      /\ base' = TailStart

\* Mutant: a line that ends at the limit does not fit.
Fitting_strict(o) ==
  {e \in Ends(o) : e - o < MaxBytes /\ Cardinality({f \in Ends(o) : f <= e}) <= MaxLines}

\* The lines after an offset that fit both limits: none when the first is too long.
Fitting(o) ==
  {e \in Ends(o) : e - o <= MaxBytes /\ Cardinality({f \in Ends(o) : f <= e}) <= MaxLines}

\* Mutant: a line that is not reported for its size is counted as read.
NextOffset_skipping(o) ==
  Max({o} \cup {e \in Ends(o) : Cardinality({f \in Ends(o) : f <= e}) <= MaxLines})

\* Mutant: the offset of the last line that was reported, not the one after it.
NextOffset_last(o) == Max({o} \cup {e - Size(e) : e \in Fitting(o)})

NextOffset(o) == Max({o} \cup Fitting(o))

\* readFileFromOffset reports them, likewise from the file as it is by now.
ScanOn ==
  LET o == cursor.offset
      reported == o + 1..Max({o} \cup Fitting(o))
  IN  /\ cursor' = [stat EXCEPT !.offset = NextOffset(o)]
      /\ Report(reported, IF stat.generation # generation THEN reported ELSE {})
      /\ base' = IF cursor.generation # generation THEN o ELSE base

Read ==
  /\ phase = "stat"
  /\ phase' = "idle"
  /\ IF Restarts THEN ScanTail ELSE ScanOn
  /\ stat' = NoCursor
  /\ UNCHANGED <<source, content, lost>>

\* A line beyond the scanner's limit, anywhere in the file: tailFileEntries fails,
\* and with it the scan, which returns no cursor.
TailFails == phase = "stat" /\ Restarts /\ \E e \in Ends(0) : TooLong(e)

\* The file cannot be opened, the task is cancelled, or its result is lost.
Lose ==
  /\ phase = "stat"
  /\ lost < MaxLost
  /\ phase' = "idle"
  /\ lost' = lost + 1
  /\ stat' = NoCursor
  /\ UNCHANGED <<source, content, cursor, reports>>

-------------------------------------------------------------------------------
(* scanJournal *)

\* --after-cursor, or --lines without a cursor.
JournalStart ==
  IF cursor = NoCursor THEN Min({s \in Starts : Cardinality(Ends(s)) <= BackfillLines})
                       ELSE cursor.offset

Parsed(o) == {e \in Ends(o) : log[e] = "newline"}

\* The entry at which a limit kills journalctl, were the ones before accepted.
Stops(o) ==
  {e \in Ends(o) : LET before == {f \in Parsed(o) : f < e} IN
                     \/ Cardinality(before) >= MaxLines
                     \/ MapThenSumSet(Size, before) + Size(e) > MaxBytes}

Accepted(o) == {e \in Parsed(o) : \A f \in Stops(o) : e < f}

\* The cursor of the last entry, or none.
LastCursor(ends) ==
  IF ends = {} THEN NoCursor
  ELSE [inode |-> inode, offset |-> Max(ends), generation |-> generation]

\* The scanner fails on an entry that is read before a limit ends the scan.
JournalFails ==
  /\ source = "journal"
  /\ \E e \in Ends(JournalStart) : TooLong(e) /\ \A f \in Stops(JournalStart) : e <= f

\* A scan that fails leaves the platform with the cursor it has.
Fail ==
  /\ TailFails \/ JournalFails
  /\ phase' = "idle"
  /\ stat' = NoCursor
  /\ UNCHANGED <<source, content, cursor, lost, reports>>

\* An empty result forgets the cursor: what was reported is not covered any more.
ScanJournal ==
  LET ends == Accepted(JournalStart)
  IN  /\ source = "journal"
      /\ ~JournalFails
      /\ cursor' = LastCursor(ends)
      /\ Report(UNION {Line(e) : e \in ends}, IF ends = {} THEN seen ELSE {})
      /\ base' = IF cursor = NoCursor THEN JournalStart ELSE base
      /\ UNCHANGED <<source, content, phase, stat, lost>>

-------------------------------------------------------------------------------
ScanNext ==
  \/ \E b \in {"text", "newline"} : Write(b)
  \/ \E n \in 1..MaxLine, b \in {"newline", "bad"} : Log(n, b)
  \/ \E i \in Inodes : Turn(i)
  \/ Stat
  \/ Read
  \/ Lose
  \/ ScanJournal
  \/ Fail

ScanSpec == ScanInit /\ [][ScanNext]_scanVars

\* The platform sends a scan again and again.
ScanFairSpec ==
  /\ ScanSpec
  /\ WF_scanVars(Stat) /\ WF_scanVars(Read) /\ WF_scanVars(ScanJournal) /\ WF_scanVars(Fail)

-------------------------------------------------------------------------------
(* Properties *)

BadBytes == UNION {Line(e) : e \in {f \in Ends(0) : log[f] = "bad"}}

\* Scans that continue one another leave no gap: from where their run began,
\* every byte up to the cursor was reported, or belongs to an entry that does not
\* parse.  (readFileFromOffset's offsets, lastCursor; the size is taken before
\* the tail is read, scanner.go:200.)
Gapless ==
  cursor # NoCursor /\ cursor.generation = generation
    => \A p \in base + 1..cursor.offset : p \in seen \cup BadBytes

\* A byte is reported twice only when a result reported it beyond the cursor it
\* returned: a tail read after the file had grown or was replaced, or a scan of
\* the journal that found nothing and returned no cursor (scanner.go:548).
RepeatsWereAhead == again \subseteq ahead

Blocked == cursor.offset < Len(log) /\ Min(Ends(cursor.offset)) - cursor.offset > MaxBytes

\* No cursor holds, and the file has a line that makes every tail of it fail.
Untailable ==
  /\ cursor.inode # inode \/ cursor.offset > Len(log)
  /\ \E e \in Ends(0) : TooLong(e)

\* Scans catch up with a file that no longer changes, whatever was lost, rotated
\* or truncated before.  A line longer than the byte limit stops them, for ever,
\* when it is the next one (scanner.go:418); one beyond the scanner's limit does so
\* wherever it is, but only while there is no cursor to go on from
\* (scanner.go:351): read from an offset it is only longer than the byte limit.
CatchesUp ==
  source = "file" =>
    <>[](\/ cursor.inode = inode /\ (cursor.offset = Len(log) \/ Blocked)
         \/ Untailable)

===============================================================================
