# Noderax Agent: TLA+ specifications, model checking and proofs

This directory specifies the Noderax agent, the Go program in `src/`: TLA+ modules
of its concurrent and failure-prone parts, TLC configurations that check them on
small instances, and theorems that TLAPS proves for every value of the constants.
`PROJECT.json` lists the parts, the runs, the wrong versions of the code each
property notices, the source lines every definition models, the hazards and the
theorems.

`tlc -workers 2 -config X.cfg M` makes a run of `PROJECT.json`;
`tlapm MProofs.tla` checks the proofs about `M`.

## 1. The system

One process on a managed host, and the commands that install, configure, update
and remove it. `cmd/agent/main.go` builds `agent.Service`, which gets an identity
and then starts four workers under one context: the socket (`realtime`), the
metrics, the claim loop (`tasks`) and a location lookup.

| Part | State | Operations |
| --- | --- | --- |
| task service (`tasks/service.go`, `http_events.go`) | the running set; per task: contexts, the cancellation mark, the status; the log channel | claim, dispatch, run, watch for a cancellation, report, drain logs, stop |
| command executor (`tasks/executor.go`) | request files of the helpers; the process, its pipes, the captured output | build a command, execute, scan, kill, wait |
| HTTP client (`api/client.go`) | token and node headers | post and get, each resent up to three times |
| realtime client (`realtime/client.go`) | `sessionActive`, the outbound queue and its depth counter; per connection three channels and the captured credentials | dial, authenticate, serve, write, reconnect, handle events |
| identity and enrollment (`agent`) | the identity in memory, in its file and in the config file | load, enroll, poll, rotate, persist |
| configuration (`config`) | the config file | load, validate, save |
| root access (`rootaccess/manager.go`) | the applied profile, in memory and in a file; the sudoers file of the host | reconcile a desired profile, report |
| terminal manager (`terminal`) | sessions by identifier; per session a shell, a PTY and three goroutines | start, write, resize, stop, stream, report the exit |
| log scanner (`logscan`) | cursors handed in and out | scan a file or the journal |
| command line (`agentctl/commands.go`) | the installed binary, helpers, sudoers files, unit, config | install, bootstrap, enroll, set, start, remove; the helpers themselves |
| self-update (`agentctl/update.go`) | the staged binary, the progress told to the platform | launch, download, verify, replace, refresh, restart, confirm |
| metrics, detectors, collector, logger, release metadata, installer script | none that outlives a call | collect and send, look up, read, print, build |

How they interact:

- The claim loop and the socket's `task.dispatch` both call `dispatchTask`; the
  running set keeps them apart. Every task is a goroutine of its own, with a
  second one that polls for a cancellation, a third that posts log lines and two
  that scan the output.
- A task that needs root writes its request to the one file of its helper and
  starts the helper through sudo, another process that reads and removes it. The
  service runs as `noderax` and may not signal what sudo has started: neither a
  helper nor a root terminal's shell can be killed.
- Task reports travel over HTTP, metrics, terminal events and re-sent
  authentications over the socket's outbound queue.
- A token rotation arrives over the socket. Its handler writes both files, the
  identity and the HTTP client's header, which the claim loop writes as well; the
  commands on the host write the same config file from their own copy.
- Desired root profiles arrive with claim answers, with the authentication's
  acknowledgement and with `root-access.updated`; all of them reach one manager,
  from two goroutines. A self-update and an installation run the same root helper.
- Terminal events of the socket start and stop sessions; the sessions' events go
  back through the outbound queue under a context that never ends.
- `agent.update` tasks start updaters in systemd units of their own, which replace
  the binary the service runs and restart it.

Hard behaviours: two sources of dispatches; a cancellation, a deadline, an exit and a
shutdown that race; a command of root's that nobody can kill; reports that are resent
at two levels; a token that changes under a loop that reads it; a reconciliation
without a lock; files that a crash separates, that several processes rewrite whole and
that root may close to the service; a write loop that outlives its connection; a PTY
closed under its reader; one request file for many tasks; a log that is rotated
between the look at its size and its opening; updaters that share a staged name and
are never rolled back.

What makes each part correct: one run per task and a truthful, bounded report of
it; an execution that ends and a log that neither panics nor follows the
completion; a helper that carries out its own task's request; a claim loop that
survives a rotation; an identity that survives the process; an applied profile
that is the host's; a session that comes back; events in order; one terminal
session per identifier whose exit is its last word; scans without a gap; an
installed binary that is always whole, and an update whose end is always told.

## 2. Modules

| Module | Models | Runs and proofs |
| --- | --- | --- |
| `TaskVocabulary` | handlers, tasks, verdicts and reports | used by the next two |
| `TaskContract` | what the task service promises the platform (abstract) | refined by `TaskService` |
| `TaskService` | dispatch, `handleTask`, its reports and retries, `watchTaskControl`, shutdown | `MCTaskService`, `TaskServiceProofs` |
| `TaskExecution` | one execution: command, pipes, scanners, log sink, completion | `MCTaskExecution`, `ExecutorProofs` |
| `TaskCommands` | payload, root scope, request file, sudo, helper | `MCTaskCommands`, `ExecutorProofs` |
| `TaskPolling` | `pollTasks` beside the token rotation | `PollingProofs` |
| `RootAccess` | snapshots, the helper, the state file, crash and restart, self-update and installation beside them | `PollingProofs` |
| `RealtimeSession` | `Run`, `connect`, the socket's handlers, re-authentication | `RealtimeSessionProofs` |
| `OutboundQueue` | `enqueueCritical`, the depth counter, the write loops | `MCOutboundQueue`, `OutboundQueueProofs` |
| `TerminalManager` | the sessions of one identifier | `MCTerminalManager`, `TerminalManagerProofs` |
| `LogScan` | monitoring scans of a file and of the journal | `PollingProofs` |
| `AgentIdentity` | identity, config file, enrollment, rotation, `install`, `bootstrap`, `config set` | `AgentIdentityProofs` |
| `ManagedHost` | updaters, installation and removal on one host with its service | `MCManagedHost`, `ManagedHostProofs` |

The modules that share a proof module prefix the names a specification usually has
(`PollInit`, `ScanSpec`, `CommandTypeOK`), so that one module can extend them. The
MC modules add the names of model values, payloads and symmetry sets.
Definitions that begin with the name of another one and an underscore
(`Decide_releasing` beside `Decide`) are plausible wrong versions of it; no
specification uses them, the mutation runs do. Variables marked "history" record
what happened for a property to speak of; no guard but a bound reads them.

### Correspondence with the code

`TaskService`. `pc[h]` is the place of one `handleTask` goroutine: it accepts,
starts, prepares, executes, decides, completes, unmarks. `running` is
`Service.running`; `taskCtx` is `taskCtx.Err()`, `marked` is `controlCancelled`.
A lifecycle report is a request of `withQueuedStateRetry` (`attempt`) that the
HTTP client transmits up to `ClientTries` times (`tries`). Copies in `net` may
be lost, refused, or recorded at any later time; so the model has late and
repeated reports, answers that get lost, and a platform that records what the
agent has given up. `Decide` fixes the status, after which the deferred calls run
in their order: `cancel`, the completion, `unmarkRunning`, `wg.Done`. `RootTasks`
are those whose command runs under sudo: when their context is done, the signal to
the process group is refused (`executor_unix.go:16`) and, for want of a `WaitDelay`,
`Execute` goes on until the command ends by itself.

`TaskContract` has no goroutine, context or retry: a run is claimed, executes,
finishes with one justified verdict and is released, and a report is recorded at
most once per run in its set. The mapping (`Contract` in `TaskService`) takes
`stage` from `pc`, `reported` from the reports recorded at least once, and `asked`
and `down` from the requests and the shutdown. Transmissions, refusals and the
watcher's steps are stutters.

`TaskExecution` counts lines. `Enqueue` never blocks; a send after `Close` sets
`crashed`, Go's panic. `WaitReturn` empties the pipes, which is what `cmd.Wait`
does to a reader that is behind. A command is the agent's user's (`"running"`),
which `Kill` ends, or root's (`"rooted"`), which only `ProcessExit` does.

`TaskCommands`. A payload is what `commandForTask` looks at: its type, whether it
decodes with the fields it needs, `runAsRoot`, the scope and, for an operational
shell command, which of the permitted ones it is. A host is its helpers and
whether commands go through sudo. `Build` is everything up to the written request;
starting, sudo's answer, the helper's test, read, removal and refusal are steps of
their own, each of which may fail. `request[h]` says whose request the file of
helper `h` holds. `raced` collects tasks that met another one between the write
and the removal, `shifted` those that met a change of the profile between the
agent's record and the host. A helper that has become root outlives the kill of its
task.

`TaskPolling`, `RealtimeSession` and `AgentIdentity` number tokens in the order
they are staged. The platform accepts the staged token beside the current one and
retires the older ones when the new one authenticates; that is the contract the
rotation handler's order (persist, install, authenticate) relies on. Of the socket
library (external) the models assume that one connection's events are handled one
after the other, and that closing a manager may or may not run `OnDisconnect`. An
acknowledgement handler may still run after its connection was closed
(`LateAuthAck`).

`RootAccess`. `HandleDesiredSnapshot` is split where another caller can come in
between: receive, compare, run the helper, update the state. Write failures and
crashes may truncate the file. A self-update reads the state file
(`UpdateReads`), applies what it says (`UpdateApplies`) or fails at it
(`UpdateFails`), and writes nothing; a new
installation applies "off" and leaves the file alone (`Reinstall`). `overlaps` and
`doubt` are history: who applied beside another, and whether an application has
overlapped, been cut off or not been recorded since the last clean one.

`OutboundQueue`. An event is the pair of its sender and number. A write loop
whose connection is gone may take one more event, which is then lost. A sender
under a context may give up at any time: at the shutdown, or by the timeout of its
call (10 s for `RefreshAuth`, the request timeout for metrics).

`TerminalManager`. Two handlers can overlap only when an older connection's
handler is still at work, hence two `Callers`. A session object is used once. Its
shell is the agent's user's or, under `sudo -n -H`, root's (`"rooted"`): a stop of the
latter returns the error and leaves the session as it is (`manager.go:262`).

`LogScan`. A log is a sequence of bytes of which only line ends, and journal
entries that do not parse, are told apart. `Stat` looks at the file, `Read` opens
and reads it, with growth, rotation and truncation in between. The cursor is inode
and offset, as in the code; `generation` numbers the contents behind the path, so
that the properties can tell a reused inode from the same file. `base`, `seen`,
`again` and `ahead` are history. A result may be lost on its way to the platform,
which then repeats the older cursor. `MaxToken` is what a `bufio.Scanner` takes for
one line (1 MiB in the code): a longer one fails every tail of its file, and a scan
of the journal that comes to it (`Fail`).

`AgentIdentity`. Two files, written without a lock and truncated first: the state file
is a token, the config file the token, the enrollment token, the state file's path,
`request_timeout` and how often the rest was set. What is loaded is not what was
written: `normalize` raises a low timeout (`Normalized`), and whoever then writes the
file writes the raised one. A state file that root creates, in an interactive
installation or with `enroll`, is root's (`rootOwned`, mode 0600) and closed to the
service (`Readable`) until `install.sh` gives the directory back (`Chown`); root reads
it all the same. `config set` may change every field (`Edited`), an installation
resets the path. At a start the config file's token wins, then the state file's, then
the enrollment. Whoever writes the config file writes all of its own copy: the agent
the one it read at its start. `agent` and `command` are the two processes, each with
its copy (`cfg`) and the token it is about to persist (`new`); a failing write, a
failing installation and a crash may come at any step. `hurt`, `wanted` and
`unapplied` are history.

`ManagedHost`. An updater is the binary that was installed when it was launched
(`code`), in a unit named after its target; so targets run side by side and share
`.next`. Files are whole versions, absent, or `Broken`. Its steps are those of
`applyManagedUpdate`; install and uninstall are sequences of steps beside them, one
command at a time. `unit` and `running` are systemd's: a started unit whose
service ends is started again, with whatever binary is there. `place` and `path` are
where the config and the state file are, `states` which state files exist. A removal
reads both places at its start, the second from the config file (`knows`,
`knowsState`), and removes the two files in two steps, each of which may fail; the
environment, which could name a config file to it, is taken to be empty. The history
variables name what a property excepts: targets that `met` another actor, lost
reports (`silent`), updates that `failed` after they changed files, files `torn`
by a failed command, updaters beside a command (`crowded`), and the files away from
their default places that a command has left without anything that names them
(`stranded`).

## 3. What is checked

| Run | Bounds | Properties |
| --- | --- | --- |
| `single` | one run, of root's task or the other one, 2 attempts of 2 transmissions, all faults | `StatusTruthful`, `DuplicatesBounded`, `CancellationWins`, `Finishes` |
| `pair` | two dispatches of one task, the code's 4 attempts of 4, every request answered | `OneRunPerTask`, `CompletedUnlessDown`, `ImplementsContract` |
| `execution` | two streams of two lines, a channel of two, a command of either user | `NoSendOnClosedChannel`, `DrainComplete`, `NoLogAfterCompletion`, `Ends` |
| `handoff` | three tasks, five payloads, two hosts, two profiles and a change | `OwnRequestUnlessRaced`, `NoOrphanRequest` |
| `polling` | two rotations | `PollingSurvivesRotation`, `ClaimsNeverOlder`, `KeepsClaiming` |
| `rootaccess` | two callers, three profiles, two changes, a failing helper, write or crash, a self-update or an installation | `AppliedMatchesHost`, `DiskIsMemory`, `HostConverges` |
| `session` | two rotations, two faults, an update, a refresh | `IdentityAccepted`, `ServingAcknowledged`, `RecoversUnlessResent` |
| `queue` | two senders of two events, a channel of one, two connections | `DepthExact`, `InOrder`, `SendsEnd` |
| `terminal` | two handlers, two sessions with shells of either user, one chunk of output each | `ExitedIsFinal`, `RegisteredRuns`, `StopEnds` |
| `logscan` | logs of five bytes, lines of up to five; limits of 3 bytes, 2 lines, 3 lines of backfill, a scanner's line of 4; two rotations or truncations, one lost result | `Gapless`, `RepeatsWereAhead`, `CatchesUp` |
| `identity` | a fresh or an enrolled host, a state file of either user at one of two paths, three tokens, two commands, two faults | `RestartAccepted`, `IdentityKept`, `SettingKept`, `Serves` |
| `update` | two targets, two versions, three updates, installations or removals, one fault, config and state file each at its default place or another | `BinaryWhole`, `ConfirmedRuns`, `MixtureReported`, `OneFinalReport`, `UninstallClean` |

Each property's comment in its module states what it says of the code and what it
excepts. The type invariants are theorems, and no run checks them.

Why the bounds are enough. Handlers of different tasks share only the running set, so
two runs of one task contain every conflict, and one run contains the races of status,
cancellation, deadline and shutdown; more runs are the business of the proofs. Two
attempts of two transmissions already have a first, a repeated and a last one at both
levels; `single` has the lost and late answers for which a report is sent again,
`pair` keeps to what two runs add. A channel smaller than the lines written overflows
and blocks. A request file has one writer too many with two tasks; the third meets
what the two have left. The five payloads are one for each way to a helper, and two
that share one. One rotation meets the claim loop at each of its points; the second is
what overtakes a refresh. Two callers and a self-update overlap in every pair, and a
third change of the profile repeats the second. Two connections have an old and a new
write loop. A line of four bytes is longer than a scan may report, one of three just
fits, one of five is more than the scanner takes; five bytes hold two lines and a part
of one; the second rotation can bring the first inode back. Three tokens are the
enrolled one, one that a rotation stages, and one of an enrollment beside it; two
commands overtake each other's copy of the file. Three requests on one host are two
updaters that overlap and a command beside them; versions differ or do not. Symmetry
is used for handlers, tasks and targets, never with a liveness property.

`CHECK_DEADLOCK FALSE` is set wherever the system may stop: tasks end, loops end
with their context, sessions exit, the bounded senders have sent everything, no
command remains to be run. `RootAccess` and `LogScan` run without it.

### What the code does not promise

A property that holds names the exception the code makes. These are the known
disagreements between the code and what its documents or comments say:

- Output can be lost: `cmd.Wait` closes the pipes while the scanners are behind
  (`executor.go:268`), and the terminal manager its PTY under the reader
  (`manager.go:288`). No property over the code could hold; `TaskExecution` and
  `TerminalManager` let it happen.
- `CompletedUnlessDown`: a task that ends because the agent stops is not reported
  as completed, since the completion is sent under the context that is done
  (`service.go:375`; the comment at 353 says "Always ensure task is completed").
- `PollingSurvivesRotation`, `KeepsClaiming`: when a second rotation retires the
  token of the refreshed claim while that is under way, the claim loop ends for
  good (`service.go:264`).
- `AppliedMatchesHost`, `HostConverges`: two applications at once, or one cut off
  between the helper and the state file, can leave a host with another profile
  than the one reported (`manager.go:81`, `manager.go:169`; README.md:169 says the
  manager "persists the applied state locally and reports it back"). So can a new
  installation, which applies "off" and leaves the state file alone
  (`commands.go:262`). Nothing is applied again as long as the platform wants the
  reported profile.
- `RecoversUnlessResent`: an update of the root profile after a rotation
  authenticates with the token captured at the connection (`client.go:631`), which
  may be retired; the open session then stays inactive (CHANGELOG.md:37 speaks of
  reauthentication without manual re-enrollment).
- `OwnRequestUnlessRaced`: two concurrent tasks of one helper can get each other's
  request, or none (`executor.go:878`).
- `Finishes`, `Ends`, `StopEnds`: a command or a shell of root's cannot be killed by
  the agent's user. Its task outlives the deadline and a cancellation and keeps its
  place in the running set, its session goes on after `terminal.stop`, until it ends
  by itself (`executor_unix.go:16`, where line 15 says "Kill the entire process
  group"; `manager.go:262`).
- `CatchesUp`: a line longer than the byte limit stops the scans of its file for ever
  (`scanner.go:418`); one of 1 MiB makes every tail of its file fail, so that without
  a cursor none is ever made (`scanner.go:351`). `RepeatsWereAhead`: a tail read after
  the file has grown reports what the next scan reports again, and so does an empty
  scan of the journal, which returns no cursor (`scanner.go:548`).
- `RestartAccepted`, `SettingKept`: a rotation whose config file cannot be written,
  or a command that writes its copy back, leaves the older token in the file that
  wins; the agent writes back settings as it read them at its start
  (`enrollment.go:323`), `bootstrap` takes the defaults for a config file that does
  not decode (`commands.go:310`). An identity that the operator writes in by hand, and
  a state file that `config set` moves, are the operator's own.
- `IdentityKept`, `Serves`: a state file that an installation or enrollment of root's
  has created is closed to the service (`identity.go:66`, `identity.go:87`); only the
  config file has the identity then, and a second installation clears it
  (`commands.go:215`). `Serves` excepts files that do not decode and hosts that
  lost the single-use bootstrap token before anything was persisted
  (`enrollment.go:161`).
- `MixtureReported`: a failed update is not rolled back (`update.go:311-345`). An
  updater refreshes the helpers as the old binary knows them, since it is the old
  binary; they are of one version again only after the next update or installation
  (CHANGELOG.md:104).
- `UninstallClean`: a removal that failed after the unit was gone, and is tried
  again, no longer finds a config file at another place (`commands.go:1047`); one that
  failed after the config file was gone no longer finds a state file at another place
  (`commands.go:489-499`, `commands.go:1063`), and neither does one after an
  installation has reset its path (`commands.go:182`). An updater at work beside it
  can write files again.

### Fairness

Weak fairness per goroutine: a goroutine that can step does. Beyond that only
what the code or the system calls enforce is assumed. Timers fire (the task's
deadline, the drain, a dial's timeout); HTTP requests end because `NewClient` sets
a timeout; a killed process group ends, if it is the agent's user's. For a command or
a shell of root's nothing is assumed. A timeout that ends one call of `OutboundQueue`
may fire but is not relied on. In `RootAccess` the claim loop polls again,
systemd restarts the agent, and a self-update that has begun to apply does. In
`RealtimeSession` the platform answers an authentication and a dial ends one way
or the other. In `LogScan` the platform sends scans again and again; nothing is
assumed of the log, so `CatchesUp` speaks of the time when it no longer changes,
which its finite length brings about. In `AgentIdentity` systemd starts the agent
again and again (`Restart=always`), both processes go on, and of the polls for an
approval, one every five seconds, some is answered (strong fairness, since the
process that polls may be restarted meanwhile). Nothing is assumed of a command,
a shell, a fault, a rotation, an update or a cancellation: they may happen or not.
`SendsEnd` excepts senders without a context once the agent stops, because the
code lets them wait until the process ends. `TaskCommands` and `ManagedHost` have
safety properties only.

## 4. What is proved

Eight modules hold the theorems, for every value of the components' constants that
meets the assumptions named in their modules. `ExecutorProofs` has a section for
each of two components and `PollingProofs` for each of three; they share no state
and no lemma. Every component's proofs have the same shape: an invariant of named
parts (`IInv`, or `CommandInv`, `PollInv`, `RootInv`, `ScanInv`), one lemma per part
(or per few that need each other) with one step per action, the invariance
(`Spec => []IInv`), and the theorems that follow from it. An invariant was first
checked by TLC on the bounds of its component's run.

| Module | Theorems (property) | Needs of the constants |
| --- | --- | --- |
| `TaskServiceProofs` | `SingleRun` (`OneRunPerTask`), `TruthfulStatus` (`StatusTruthful`), `BoundedDuplicates` (`DuplicatesBounded`), `MarkedNeverSucceeds` (`CancellationWins`), `CompletionRecorded` (`CompletedUnlessDown`, for `Faults = {}`), `Refinement` (`ImplementsContract`) | retries at least 1 |
| `ExecutorProofs` | `NoPanic` (`NoSendOnClosedChannel`), `DrainsAll` (`DrainComplete`), `CompletionIsLast` (`NoLogAfterCompletion`) | a capacity of at least 1 |
| | `OwnRequest` (`OwnRequestUnlessRaced`), `NoOrphans` (`NoOrphanRequest`), `DeniedBesideChange` (`DeniedOnlyIfShifted`) | payloads, hosts and profiles of their types |
| `PollingProofs` | `SurvivesRotation` (`PollingSurvivesRotation`), `ClaimsOrdered` (`ClaimsNeverOlder`) | |
| | `ReportMatchesHost` (`AppliedMatchesHost`), `FileMatchesMemory` (`DiskIsMemory`) | "off" is a profile |
| | `NoGap` (`Gapless`), `RepeatsExplained` (`RepeatsWereAhead`) | limits of at least 1, the scanner's above a scan's, no file without an inode |
| `RealtimeSessionProofs` | `HoldsAcceptedToken` (`IdentityAccepted`), `ServesAcknowledged` (`ServingAcknowledged`) | |
| `OutboundQueueProofs` | `DepthMatchesChannel` (`DepthExact`), `ArrivesInOrder` (`InOrder`) | finitely many senders |
| `TerminalManagerProofs` | `ExitIsFinal` (`ExitedIsFinal`), `MapHoldsRunning` (`RegisteredRuns`), `FreeAfterExit` (`ReusableAfterExit`) | |
| `AgentIdentityProofs` | `RestartAcceptance` (`RestartAccepted`), `RunningAcceptance` (`RunningAccepted`), `IdentityRetention` (`IdentityKept`), `SettingRetention` (`SettingKept`) | a token to be enrolled with; two paths; contents differ from the marks of a missing and a torn file |
| `ManagedHostProofs` | `BinaryIntegrity` (`BinaryWhole`), `RemovalCompleteness` (`UninstallClean`), `MixtureVisibility` (`MixtureReported`), `ConfirmationTruth` (`ConfirmedRuns`), `FinalReports` (`OneFinalReport`) | a first version; versions and targets differ from the marks of nothing and of a broken file |

Each component's type invariant is proved, too. `DeniedOnlyIfShifted`,
`ReusableAfterExit` and `RunningAccepted` are proved and have no run of their own.

Why the properties are not inductive alone, and what `IInv` adds:

- `TaskService`. `ClaimInv`: an active handler's task is in the running set, for
  `markRunning` refuses a task because it is in the set. `ContextInv`: where a handler
  is determines what its context, error, mark and watcher can be; a cancelled context
  of a serving agent before the decision means that the mark is set. `PendingInv` and
  `WireInv`: the copies of a report on the wire and recorded are within the budget of
  the attempts so far, of which every one but the last has used up a copy that was
  refused, and reports whose turn has not come have none; this also shows that a
  recorded verdict is the run's own, which the refinement needs. `AnsweredInv`:
  without network faults at most one copy exists. Together they are
  `DuplicatesBounded`. `CompletedUnlessDown` is inductive on top of these: without
  faults a report point is left by the answer or by the shutdown.
- `TaskExecution`. Behind the join no scanner has a line in its buffer, so nobody
  is left to emit when the channel is closed; under a live context every entry is
  posted, dropped, in the channel or in the sink's hand; the report begins with
  the context done.
- `TaskCommands`. Of two tasks at one file, both have met the other; so a task
  that met nobody finds its own request there. Requests are written only by tasks
  that hand over to that helper. A command that passed the scope check and met no
  change may use sudo, since `CanUseRootScope` and the sudoers file of a profile
  name the same helpers.
- `TaskPolling`. The last claim's token is at most the header's, that at most the
  identity's, and a refresh under way has read one in between. Until a second
  token is staged, a rejected claim means that the first one was accepted and
  installed, so that what the loop does next sends it.
- `RootAccess`. An application that ran alone has left its profile on the host; of
  two at once both overlap; a self-update that runs alone has read what the file
  still says; an undecodable file is in doubt. The report is then sound between
  any two steps, also while the agent is down.
- `RealtimeSession`. Tokens sent or queued are at most the identity; rotations on
  their way are accepted, ascending and newer than it; so an authentication
  retires nothing that the agent holds or will be given. Between connections
  nothing of the last one is left, so that an acknowledgement in the channel is
  the present connection's.
- `OutboundQueue`. A sender's events pass in order through the queue, the hands of
  the newest write loop, the wire and the platform (`Chain`); older loops can only
  lose one. The counter is exact but for the steps between a channel operation
  and its update.
- `TerminalManager`. A shell that was just started belongs to its handler and has
  no goroutines; the reader is gone once `runSession` has joined it;
  `terminal.exited` is its last step.
- `LogScan`. Whatever scan comes next, three facts tie the cursor to the history: a
  cursor is of a content the path has had, and of the present one it is within the
  file, because a content only grows (`Cursors`); a byte that was reported and is
  not `ahead` is covered by a cursor of the present content (`Covered`), so that a
  scan which begins again finds nothing reported that is not ahead (`Afresh`); and
  everything between the start of the run and the cursor was reported or does not
  parse (`Filled`). The journal needs `Entries` besides: its cursor is an entry's
  end, and lines stay what they are when whole entries follow. The lemmas
  `Least` and `Greatest`, proved from the well-foundedness of the naturals, say what
  `Min` and `Max` of sets of offsets are; what a line is rests on them. The
  limits matter only through `Offsets` and `TailRead`: where a scan stops is a line's
  end between where it began and the end of the file.
- `AgentIdentity`. `Newest` says why the order of the two writes works: as long as no
  old configuration was left behind, the state file's token and the config file's
  outlast every token in use or about to be used, and the state file is never
  behind the config file or a copy that is still to be written to it. So whatever
  the agent authenticates with, and thereby keeps, retires neither. It needs that
  no token is newer than the platform's newest (`Bounded`), that a process that
  persists has something to persist (`Granted`), that every copy has the state file in
  its place until the operator moves it (`InPlace`), and that a command enrolls only on
  a host where nobody has an identity yet (`NotYet`, `NewHost`). It speaks of what the
  files hold (`OnFile`), since whether the service may read them can change at any
  time. `RunningAccepted`
  needs that nothing was retired while the agent polled for its first identity
  (`Unretired`) and that what it starts with or was just given is accepted (`InUse`).
  `SettingKept` rests on `Copies`: who may write the whole file has read the last
  settings, and loading changes nothing in what they come to (`Effect`), since a
  timeout that `normalize` has raised is not raised again.
- `ManagedHost`. An updater that has verified its download holds a whole file
  (`Whole`); one that met nobody finds on the host what it has put there (`Unmet`,
  `Fetched`), which makes its confirmation true; a command that nobody crowds is
  alone, and what a removal has removed stays so (`Alone`, `Removal`); at each step of
  a removal, and between commands, the config and the state file are where the
  removal looks for them, or else stranded (`Named`); and behind
  every helper or service that is not the binary's there is a target that failed
  and was reported, or is being tried once more and has not yet changed what it had
  left (`Noticing`).

Only model-checked: liveness under fairness (`Finishes`, `Ends`, `KeepsClaiming`,
`HostConverges`, `RecoversUnlessResent`, `SendsEnd`, `StopEnds`, `CatchesUp`,
`Serves`), which is out of the prover's reach. Every other property of a run is a
theorem. What a scan's sums over lines amount to (`MapThenSumSet` in `Stops`) is not
proved; `Gapless` holds whatever they are, since all entries before the one that
stops a scan count.

## 5. Not modelled

Texts and layout of results, reports and payloads; the 2 MB and 1 MB limits on
output; the parsers of package lists and log entries; which configuration values
are valid and the environment's overrides; prompts and summaries of the command
line; launchd; the preview of a log, which returns no cursor. The
metrics service, the detectors, the collector and the logger keep no state that
outlives a call: the metrics' sends are the bound senders of `OutboundQueue`, the
location's one effect on the session is `RefreshAuth` of `RealtimeSession`. The
release metadata tool runs before there is an agent; of the installer script only the
change of ownership (`Chown` of `AgentIdentity`) matters to one that exists. Time
is abstract: a timer may fire at any moment it is armed, so rates and pauses (the
missing pause after a 404 or 409, ping intervals) are not expressed. Terminal
input, resizing and `terminal.error` leave no state behind and are left out. The
socket's own task lifecycle events have no caller in the agent.

## 6. What is left

- A composition of `RealtimeSession`, `TaskPolling` and `AgentIdentity` over one
  identity; today each has the platform's token contract for itself.
- `TaskService` over `TaskExecution`: `ExecReturn` stands for the whole execution.
- Sequence numbers of the socket, taken before the queue (`client.go:203`), and the
  metrics' trigger.
- The parsers and the derived timeouts as operators.
