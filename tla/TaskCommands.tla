----------------------------- MODULE TaskCommands -----------------------------
(***************************************************************************)
(* internal/tasks/executor.go, from a task to the command that runs it, and *)
(* the hand-off to the privileged helpers: commandForTask validates the     *)
(* payload, writes the helper's request file and names the command; the     *)
(* helper (agentctl's shell scripts, `update` and `log-scan`) reads the     *)
(* file, removes it and does the work.  There is one request file per       *)
(* helper, and tasks run concurrently.                                     *)
(***************************************************************************)
EXTENDS FiniteSets, Naturals

CONSTANTS
  Tasks,       \* tasks accepted by the task service
  Commands,    \* payloads the platform sends, a subset of Command
  Hosts,       \* hosts to consider, a subset of Host
  Profiles,    \* root profiles to consider, each the set of its scopes
  MaxChanges,  \* bound: changes of the root profile
  None

Helpers == {"self-update", "package-mutation", "operational-log-scan", "task-root"}
Mutations == {"packageInstall", "packageRemove", "packagePurge"}
Types ==
  {"agent.update", "log.scan", "shell.exec", "packageList", "packageSearch", "unknown"}
    \cup Mutations
Scopes == {"operational", "task", "terminal"}

\* A payload: whether it decodes with the fields it needs, runAsRoot, rootScope
\* ("" when absent), and for an operational shell.exec which command it is.
Command ==
  [type : Types, valid : BOOLEAN, root : BOOLEAN, scope : Scopes \cup {""},
   text : {"reboot", "restart", "update", "other"}]

\* Linux or not, the helpers installed, and whether commands go through sudo
\* (sudo is found and the agent is not root).
Host == [linux : BOOLEAN, helpers : SUBSET Helpers, sudo : BOOLEAN]

ASSUME CommandAssumption == Commands \subseteq Command
ASSUME HostAssumption == Hosts \subseteq Host
ASSUME ProfileAssumption == Profiles \subseteq SUBSET Scopes
ASSUME NoneAssumption == None \notin Tasks /\ None \notin Commands /\ None \notin Helpers
ASSUME BoundAssumption == MaxChanges \in Nat

VARIABLES
  host,     \* the host the agent runs on; never changes
  granted,  \* scopes the sudoers file grants: the profile on the host
  applied,  \* scopes of the profile the agent has on record
  changes,  \* changes of the profile so far
  point,       \* [Tasks -> CommandPoints]
  cmd,      \* [Tasks -> Commands or None]
  request,  \* [Helpers -> Tasks or None]: whose request the file holds
  temps,    \* tasks whose own temporary log-scan request exists
  taken,    \* [Tasks -> Tasks or None]: whose request the task's helper has read
  ran,      \* [Tasks -> Tasks or None]: whose request it has carried out
  outcome,  \* [Tasks -> Outcomes]
  raced,    \* history: tasks that met another one at their request file
  shifted   \* history: tasks that met a change of the profile

files == <<request, temps>>
profile == <<granted, applied, changes>>
history == <<raced, shifted>>
commandVars == <<host, profile, point, cmd, files, taken, ran, outcome, history>>

CommandPoints == {"waiting", "built", "started", "found", "read", "done"}
Outcomes == {"none", "rejected", "startFailed", "denied", "missing", "refused",
             "killed", "ended"}

CommandTypeOK ==
  /\ host \in Hosts
  /\ granted \in Profiles
  /\ applied \in Profiles
  /\ changes \in 0..MaxChanges
  /\ point \in [Tasks -> CommandPoints]
  /\ cmd \in [Tasks -> Commands \cup {None}]
  /\ request \in [Helpers -> Tasks \cup {None}]
  /\ temps \in SUBSET Tasks
  /\ taken \in [Tasks -> Tasks \cup {None}]
  /\ ran \in [Tasks -> Tasks \cup {None}]
  /\ outcome \in [Tasks -> Outcomes]
  /\ raced \in SUBSET Tasks
  /\ shifted \in SUBSET Tasks

CommandInit ==
  /\ host \in Hosts
  /\ granted \in Profiles
  /\ applied = granted
  /\ changes = 0
  /\ point = [t \in Tasks |-> "waiting"]
  /\ cmd = [t \in Tasks |-> None]
  /\ request = [h \in Helpers |-> None]
  /\ temps = {}
  /\ taken = [t \in Tasks |-> None]
  /\ ran = [t \in Tasks |-> None]
  /\ outcome = [t \in Tasks |-> "none"]
  /\ raced = {}
  /\ shifted = {}

-------------------------------------------------------------------------------
(* What commandForTask makes of a payload *)

\* log.scan reads an absent or "task" scope as operational.
ScopeOf(c) == IF c.type = "log.scan" /\ c.scope \in {"", "task"} THEN "operational" ELSE c.scope

ScopeChecked(c) == c.root /\ c.type \in {"log.scan", "shell.exec"}

\* Mutant: the scope's name is enough.
CanUseRootScope_named(s) == s \in {"operational", "task"}

\* CanUseRootScope knows two scopes, and looks at the profile on record.
CanUseRootScope(s) == s \in {"operational", "task"} /\ s \in applied

\* Reasons to refuse that come before anything is written.  Package mutations
\* check no scope: sudo does.
Malformed(c) ==
  \/ c.type = "unknown"
  \/ c.type # "shell.exec" /\ ~host.linux
  \/ c.type # "packageList" /\ ~c.valid

OutOfScope(c) ==
  /\ ScopeChecked(c)
  /\ \/ ~CanUseRootScope(ScopeOf(c))
     \/ c.type = "log.scan" /\ ScopeOf(c) # "operational"
     \/ c.type = "shell.exec" /\ c.scope = "operational" /\ c.text = "other"

\* The helper a command would be handed to.
HelperOf(c) ==
  CASE c.type = "agent.update" -> "self-update"
    [] c.type \in Mutations -> "package-mutation"
    [] c.type = "log.scan" /\ c.root -> "operational-log-scan"
    [] c.type = "shell.exec" /\ c.root /\ c.scope = "operational" ->
         IF c.text = "update" THEN "package-mutation" ELSE None
    [] c.type = "shell.exec" /\ c.root /\ c.scope # "operational" -> "task-root"
    [] OTHER -> None

\* It is handed over where the helper is installed; elsewhere it runs directly.
HandedTo(c) == IF host.linux /\ HelperOf(c) \in host.helpers THEN HelperOf(c) ELSE None

\* The tasks between the write of their request and its removal by their helper.
AtFile(h) ==
  {t \in Tasks : point[t] \in {"built", "started", "found", "read"} /\ HandedTo(cmd[t]) = h}

-------------------------------------------------------------------------------
(* Building the command *)

End(t, result) ==
  /\ point' = [point EXCEPT ![t] = "done"]
  /\ outcome' = [outcome EXCEPT ![t] = result]

\* The payload, the platform, a missing binary (apt, apt-get, reboot, systemctl)
\* or a file that cannot be written refuses the task.  A scan's temporary request
\* is there already when its scope is refused.
Reject(t, c) ==
  /\ point[t] = "waiting"
  /\ cmd' = [cmd EXCEPT ![t] = c]
  /\ temps' \in IF c.type = "log.scan" /\ ~Malformed(c) THEN {temps, temps \cup {t}} ELSE {temps}
  /\ End(t, "rejected")
  /\ UNCHANGED <<host, profile, request, taken, ran, history>>

\* Mutant: a request that is still there is kept.
Written_once(h, t) == IF h = None \/ request[h] # None THEN request ELSE [request EXCEPT ![h] = t]

\* writePackageMutationRequest, writeTaskRootRequest, writeManagedUpdateRequest
\* and writeOperationalLogScanRequest: a temporary file, renamed over the last.
Written(h, t) == IF h = None THEN request ELSE [request EXCEPT ![h] = t]

\* The command is built: it passed every check, its temporary request and its
\* request are written.
Build(t, c) ==
  LET h == HandedTo(c) IN
  /\ point[t] = "waiting"
  /\ ~Malformed(c) /\ ~OutOfScope(c)
  /\ cmd' = [cmd EXCEPT ![t] = c]
  /\ temps' = IF c.type = "log.scan" THEN temps \cup {t} ELSE temps
  /\ request' = Written(h, t)
  /\ point' = [point EXCEPT ![t] = "built"]
  /\ raced' = IF h = None \/ AtFile(h) = {} THEN raced ELSE raced \cup AtFile(h) \cup {t}
  /\ shifted' = IF granted = applied THEN shifted ELSE shifted \cup {t}
  /\ UNCHANGED <<host, profile, taken, ran, outcome>>

-------------------------------------------------------------------------------
(* Execute *)

\* cmd.Start, or the preparation of its pipes, fails.
StartFails(t) ==
  /\ point[t] = "built"
  /\ End(t, "startFailed")
  /\ UNCHANGED <<host, profile, cmd, files, taken, ran, history>>

\* The sudoers files: the base one names the update helper, the profile's the rest.
SudoAllows(h) ==
  \/ h = "self-update"
  \/ h \in {"package-mutation", "operational-log-scan"} /\ "operational" \in granted
  \/ h = "task-root" /\ "task" \in granted

\* Without a helper the command runs; a scan consumes its temporary request.
Direct(t) ==
  /\ point[t] = "built"
  /\ HandedTo(cmd[t]) = None
  /\ temps' = temps \ {t}
  /\ End(t, "ended")
  /\ UNCHANGED <<host, profile, cmd, request, taken, ran, history>>

Denied(t) ==
  /\ point[t] = "built"
  /\ HandedTo(cmd[t]) # None
  /\ host.sudo /\ ~SudoAllows(HandedTo(cmd[t]))
  /\ End(t, "denied")
  /\ UNCHANGED <<host, profile, cmd, files, taken, ran, history>>

Start(t) ==
  /\ point[t] = "built"
  /\ HandedTo(cmd[t]) # None
  /\ host.sudo => SudoAllows(HandedTo(cmd[t]))
  /\ point' = [point EXCEPT ![t] = "started"]
  /\ UNCHANGED <<host, profile, cmd, files, taken, ran, outcome, history>>

-------------------------------------------------------------------------------
(* The helpers *)

\* `[ -f REQUEST_FILE ]` in the shell helpers; `update` goes straight to the read.
Test(t) ==
  /\ point[t] = "started"
  /\ request[HandedTo(cmd[t])] # None
  /\ point' = [point EXCEPT ![t] = "found"]
  /\ UNCHANGED <<host, profile, cmd, files, taken, ran, outcome, history>>

\* The file is not there, at the test or at the read.
Missing(t) ==
  /\ point[t] \in {"started", "found"}
  /\ request[HandedTo(cmd[t])] = None
  /\ End(t, "missing")
  /\ UNCHANGED <<host, profile, cmd, files, taken, ran, history>>

\* The whole file is read: cat, the loop over its lines, LoadRequest, ReadFile.
Read(t) ==
  /\ point[t] = "found"
  /\ request[HandedTo(cmd[t])] # None
  /\ taken' = [taken EXCEPT ![t] = request[HandedTo(cmd[t])]]
  /\ point' = [point EXCEPT ![t] = "read"]
  /\ UNCHANGED <<host, profile, cmd, files, ran, outcome, history>>

\* Mutant: the request file is left in place.
Removed_kept(h) == request

\* `rm -f` and os.Remove do not mind that the file is gone.
Removed(h) == [request EXCEPT ![h] = None]

\* The file is removed, whoever's request it holds by now, and what was read is
\* carried out.
Run(t) ==
  /\ point[t] = "read"
  /\ request' = Removed(HandedTo(cmd[t]))
  /\ ran' = [ran EXCEPT ![t] = taken[t]]
  /\ End(t, "ended")
  /\ UNCHANGED <<host, profile, cmd, temps, taken, history>>

\* What was read is not acceptable to the helper, which is stricter about package
\* names; the file is removed all the same.
Refuse(t) ==
  /\ point[t] = "read"
  /\ HandedTo(cmd[t]) \in {"package-mutation", "self-update"}
  /\ request' = Removed(HandedTo(cmd[t]))
  /\ End(t, "refused")
  /\ UNCHANGED <<host, profile, cmd, temps, taken, ran, history>>

\* The deadline, a cancellation or the shutdown kills the process group, sudo until
\* it has become root.  Then the signal is not permitted: the helper goes on, and
\* the task waits for it.
KillCommand(t) ==
  /\ point[t] = "started" \/ (point[t] \in {"found", "read"} /\ ~host.sudo)
  /\ End(t, "killed")
  /\ UNCHANGED <<host, profile, cmd, files, taken, ran, history>>

-------------------------------------------------------------------------------
(* The root profile, reconciled beside the tasks: the sudoers file first *)

HostProfile(s) ==
  /\ changes < MaxChanges
  /\ applied = granted
  /\ granted' = s
  /\ changes' = changes + 1
  /\ shifted' = shifted \cup {t \in Tasks : point[t] = "built"}
  /\ UNCHANGED <<host, applied, point, cmd, files, taken, ran, outcome, raced>>

RecordProfile ==
  /\ applied # granted
  /\ applied' = granted
  /\ UNCHANGED <<host, granted, changes, point, cmd, files, taken, ran, outcome, history>>

-------------------------------------------------------------------------------
TaskStep(t) ==
  \/ \E c \in Commands : Reject(t, c) \/ Build(t, c)
  \/ StartFails(t)
  \/ Direct(t)
  \/ Denied(t)
  \/ Start(t)
  \/ Test(t)
  \/ Missing(t)
  \/ Read(t)
  \/ Run(t)
  \/ Refuse(t)
  \/ KillCommand(t)

CommandNext ==
  \/ \E t \in Tasks : TaskStep(t)
  \/ \E s \in Profiles : HostProfile(s)
  \/ RecordProfile

CommandSpec == CommandInit /\ [][CommandNext]_commandVars

-------------------------------------------------------------------------------
(* Properties *)

\* A helper finds and carries out the request of the task that started it, unless
\* another task of that helper wrote its own between this task's write and its
\* helper's removal: one fixed file per helper, and a request left behind by an
\* earlier task is always written over before it can be read (executor.go:878).
OwnRequestUnlessRaced ==
  \A t \in Tasks \ raced : ran[t] \in {None, t} /\ outcome[t] # "missing"

\* A request stays behind only when its task's helper did not come to remove it;
\* none survives a helper that ran, whoever's request that helper read.
NoOrphanRequest ==
  \A h \in Helpers, t \in Tasks :
    request[h] = t /\ point[t] = "done" => outcome[t] \in {"startFailed", "denied", "killed"}

\* sudo does not refuse what the scope check let pass, unless the profile changed
\* in between: the check looks at the agent's record, sudo at the host.
DeniedOnlyIfShifted ==
  \A t \in Tasks : outcome[t] = "denied" /\ ScopeChecked(cmd[t]) => t \in shifted

===============================================================================
