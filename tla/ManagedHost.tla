------------------------------ MODULE ManagedHost ------------------------------
(***************************************************************************)
(* The managed installation: the detached updaters of agentctl/update.go    *)
(* and the commands install and uninstall of agentctl/commands.go, on one   *)
(* host with its service.  An updater runs the binary that is installed     *)
(* when it is launched, in a systemd unit named after its target; updaters  *)
(* of two targets run at once and stage their binary under one name.       *)
(***************************************************************************)
EXTENDS FiniteSets, Naturals

CONSTANTS
  Targets,      \* rollout targets
  Versions,     \* versions an updater or an installer brings
  Old,          \* the version installed at first
  Places,       \* where the config and the state file may be: subset of {"default", "custom"}
  Faults,       \* subset of {"download", "files", "restart", "report", "kill", "service"}
  MaxRequests,  \* bound: updates, installations and removals
  MaxFaults,    \* bound: faults
  None,         \* no such file, no such process
  Broken        \* a file that is incomplete, corrupt or a mixture of versions

ASSUME VersionAssumption == Old \in Versions /\ {None, Broken} \cap Versions = {} /\ None # Broken
ASSUME TargetAssumption == None \notin Targets
ASSUME FileAssumption == None \notin {"identity", "anonymous"}
ASSUME PlaceAssumption == Places \subseteq {"default", "custom"}
ASSUME FaultAssumption ==
  Faults \subseteq {"download", "files", "restart", "report", "kill", "service"}
ASSUME BoundAssumption == MaxRequests \in Nat /\ MaxFaults \in Nat

VARIABLES
  binary,    \* the managed binary
  next,      \* the staged binary, `.next`
  helpers,   \* the privileged helpers and the base sudoers file
  unit,      \* the service: none, installed, started (and restarted when it ends)
  config,    \* the config file: None, or whether it holds an identity
  place,     \* where it is; the operator's environment names it for an installation
  path,      \* where the config file says that the state file is
  states,    \* where there is a state file, which holds an identity
  running,   \* the version the service runs, or None
  pc,        \* [Targets -> points of its updater]
  target,    \* [Targets -> Versions]: what the updater installs
  code,      \* [Targets -> Versions]: what the updater itself is
  file,      \* [Targets -> Versions or Broken or None]: its download
  last,      \* [Targets -> the last progress the platform was told]
  cmd,       \* the installation or removal under way: its next step
  brings,    \* the version an installation brings
  knows,     \* the place a removal takes the config file from
  knowsState,\* the place it takes the state file from
  requests,  \* updates, installations and removals so far
  faults,    \* faults so far
  met,       \* history: targets whose updater met another updater or a command
  silent,    \* history: targets one of whose reports was lost, or could not be made
  failed,    \* history: targets that failed or were killed after they changed files
  torn,      \* history: what a command that failed may have left half done
  crowded,   \* history: an updater was at work beside a command, the service not stopped since
  stranded   \* history: "config", "state": what a command left without anything that names it

sites == <<config, place, path, states>>
hostVars == <<binary, next, helpers, unit, sites, running>>
updaterVars == <<pc, target, code, file, last>>
args == <<brings, knows, knowsState>>
commandVars == <<cmd, args>>
history == <<met, silent, failed, torn, crowded, stranded>>
vars == <<hostVars, updaterVars, commandVars, requests, faults, history>>

Points == {"none", "starting", "fetching", "verifying", "staging", "replacing",
           "refreshing", "restarting", "waiting", "ended"}
Statuses == {"none", "downloading", "verifying", "installing", "restarting",
             "waiting_for_reconnect", "failed"}
Steps == {"idle", "config", "binary", "copying", "helpers", "start",
          "stop", "removeUnit", "removeHelpers", "removeConfig", "removeState",
          "removeDirs", "removed"}

TypeOK ==
  /\ binary \in Versions \cup {None, Broken}
  /\ next \in Versions \cup {None, Broken}
  /\ helpers \in Versions \cup {None, Broken}
  /\ unit \in {"none", "installed", "started"}
  /\ config \in {None, "identity", "anonymous"}
  /\ place \in Places /\ path \in {"default", "custom"}
  /\ states \subseteq {"default", "custom"}
  /\ running \in Versions \cup {None}
  /\ pc \in [Targets -> Points]
  /\ target \in [Targets -> Versions]
  /\ code \in [Targets -> Versions]
  /\ file \in [Targets -> Versions \cup {None, Broken}]
  /\ last \in [Targets -> Statuses]
  /\ cmd \in Steps
  /\ brings \in Versions
  /\ knows \in {"default", "custom"} /\ knowsState \in {"default", "custom"}
  /\ requests \in 0..MaxRequests
  /\ faults \in 0..MaxFaults
  /\ met \in SUBSET Targets
  /\ silent \in SUBSET Targets
  /\ failed \in SUBSET Targets
  /\ torn \subseteq {"binary", "helpers"}
  /\ crowded \in BOOLEAN
  /\ stranded \subseteq {"config", "state"}

Init ==
  /\ binary = Old /\ helpers = Old /\ running = Old
  /\ next = None
  /\ unit = "started"
  /\ config = "identity"
  /\ place \in Places /\ path \in Places
  /\ states = {path}
  /\ pc = [t \in Targets |-> "none"]
  /\ target = [t \in Targets |-> Old]
  /\ code = [t \in Targets |-> Old]
  /\ file = [t \in Targets |-> None]
  /\ last = [t \in Targets |-> "none"]
  /\ cmd = "idle"
  /\ brings = Old
  /\ knows = "default" /\ knowsState = "default"
  /\ requests = 0 /\ faults = 0
  /\ met = {} /\ silent = {} /\ failed = {}
  /\ torn = {} /\ crowded = FALSE /\ stranded = {}

-------------------------------------------------------------------------------
AtWork(t) == pc[t] \notin {"none", "ended"}
CommandRuns == cmd \notin {"idle", "removed"}
GoTo(t, point) == pc' = [pc EXCEPT ![t] = point]

Fault(kind) ==
  /\ kind \in Faults /\ faults < MaxFaults
  /\ faults' = faults + 1

\* reportManagedUpdateProgress: it reads the config file again, and a report that
\* cannot be made is logged.
Told(t, status) == last' = [last EXCEPT ![t] = status] /\ UNCHANGED <<silent, faults>>
NotTold(t) == silent' = silent \cup {t} /\ UNCHANGED last

Report(t, status) ==
  \/ config = "identity" /\ Told(t, status)
  \/ config # "identity" /\ NotTold(t) /\ UNCHANGED faults
  \/ config = "identity" /\ Fault("report") /\ NotTold(t)

\* What an error of an updater comes to: its download is removed, "failed" is
\* reported.  Nothing is put back.
Fail(t) ==
  /\ GoTo(t, "ended")
  /\ file' = [file EXCEPT ![t] = None]
  /\ failed' = IF pc[t] \in {"refreshing", "restarting", "waiting"}
               THEN failed \cup {t} ELSE failed

\* Those at work beside it.
Meeting(t) ==
  /\ met' = IF CommandRuns \/ \E u \in Targets : AtWork(u)
            THEN met \cup {t} \cup {u \in Targets : AtWork(u)} ELSE met \ {t}
  /\ crowded' = (crowded \/ CommandRuns)

-------------------------------------------------------------------------------
(* Update, in the helper the agent's task runs *)

\* launchDetachedUpdate: systemd-run starts `update --apply-now` of the managed binary.
Launch(t, v) ==
  /\ ~AtWork(t)
  /\ requests < MaxRequests
  /\ helpers # None /\ binary \in Versions
  /\ requests' = requests + 1
  /\ target' = [target EXCEPT ![t] = v]
  /\ code' = [code EXCEPT ![t] = binary]
  /\ last' = [last EXCEPT ![t] = "none"]
  /\ GoTo(t, "starting")
  /\ Meeting(t)
  /\ silent' = silent \ {t}
  /\ UNCHANGED <<hostVars, file, commandVars, faults, failed, torn, stranded>>

\* It fails, for one because a unit of that name, the target's, is running already.
LaunchFails(t) ==
  /\ requests < MaxRequests
  /\ helpers # None /\ binary \in Versions
  /\ requests' = requests + 1
  /\ Report(t, "failed")
  /\ met' = IF AtWork(t) THEN met \cup {t} ELSE met
  /\ UNCHANGED <<hostVars, pc, target, code, file, commandVars, failed, torn, crowded,
                 stranded>>

-------------------------------------------------------------------------------
(* applyManagedUpdate *)

\* Without a config file that loads and holds an identity it ends without a word.
Begin(t) ==
  /\ pc[t] = "starting"
  /\ config = "identity"
  /\ Report(t, "downloading")
  /\ GoTo(t, "fetching")
  /\ UNCHANGED <<hostVars, target, code, file, requests, commandVars, met, failed, torn,
                 crowded, stranded>>

BeginFails(t) ==
  /\ pc[t] = "starting"
  /\ config # "identity"
  /\ GoTo(t, "ended")
  /\ silent' = silent \cup {t}
  /\ UNCHANGED <<hostVars, target, code, file, last, requests, commandVars, faults, met,
                 failed, torn, crowded, stranded>>

\* The manifest, from the CDN or else GitHub, names the artifact; it is downloaded
\* under a name of its own into the install directory, which is created again if
\* it is gone.  What arrives may not be what was published.
Download(t) ==
  /\ pc[t] = "fetching"
  /\ file' \in {[file EXCEPT ![t] = f] :
                  f \in {target[t]} \cup (IF "download" \in Faults THEN {Broken} ELSE {})}
  /\ Report(t, "verifying")
  /\ GoTo(t, "verifying")
  /\ UNCHANGED <<hostVars, target, code, requests, commandVars, met, failed, torn, crowded,
                 stranded>>

DownloadFails(t) ==
  /\ pc[t] = "fetching" /\ "download" \in Faults
  /\ Fail(t)
  /\ Report(t, "failed")
  /\ UNCHANGED <<hostVars, target, code, requests, commandVars, met, torn, crowded,
                 stranded>>

\* Mutant: the checksum is not compared.
Verified_unchecked(t) == file[t] # None

\* verifyArtifactChecksum.
Verified(t) == file[t] \in Versions

Verify(t) ==
  /\ pc[t] = "verifying"
  /\ Verified(t)
  /\ Report(t, "installing")
  /\ GoTo(t, "staging")
  /\ UNCHANGED <<hostVars, target, code, file, requests, commandVars, met, failed, torn,
                 crowded, stranded>>

VerifyFails(t) ==
  /\ pc[t] = "verifying"
  /\ ~Verified(t)
  /\ Fail(t)
  /\ Report(t, "failed")
  /\ UNCHANGED <<hostVars, target, code, requests, commandVars, met, torn, crowded,
                 stranded>>

\* installReleaseArtifact: the download takes the staged name, from whatever was
\* there, if the directory still holds it ...
Stage(t) ==
  /\ pc[t] = "staging"
  /\ file[t] # None
  /\ next' = file[t]
  /\ file' = [file EXCEPT ![t] = None]
  /\ GoTo(t, "replacing")
  /\ UNCHANGED <<binary, helpers, unit, sites, running, target, code, last, requests,
                 commandVars, faults, history>>

\* ... and replaces the binary: whatever is staged by now, whoever's it is.
Replace(t) ==
  /\ pc[t] = "replacing"
  /\ next # None
  /\ binary' = next
  /\ next' = None
  /\ GoTo(t, "refreshing")
  /\ UNCHANGED <<helpers, unit, sites, running, target, code, file, last, requests,
                 commandVars, faults, history>>

\* What is to be renamed is gone.  The staged name was cleared before.
InstallFails(t) ==
  /\ \/ pc[t] = "staging" /\ file[t] = None
     \/ pc[t] = "replacing" /\ next = None
  /\ next' = None
  /\ Fail(t)
  /\ Report(t, "failed")
  /\ UNCHANGED <<binary, helpers, unit, sites, running, target, code, requests, commandVars,
                 met, torn, crowded, stranded>>

\* The symlink, the five helpers and the base sudoers file are written, as this
\* updater knows them, and the persisted root profile is applied again.
Refresh(t) ==
  /\ pc[t] = "refreshing"
  /\ helpers' = code[t]
  /\ Report(t, "restarting")
  /\ GoTo(t, "restarting")
  /\ UNCHANGED <<binary, next, unit, sites, running, target, code, file, requests,
                 commandVars, met, failed, torn, crowded, stranded>>

RefreshFails(t) ==
  /\ pc[t] = "refreshing" /\ "files" \in Faults
  /\ helpers' \in {helpers, Broken}
  /\ Fail(t)
  /\ Report(t, "failed")
  /\ UNCHANGED <<binary, next, unit, sites, running, target, code, requests, commandVars,
                 met, torn, crowded, stranded>>

\* What starts when the binary is executed.
Executable == IF binary \in Versions THEN binary ELSE None

\* Mutant: systemctl start, which leaves a service alone that runs.
Restart_start(t) ==
  /\ pc[t] = "restarting"
  /\ unit # "none"
  /\ unit' = "started"
  /\ running' = IF running = None THEN Executable ELSE running
  /\ GoTo(t, "waiting")
  /\ UNCHANGED <<binary, next, helpers, sites, target, code, file, last, requests,
                 commandVars, faults, history>>

\* systemctl restart, which also starts a service that was stopped.
Restart(t) ==
  /\ pc[t] = "restarting"
  /\ unit # "none"
  /\ unit' = "started"
  /\ running' = Executable
  /\ GoTo(t, "waiting")
  /\ UNCHANGED <<binary, next, helpers, sites, target, code, file, last, requests,
                 commandVars, faults, history>>

\* Mutant: its error is not looked at.
RestartFails_ignored(t) ==
  /\ pc[t] = "restarting"
  /\ unit = "none" \/ "restart" \in Faults
  /\ GoTo(t, "waiting")
  /\ UNCHANGED <<hostVars, target, code, file, last, requests, commandVars, faults,
                 history>>

RestartFails(t) ==
  /\ pc[t] = "restarting"
  /\ unit = "none" \/ "restart" \in Faults
  /\ Fail(t)
  /\ Report(t, "failed")
  /\ UNCHANGED <<hostVars, target, code, requests, commandVars, met, torn, crowded,
                 stranded>>

\* waitForRestartedService: is-active says so ...
Confirm(t) ==
  /\ pc[t] = "waiting"
  /\ running # None
  /\ Report(t, "waiting_for_reconnect")
  /\ GoTo(t, "ended")
  /\ UNCHANGED <<hostVars, target, code, file, requests, commandVars, met, failed, torn,
                 crowded, stranded>>

\* Mutant: the failure is reported and the wait goes on.
NotActive_patient(t) ==
  /\ pc[t] = "waiting"
  /\ running = None
  /\ Report(t, "failed")
  /\ UNCHANGED <<hostVars, pc, target, code, file, requests, commandVars, met, failed, torn,
                 crowded, stranded>>

\* ... or does not for thirty seconds.
NotActive(t) ==
  /\ pc[t] = "waiting"
  /\ running = None
  /\ Fail(t)
  /\ Report(t, "failed")
  /\ UNCHANGED <<hostVars, target, code, requests, commandVars, met, torn, crowded,
                 stranded>>

\* The updater is killed, or the host goes down.
Kill(t) ==
  /\ AtWork(t)
  /\ Fault("kill")
  /\ GoTo(t, "ended")
  /\ failed' = failed \cup {t}
  /\ silent' = silent \cup {t}
  /\ UNCHANGED <<hostVars, target, code, file, last, requests, commandVars, met, torn,
                 crowded, stranded>>

-------------------------------------------------------------------------------
(* The service *)

ServiceEnds ==
  /\ running # None
  /\ Fault("service")
  /\ running' = None
  /\ UNCHANGED <<binary, next, helpers, unit, sites, updaterVars, commandVars, requests,
                 history>>

\* Restart=always: whatever binary is there by now.
ServiceRestarts ==
  /\ unit = "started" /\ running = None
  /\ running' = Executable
  /\ UNCHANGED <<binary, next, helpers, unit, sites, updaterVars, commandVars, requests,
                 faults, history>>

-------------------------------------------------------------------------------
(* install and uninstall, one at a time, run by the operator *)

Command(step) ==
  /\ ~CommandRuns
  /\ requests < MaxRequests
  /\ requests' = requests + 1
  /\ cmd' = step
  /\ met' = met \cup {t \in Targets : AtWork(t)}
  /\ crowded' = (crowded \/ \E t \in Targets : AtWork(t))

Step(from, to) == cmd = from /\ cmd' = to

\* Install of the version that runs the command.
InstallStarts(v) ==
  /\ Command("config")
  /\ brings' = v
  /\ UNCHANGED <<hostVars, updaterVars, knows, knowsState, faults, silent, failed, torn,
                 stranded>>

\* The config file is written, without an identity and with the default place for
\* the state file.
InstallConfig ==
  /\ Step("config", "binary")
  /\ config' = "anonymous"
  /\ path' = "default"
  /\ stranded' = stranded \cup (IF "custom" \in states THEN {"state"} ELSE {})
  /\ UNCHANGED <<binary, next, helpers, unit, place, states, running, updaterVars, args,
                 requests, faults, met, silent, failed, torn, crowded>>

\* The binary is being executed, by the service or an updater.
Busy ==
  binary \in Versions /\ (running = binary \/ \E t \in Targets : AtWork(t) /\ code[t] = binary)

\* copyExecutable: the binary is truncated, unless it is being executed ...
InstallTruncate ==
  /\ Step("binary", "copying")
  /\ ~Busy
  /\ binary' = Broken
  /\ UNCHANGED <<next, helpers, unit, sites, running, updaterVars, args, requests, faults,
                 history>>

\* ... and written; the managed binary itself has nothing to copy.
InstallCopy ==
  /\ cmd \in {"binary", "copying"}
  /\ cmd = "binary" => binary = brings
  /\ cmd' = "helpers"
  /\ binary' = brings
  /\ UNCHANGED <<next, helpers, unit, sites, running, updaterVars, args, requests, faults,
                 history>>

\* The helpers, the sudoers files and the symlink; then the unit.
InstallHelpers ==
  /\ Step("helpers", "start")
  /\ helpers' = brings
  /\ unit' = IF unit = "none" THEN "installed" ELSE unit
  /\ stranded' = stranded \ {"config"}
  /\ UNCHANGED <<binary, next, sites, running, updaterVars, args, requests, faults, met,
                 silent, failed, torn, crowded>>

\* The enrollment, which leaves the config file alone where the state file holds an
\* identity, and enable --now, which leaves a service alone that runs.
InstallEnds ==
  /\ Step("start", "idle")
  /\ \/ UNCHANGED <<config, states>>
     \/ path \notin states /\ config' = "identity" /\ states' = states \cup {path}
  /\ unit' = "started"
  /\ running' = IF running = None THEN Executable ELSE running
  /\ UNCHANGED <<binary, next, helpers, place, path, updaterVars, args, requests, faults,
                 history>>

\* Mutant: the files are expected at their default places.
UninstallStarts_default ==
  /\ Command("stop")
  /\ knows' = "default" /\ knowsState' = "default"
  /\ UNCHANGED <<hostVars, updaterVars, brings, faults, silent, failed, torn, stranded>>

\* Uninstall: the unit names the config file, and that the state file; the default
\* is taken for what is not named ...
UninstallStarts ==
  /\ Command("stop")
  /\ knows' = IF unit = "none" THEN "default" ELSE place
  /\ knowsState' = IF config # None /\ knows' = place THEN path ELSE "default"
  /\ UNCHANGED <<hostVars, updaterVars, brings, faults, silent, failed, torn, stranded>>

\* ... the service is stopped and disabled ...
UninstallStop ==
  /\ Step("stop", "removeUnit")
  /\ running' = None
  /\ unit' = IF unit = "started" THEN "installed" ELSE unit
  /\ crowded' = \E t \in Targets : AtWork(t)
  /\ UNCHANGED <<binary, next, helpers, sites, updaterVars, args, requests, faults, met,
                 silent, failed, torn, stranded>>

UninstallUnit ==
  /\ Step("removeUnit", "removeHelpers")
  /\ unit' = "none"
  /\ UNCHANGED <<binary, next, helpers, sites, running, updaterVars, args, requests, faults,
                 history>>

\* ... the symlink, the helpers and the sudoers files ...
UninstallHelpers ==
  /\ Step("removeHelpers", "removeConfig")
  /\ helpers' = None
  /\ UNCHANGED <<binary, next, unit, sites, running, updaterVars, args, requests, faults,
                 history>>

\* ... the config file ...
UninstallConfig ==
  /\ Step("removeConfig", "removeState")
  /\ config' = IF knows = place THEN None ELSE config
  /\ UNCHANGED <<binary, next, helpers, unit, place, path, states, running, updaterVars,
                 args, requests, faults, history>>

\* ... the state file ...
UninstallState ==
  /\ Step("removeState", "removeDirs")
  /\ states' = states \ {knowsState}
  /\ UNCHANGED <<binary, next, helpers, unit, config, place, path, running, updaterVars,
                 args, requests, faults, history>>

\* ... and the directories, which are the default places, with everything in them.
UninstallDirs ==
  /\ Step("removeDirs", "removed")
  /\ binary' = None /\ next' = None
  /\ file' = [t \in Targets |-> None]
  /\ config' = IF place = "default" THEN None ELSE config
  /\ states' = states \ {"default"}
  /\ UNCHANGED <<helpers, unit, place, path, running, pc, target, code, last, args,
                 requests, faults, history>>

\* What the next removal will not find: a config file elsewhere when there is no
\* unit, a state file elsewhere when no config file that it finds names it.
Unnamed ==
  {f \in {"config", "state"} :
     \/ f = "config" /\ config # None /\ place # "default" /\ unit = "none"
     \/ /\ f = "state" /\ "custom" \in states
        /\ \/ config = None \/ path # "custom"
           \/ place # "default" /\ unit = "none"}

\* Any step may fail; what was done stays done.
CommandFails ==
  /\ CommandRuns
  /\ Fault("files")
  /\ cmd' = "idle"
  /\ helpers' \in {helpers} \cup
                  (IF cmd \in {"helpers", "removeHelpers"} THEN {Broken} ELSE {})
  /\ torn' = torn \cup (IF cmd = "copying" THEN {"binary"} ELSE
                       IF cmd \in {"helpers", "removeHelpers"} THEN {"helpers"} ELSE {})
  /\ stranded' = stranded \cup Unnamed
  /\ UNCHANGED <<binary, next, unit, sites, running, updaterVars, args, requests, met,
                 silent, failed, crowded>>

\* Nobody can overwrite a binary that is being executed.
InstallBusy ==
  /\ Step("binary", "idle")
  /\ Busy
  /\ stranded' = stranded \cup Unnamed
  /\ UNCHANGED <<hostVars, updaterVars, args, requests, faults, met, silent, failed, torn,
                 crowded>>

-------------------------------------------------------------------------------
Launching(t) == LaunchFails(t) \/ \E v \in Versions : Launch(t, v)

Updating(t) ==
  \/ Begin(t)
  \/ BeginFails(t)
  \/ Download(t)
  \/ DownloadFails(t)
  \/ Verify(t)
  \/ VerifyFails(t)
  \/ Stage(t)
  \/ Replace(t)
  \/ InstallFails(t)
  \/ Refresh(t)
  \/ RefreshFails(t)
  \/ Restart(t)
  \/ RestartFails(t)
  \/ Confirm(t)
  \/ NotActive(t)

CommandStep ==
  \/ InstallConfig
  \/ InstallTruncate
  \/ InstallCopy
  \/ InstallHelpers
  \/ InstallEnds
  \/ InstallBusy
  \/ UninstallStop
  \/ UninstallUnit
  \/ UninstallHelpers
  \/ UninstallConfig
  \/ UninstallState
  \/ UninstallDirs

Next ==
  \/ \E t \in Targets : Launching(t) \/ Updating(t) \/ Kill(t)
  \/ ServiceEnds
  \/ ServiceRestarts
  \/ \E v \in Versions : InstallStarts(v)
  \/ UninstallStarts
  \/ CommandStep
  \/ CommandFails

Spec == Init /\ [][Next]_vars

-------------------------------------------------------------------------------
(* Properties *)

Quiet == ~CommandRuns /\ \A t \in Targets : ~AtWork(t)

\* The managed binary and what is staged for it are always whole and verified,
\* however two updaters that share the staged name are interleaved (README.md:270-271);
\* only an installation writes it in place, and leaves it torn when it is stopped.
BinaryWhole == next # Broken /\ (binary = Broken => cmd = "copying" \/ "binary" \in torn)

\* waiting_for_reconnect is reported when the service runs the target's version,
\* unless another update or a command came in between.
ConfirmedRuns ==
  [][\A t \in Targets :
       last[t] # "waiting_for_reconnect" /\ last'[t] = "waiting_for_reconnect"
         => running = target[t] \/ t \in met]_vars

\* The service runs another binary than the one installed, or the helpers are a
\* mixture, only after an update that was reported as failed, or could not report:
\* nothing is rolled back (update.go:311-345), but it does not go unnoticed.  Except
\* for an updater beside a command, and for a command that failed half way.
MixtureReported ==
  Quiet /\ ~crowded /\ torn = {}
    => \/ running \in {None, binary} /\ helpers # Broken
       \/ \E t \in failed : last[t] = "failed" \/ t \in silent

\* Every update ends with one final report: the platform learns how it ended, unless
\* a report was lost, the updater was killed or the config file held no identity when
\* it was needed; and nothing follows, unless the target was launched once more
\* while its updater was at work, which is reported as failed and stops nobody.
Final == {"failed", "waiting_for_reconnect"}
OneFinalReport ==
  [][\A t \in Targets :
       /\ pc[t] # "ended" /\ pc'[t] = "ended" => last'[t] \in Final \/ t \in silent'
       /\ last[t] \in Final /\ last'[t] # last[t]
            => last'[t] \in {"none", "failed"} \/ t \in met]_vars

\* A removal that comes to its end leaves nothing behind, whatever failed before it,
\* unless an updater was at work beside it; but for a config or a state file that is
\* not at its default place, once an attempt that failed has removed the unit or the
\* config file that alone names it, or an installation has named another
\* (commands.go:182, 367-368, 489-499).
UninstallClean ==
  cmd = "removed" /\ ~crowded
    => /\ binary = None /\ next = None /\ helpers = None /\ unit = "none" /\ running = None
       /\ config # None => "config" \in stranded
       /\ states # {} => "state" \in stranded

===============================================================================
