----------------------------- MODULE AgentIdentity -----------------------------
(***************************************************************************)
(* The node's identity on disk and in the process: agent/enrollment.go,     *)
(* agent/identity.go, the start and the rotation handler of                 *)
(* agent/service.go, config.Load and SaveFile, and the commands of          *)
(* agentctl/commands.go that write the same files beside a running agent:   *)
(* install, bootstrap, enroll and `config set`.                             *)
(*                                                                         *)
(* The identity is kept twice, in the state file and in the config file; at *)
(* a start the config file wins.  Both are truncated and rewritten without  *)
(* a lock, and whoever writes the config file writes all of it, from the    *)
(* copy it has read.                                                        *)
(*                                                                         *)
(* The service runs as noderax, install and enroll run as root: a state     *)
(* file that root creates belongs to root (0600) and is closed to the       *)
(* service, while the config file is given to it by every command.          *)
(***************************************************************************)
EXTENDS Naturals

CONSTANTS
  Fresh,      \* whether to consider a host without an installation, too
  Faults,     \* subset of {"write", "crash", "install"}
  MaxTokens,  \* bound: agent tokens the platform issues
  MaxCommands,\* bound: commands run on the host
  MaxFaults,  \* bound: faults
  Home,       \* the path of the state file that an installation writes down
  Elsewhere,  \* another one, set by `config set state_file`
  Absent,     \* the file does not exist
  Torn        \* the file was truncated and not written: it does not decode

ASSUME FreshAssumption == Fresh \subseteq BOOLEAN
ASSUME FaultAssumption == Faults \subseteq {"write", "crash", "install"}
ASSUME BoundAssumption == MaxTokens \in Nat \ {0} /\ MaxCommands \in Nat /\ MaxFaults \in Nat
Tokens == 1..MaxTokens
NoToken == 0

Paths == {Home, Elsewhere}

ASSUME PathAssumption == Home # Elsewhere

\* What the config file says that matters here: the agent's token, the enrollment
\* token, the state file's path, request_timeout ("low": not above the poll
\* interval), and how many times the rest was set.
Config == [token : 0..MaxTokens, enroll : {"none", "request", "bootstrap"}, path : Paths,
           setting : 0..MaxCommands, timeout : {"default", "low", "raised"}]

ASSUME FileAssumption == Absent # Torn /\ {Absent, Torn} \cap (Tokens \cup Config) = {}

VARIABLES
  config,      \* Config, Absent or Torn
  state,       \* [Paths -> a token, Absent or Torn]
  rootOwned,   \* the state files that belong to root
  unit,        \* the service: none, installed, started (and restarted when it ends)
  pc,          \* ["agent", "command" -> points]
  cfg,         \* [.. -> Config]: the copy of the config file each has read
  new,         \* [.. -> 0..MaxTokens]: the token each is about to persist
  used,        \* the token the agent uses, NoToken when it has none
  commands,    \* commands run so far
  issued,      \* the platform's newest token
  accepted,    \* the tokens it accepts
  request,     \* the enrollment: none, pending, approved, rejected
  invitation,  \* the bootstrap token: unused, used
  granted,     \* the token an approved enrollment carries
  faults,      \* faults so far
  wanted,      \* history: the setting that was written last by a command
  unapplied,   \* history: the agent has not been started since
  hurt         \* history: what went wrong with the files

files == <<config, state, rootOwned, unit>>
platform == <<issued, accepted, request, invitation, granted>>
procs == <<pc, cfg, new, used, commands>>
history == <<wanted, unapplied, hurt>>
vars == <<files, procs, platform, faults, history>>

Procs == {"agent", "command"}
AgentPoints == {"down", "loaded", "polling", "saving", "configuring", "using", "up"}
CommandPoints == {"idle", "setting", "restarting", "installing", "checking", "bootstrapping",
                  "consuming", "initiating", "polling", "saving", "configuring", "starting"}
Hurts == {"configFailed", "olderWritten", "clobbered", "defaulted", "edited"}

\* What a start makes of the settings: normalize raises a low request_timeout.
Raised(timeout) == IF timeout = "low" THEN "raised" ELSE timeout
Effect(c) == [setting |-> c.setting, timeout |-> Raised(c.timeout)]

TypeOK ==
  /\ config \in Config \cup {Absent, Torn}
  /\ state \in [Paths -> Tokens \cup {Absent, Torn}]
  /\ rootOwned \subseteq Paths
  /\ unit \in {"none", "installed", "started"}
  /\ pc \in [Procs -> AgentPoints \cup CommandPoints]
  /\ pc["agent"] \in AgentPoints /\ pc["command"] \in CommandPoints
  /\ cfg \in [Procs -> Config]
  /\ new \in [Procs -> 0..MaxTokens]
  /\ used \in 0..MaxTokens
  /\ commands \in 0..MaxCommands
  /\ issued \in 0..MaxTokens
  /\ accepted \in SUBSET Tokens
  /\ request \in {"none", "pending", "approved", "rejected"}
  /\ invitation \in {"unused", "used"}
  /\ granted \in 0..MaxTokens
  /\ faults \in 0..MaxFaults
  /\ wanted \in [setting : 0..MaxCommands, timeout : {"default", "raised"}]
  /\ unapplied \in BOOLEAN
  /\ hurt \in SUBSET Hurts

DefaultConfig ==
  [token |-> NoToken, enroll |-> "none", path |-> Home, setting |-> 0, timeout |-> "default"]

\* A fresh host, or one whose agent was enrolled with token 1, by root or by the
\* service, and is down.
Init ==
  \E fresh \in Fresh :
    /\ config = IF fresh THEN Absent ELSE [DefaultConfig EXCEPT !.token = 1]
    /\ state = [path \in Paths |-> IF path = Home /\ ~fresh THEN 1 ELSE Absent]
    /\ rootOwned \in {{}, IF fresh THEN {} ELSE {Home}}
    /\ unit = IF fresh THEN "none" ELSE "started"
    /\ issued = IF fresh THEN 0 ELSE 1
    /\ accepted = IF fresh THEN {} ELSE {1}
    /\ pc = [p \in Procs |-> IF p = "agent" THEN "down" ELSE "idle"]
    /\ cfg = [p \in Procs |-> DefaultConfig]
    /\ new = [p \in Procs |-> NoToken]
    /\ used = NoToken
    /\ commands = 0
    /\ request = "none"
    /\ invitation = "unused"
    /\ granted = NoToken
    /\ faults = 0
    /\ wanted = Effect(DefaultConfig)
    /\ unapplied = FALSE
    /\ hurt = {}

-------------------------------------------------------------------------------
Written(f) == f \notin {Absent, Torn}

GoTo(p, point) == pc' = [pc EXCEPT ![p] = point]

Ended(p) == IF p = "agent" THEN "down" ELSE "idle"

-------------------------------------------------------------------------------
(* The start of the agent *)

\* Mutant: the default is loaded for a low timeout.
Normalized_default(c) == [c EXCEPT !.timeout = IF @ = "low" THEN "default" ELSE @]

\* mergeConfigFile and normalize: what is read is not what is written.
Normalized(c) == [c EXCEPT !.timeout = Raised(@)]

\* config.Load.  A file that is missing or does not decode ends the process.
Load ==
  /\ unit = "started"
  /\ pc["agent"] = "down"
  /\ Written(config)
  /\ cfg' = [cfg EXCEPT !["agent"] = Normalized(config)]
  /\ GoTo("agent", "loaded")
  /\ unapplied' = FALSE
  /\ UNCHANGED <<files, new, used, commands, platform, faults, wanted, hurt>>

\* store.Load by the service; root reads every file that decodes.
Readable(path) == state[path] \in Tokens /\ path \notin rootOwned

\* bootstrapIdentity: the config file's identity, else the state file's, else the
\* enrollment; a state file that cannot be read or decoded ends the process.
StoredIdentity(c) ==
  IF c.token # NoToken THEN c.token ELSE IF Readable(c.path) THEN state[c.path] ELSE NoToken

UseStored ==
  /\ pc["agent"] = "loaded"
  /\ StoredIdentity(cfg["agent"]) # NoToken
  /\ used' = StoredIdentity(cfg["agent"])
  /\ GoTo("agent", "up")
  /\ UNCHANGED <<files, cfg, new, commands, platform, faults, history>>

CompleteEnrollment ==
  /\ pc["agent"] = "loaded"
  /\ cfg["agent"].token = NoToken /\ state[cfg["agent"].path] = Absent
  /\ cfg["agent"].enroll # "none"
  /\ GoTo("agent", "polling")
  /\ UNCHANGED <<files, cfg, new, used, commands, platform, faults, history>>

NoIdentity ==
  /\ pc["agent"] = "loaded"
  /\ StoredIdentity(cfg["agent"]) = NoToken
  /\ state[cfg["agent"].path] = Absent => cfg["agent"].enroll = "none"
  /\ GoTo("agent", "down")
  /\ UNCHANGED <<files, cfg, new, used, commands, platform, faults, history>>

-------------------------------------------------------------------------------
(* waitForEnrollmentApproval, by the agent or by a command *)

\* The platform knows an enrollment token of RunInteractiveEnrollment; of a
\* bootstrap token a poll is an error, which is tried again.
Approved(p) ==
  /\ pc[p] = "polling"
  /\ cfg[p].enroll = "request" /\ request = "approved"
  /\ new' = [new EXCEPT ![p] = granted]
  /\ GoTo(p, "saving")
  /\ UNCHANGED <<files, cfg, used, commands, platform, faults, history>>

\* Revoked, rejected, expired or unknown; or ten minutes have passed, or the
\* process is told to stop.
NotApproved(p) ==
  /\ pc[p] = "polling"
  /\ GoTo(p, Ended(p))
  /\ UNCHANGED <<files, cfg, new, used, commands, platform, faults, history>>

-------------------------------------------------------------------------------
(* persistIdentity, by the agent or by a command *)

\* A process may write a token when there is a newer one: it got its own a moment
\* ago, and the other process has gone on.
Older(t) == \E u \in accepted : u > t

\* Mutant: only the config file gets the identity.
SaveState_skipped(p) ==
  /\ pc[p] = "saving"
  /\ GoTo(p, "configuring")
  /\ UNCHANGED <<files, cfg, new, used, commands, platform, faults, history>>

\* The interactive enrollment runs as root, the agent and `bootstrap` as noderax.
AsRoot(p) == p = "command" /\ cfg[p].enroll # "bootstrap"

\* Whose the state files are when a process has opened its own for writing.
Owned(p) ==
  IF AsRoot(p) /\ state[cfg[p].path] = Absent THEN rootOwned \cup {cfg[p].path} ELSE rootOwned

Denied(p) == cfg[p].path \in rootOwned /\ ~AsRoot(p)

\* store.Save.
SaveState(p) ==
  /\ pc[p] = "saving" /\ ~Denied(p)
  /\ state' = [state EXCEPT ![cfg[p].path] = new[p]]
  /\ rootOwned' = Owned(p)
  /\ GoTo(p, "configuring")
  /\ hurt' = IF Older(new[p]) THEN hurt \cup {"olderWritten"} ELSE hurt
  /\ UNCHANGED <<config, unit, cfg, new, used, commands, platform, faults, wanted, unapplied>>

\* An enrollment whose identity cannot be saved ends, a rotation is given up.
NotSaved(p) == GoTo(p, IF p = "agent" /\ used # NoToken THEN "up" ELSE Ended(p))

\* store.Save is not permitted to open the file ...
SaveDenied(p) ==
  /\ pc[p] = "saving" /\ Denied(p)
  /\ NotSaved(p)
  /\ UNCHANGED <<files, cfg, new, used, commands, platform, faults, history>>

\* ... or fails, before or after it has truncated it.
StateFails(p) ==
  /\ "write" \in Faults /\ faults < MaxFaults
  /\ pc[p] = "saving" /\ ~Denied(p)
  /\ \/ UNCHANGED <<state, rootOwned>>
     \/ state' = [state EXCEPT ![cfg[p].path] = Torn] /\ rootOwned' = Owned(p)
  /\ NotSaved(p)
  /\ faults' = faults + 1
  /\ UNCHANGED <<config, unit, cfg, new, used, commands, platform, history>>

\* Mutant: the persisted identity is not installed.
AfterConfig_unused(p) == IF p = "agent" THEN "up" ELSE "starting"

AfterConfig(p) == IF p = "agent" THEN "using" ELSE "starting"

\* Mutant: the config file keeps the old identity.
Persisted_old(p) == [cfg[p] EXCEPT !.enroll = "none"]

\* Mutant: the rest of the configuration is written as it is by default.
Persisted_default(p) == [DefaultConfig EXCEPT !.token = new[p]]

\* The whole configuration as the process has read it, with the new identity and
\* without the enrollment token.
Persisted(p) == [cfg[p] EXCEPT !.token = new[p], !.enroll = "none"]

\* config.SaveFile.
SaveConfig(p) ==
  /\ pc[p] = "configuring"
  /\ config' = Persisted(p)
  /\ GoTo(p, AfterConfig(p))
  /\ hurt' = (IF Older(new[p]) THEN hurt \cup {"olderWritten"}
              ELSE IF p = "agent" /\ state[cfg[p].path] = new[p]
                   THEN hurt \ {"configFailed", "olderWritten"} ELSE hurt)
             \cup (IF p = "agent" /\ unapplied THEN {"clobbered"} ELSE {})
  /\ UNCHANGED <<state, rootOwned, unit, cfg, new, used, commands, platform, faults, wanted,
                 unapplied>>

\* Its failure is logged, and the identity used all the same.
ConfigFails(p) ==
  /\ "write" \in Faults /\ faults < MaxFaults
  /\ pc[p] = "configuring"
  /\ config' \in {config, Torn}
  /\ GoTo(p, AfterConfig(p))
  /\ faults' = faults + 1
  /\ hurt' = hurt \cup {"configFailed"}
  /\ UNCHANGED <<state, rootOwned, unit, cfg, new, used, commands, platform, wanted, unapplied>>

\* identity.Set and client.SetAgentToken.
Use ==
  /\ pc["agent"] = "using"
  /\ used' = new["agent"]
  /\ GoTo("agent", "up")
  /\ UNCHANGED <<files, cfg, new, commands, platform, faults, history>>

-------------------------------------------------------------------------------
(* The platform *)

\* agent.auth with a token retires the older ones.
Authenticate ==
  /\ pc["agent"] = "up"
  /\ used \in accepted
  /\ accepted' = {t \in accepted : t >= used}
  /\ accepted' # accepted
  /\ UNCHANGED <<files, procs, issued, request, invitation, granted, faults, history>>

\* agent.token.rotate: a newer token is staged, and its handler runs.
Rotate ==
  /\ pc["agent"] = "up"
  /\ used \in accepted
  /\ issued < MaxTokens
  /\ issued' = issued + 1
  /\ accepted' = accepted \cup {issued + 1}
  /\ new' = [new EXCEPT !["agent"] = issued + 1]
  /\ GoTo("agent", "saving")
  /\ UNCHANGED <<files, cfg, used, commands, request, invitation, granted, faults, history>>

\* The operator approves the enrollment, or not.
Decide ==
  /\ request = "pending"
  /\ issued < MaxTokens
  /\ \/ /\ request' = "approved"
        /\ issued' = issued + 1
        /\ granted' = issued + 1
        /\ accepted' = accepted \cup {issued + 1}
     \/ /\ request' = "rejected"
        /\ UNCHANGED <<issued, granted, accepted>>
  /\ UNCHANGED <<files, procs, invitation, faults, history>>

-------------------------------------------------------------------------------
(* Commands on the host, one at a time *)

Begin(point, copy) ==
  /\ pc["command"] = "idle"
  /\ commands < MaxCommands
  /\ commands' = commands + 1
  /\ cfg' = [cfg EXCEPT !["command"] = copy]
  /\ GoTo("command", point)

\* applyConfigValue, for the keys that matter: agent_token (or node_id: without
\* either there is no identity), enrollment_token, state_file, request_timeout and
\* the rest.
Edited(c) ==
  {[c EXCEPT !.setting = commands + 1], [c EXCEPT !.timeout = "low"]}
  \cup {[c EXCEPT !.token = t] : t \in accepted \cup {NoToken}}
  \cup {[c EXCEPT !.enroll = e] : e \in {"none", "bootstrap"}}
  \cup {[c EXCEPT !.path = path] : path \in Paths}

\* `config set`: loadManagedConfig, applyConfigValue and Validate.  An identity that
\* is written in by hand, and a state file that is moved, are the operator's own.
SetLoad ==
  /\ Written(config)
  /\ \E next \in Edited(Normalized(config)) :
       /\ Begin("setting", next)
       /\ hurt' = IF next.token \in {NoToken, config.token} /\ next.path = Home
                  THEN hurt ELSE hurt \cup {"edited"}
  /\ UNCHANGED <<files, new, used, platform, faults, wanted, unapplied>>

\* ... config.SaveFile ...
SetSave ==
  /\ pc["command"] = "setting"
  /\ config' = cfg["command"]
  /\ wanted' = Effect(cfg["command"])
  /\ unapplied' = TRUE
  /\ hurt' = (hurt \ {"clobbered", "defaulted"})
       \cup (IF cfg["command"].token # NoToken /\ Older(cfg["command"].token)
             THEN {"olderWritten"} ELSE {})
  /\ GoTo("command", IF unit = "none" THEN "idle" ELSE "restarting")
  /\ UNCHANGED <<state, rootOwned, unit, cfg, new, used, commands, platform, faults>>

\* ... and systemctl restart, whatever the agent is doing.
SetRestart ==
  /\ pc["command"] = "restarting"
  /\ pc' = [pc EXCEPT !["agent"] = "down", !["command"] = "idle"]
  /\ used' = NoToken
  /\ unit' = "started"
  /\ UNCHANGED <<config, state, rootOwned, cfg, new, commands, platform, faults, history>>

\* install.sh gives the state directory back to noderax before it goes on.
Chown ==
  /\ pc["command"] = "idle"
  /\ Home \in rootOwned
  /\ rootOwned' = rootOwned \ {Home}
  /\ UNCHANGED <<config, state, unit, procs, platform, faults, history>>

\* loadManagedConfig, or the defaults when the file is missing or does not decode.
Existing == IF Written(config) THEN Normalized(config) ELSE DefaultConfig

\* `install`: the settings of the last installation where there is one, without
\* its identity, with the state file in its place and the bootstrap token if one
\* was given; the file is then given to noderax ...
InstallSave(enroll) ==
  LET next == [Existing EXCEPT !.token = NoToken, !.enroll = enroll, !.path = Home,
                               !.setting = commands + 1]
  IN
  /\ Begin("installing", next)
  /\ config' = next
  /\ wanted' = Effect(next)
  /\ unapplied' = TRUE
  /\ hurt' = hurt \ {"clobbered", "defaulted"}
  /\ UNCHANGED <<state, rootOwned, unit, new, used, platform, faults>>

\* ... then the binary, the helpers, the sudoers files and the unit ...
InstallUnit ==
  /\ pc["command"] = "installing"
  /\ unit' = IF unit = "none" THEN "installed" ELSE unit
  /\ GoTo("command", IF cfg["command"].enroll = "bootstrap" THEN "bootstrapping" ELSE "checking")
  /\ UNCHANGED <<config, state, rootOwned, cfg, new, used, commands, platform, faults, history>>

\* ... one of which fails: the binary of a running agent cannot be overwritten.
\* What was written stays.
InstallFails ==
  /\ "install" \in Faults /\ faults < MaxFaults
  /\ pc["command"] = "installing"
  /\ faults' = faults + 1
  /\ GoTo("command", "idle")
  /\ UNCHANGED <<files, cfg, new, used, commands, platform, history>>

\* `bootstrap`, run as noderax: what is in the config file by now, or the defaults,
\* is written again without identity and with what the installation passes on; a
\* host with an identity in the state file is left at that.
Bootstrap ==
  LET next == [Existing EXCEPT !.token = NoToken, !.enroll = "bootstrap",
                               !.path = cfg["command"].path,
                               !.setting = cfg["command"].setting]
  IN
  /\ pc["command"] = "bootstrapping"
  /\ config' = next
  /\ cfg' = [cfg EXCEPT !["command"] = next]
  /\ hurt' = IF Written(config) THEN hurt ELSE hurt \cup {"defaulted"}
  /\ GoTo("command", IF Readable(next.path) THEN "starting"
                     ELSE IF state[next.path] = Absent THEN "consuming" ELSE "idle")
  /\ UNCHANGED <<state, rootOwned, unit, new, used, commands, platform, faults, wanted, unapplied>>

\* ConsumeNodeInstall: the platform takes a bootstrap token once.
Consume ==
  /\ pc["command"] = "consuming"
  /\ invitation = "unused" /\ issued < MaxTokens
  /\ invitation' = "used"
  /\ issued' = issued + 1
  /\ accepted' = accepted \cup {issued + 1}
  /\ new' = [new EXCEPT !["command"] = issued + 1]
  /\ GoTo("command", "saving")
  /\ UNCHANGED <<files, cfg, used, commands, request, granted, faults, history>>

ConsumeFails ==
  /\ pc["command"] = "consuming"
  /\ GoTo("command", "idle")
  /\ UNCHANGED <<files, cfg, new, used, commands, platform, faults, history>>

\* `enroll`, alone or at the end of an installation: a host with an identity is
\* left as it is, a state file that does not decode ends the command.
Enroll ==
  /\ Written(config)
  /\ Begin("checking", Normalized(config))
  /\ UNCHANGED <<files, new, used, platform, faults, history>>

Check ==
  /\ pc["command"] = "checking"
  /\ GoTo("command", IF state[cfg["command"].path] \in Tokens THEN "starting"
                     ELSE IF state[cfg["command"].path] = Absent THEN "initiating" ELSE "idle")
  /\ UNCHANGED <<files, cfg, new, used, commands, platform, faults, history>>

\* InitiateEnrollment, and the pending token is saved in the config file, where a
\* restarted agent finds it.
Initiate ==
  /\ pc["command"] = "initiating"
  /\ request = "none"
  /\ request' = "pending"
  /\ cfg' = [cfg EXCEPT !["command"].enroll = "request"]
  /\ config' = cfg'["command"]
  /\ GoTo("command", "polling")
  /\ UNCHANGED <<state, rootOwned, unit, new, used, commands, issued, accepted, invitation, granted,
                 faults, history>>

InitiateFails ==
  /\ pc["command"] = "initiating"
  /\ GoTo("command", "idle")
  /\ UNCHANGED <<files, cfg, new, used, commands, platform, faults, history>>

\* systemctl enable --now: it starts an agent that is down and leaves one that runs.
\* `enroll` alone enables nothing.
StartService ==
  /\ pc["command"] = "starting"
  /\ unit' \in {unit, IF unit = "none" THEN unit ELSE "started"}
  /\ GoTo("command", "idle")
  /\ UNCHANGED <<config, state, rootOwned, cfg, new, used, commands, platform, faults, history>>

\* `start`.
ServiceAction ==
  /\ pc["command"] = "idle"
  /\ unit = "installed"
  /\ unit' = "started"
  /\ UNCHANGED <<config, state, rootOwned, procs, platform, faults, history>>

-------------------------------------------------------------------------------
\* Where the config file is written: at the end of the step, or in its next one.
Writing == {"configuring", "setting", "installing", "bootstrapping", "initiating"}

\* The agent or a command ends, perhaps between the truncation of a file and its
\* write.
Crash(p) ==
  /\ "crash" \in Faults /\ faults < MaxFaults
  /\ pc[p] \notin {"down", "idle"}
  /\ faults' = faults + 1
  /\ \/ UNCHANGED <<state, rootOwned>>
     \/ /\ pc[p] = "saving" /\ ~Denied(p)
        /\ state' = [state EXCEPT ![cfg[p].path] = Torn] /\ rootOwned' = Owned(p)
  /\ config' \in IF pc[p] \in Writing THEN {config, Torn} ELSE {config}
  /\ GoTo(p, Ended(p))
  /\ used' = IF p = "agent" THEN NoToken ELSE used
  /\ hurt' = IF pc[p] = "configuring" THEN hurt \cup {"configFailed"} ELSE hurt
  /\ UNCHANGED <<unit, cfg, new, commands, platform, wanted, unapplied>>

AgentStep == Load \/ UseStored \/ CompleteEnrollment \/ NoIdentity \/ Use \/ Authenticate

Persist(p) ==
  \/ Approved(p)
  \/ NotApproved(p)
  \/ SaveState(p)
  \/ SaveDenied(p)
  \/ SaveConfig(p)

CommandStep ==
  \/ SetSave
  \/ SetRestart
  \/ InstallUnit
  \/ Bootstrap
  \/ Consume
  \/ ConsumeFails
  \/ Check
  \/ Initiate
  \/ InitiateFails
  \/ StartService

Fault ==
  \/ InstallFails
  \/ \E p \in Procs : StateFails(p) \/ ConfigFails(p) \/ Crash(p)

Next ==
  \/ AgentStep
  \/ \E p \in Procs : Persist(p)
  \/ CommandStep
  \/ SetLoad
  \/ Chown
  \/ \E enroll \in {"none", "bootstrap"} : InstallSave(enroll)
  \/ Enroll
  \/ ServiceAction
  \/ Rotate
  \/ Decide
  \/ Fault

Spec == Init /\ [][Next]_vars

\* systemd starts the agent again and again (Restart=always); started, it goes on,
\* and so does a command.  While an enrollment is polled for, every five seconds
\* for ten minutes, some poll is answered.
FairSpec ==
  /\ Spec
  /\ WF_vars(AgentStep)
  /\ WF_vars(CommandStep)
  /\ \A p \in Procs : WF_vars(Persist(p))
  /\ SF_vars(Approved("agent"))

-------------------------------------------------------------------------------
(* Properties *)

\* What a start would use now.
RestartToken == IF Written(config) THEN StoredIdentity(config) ELSE NoToken

\* A config file that could not be rewritten after the state file, or was written
\* by a command from a copy that the agent had overtaken meanwhile; or the operator
\* has written an identity in or moved the state file.
OldOnFile == hurt \cap {"configFailed", "olderWritten", "edited"} # {}

\* Whenever the agent ends, the identity it finds again is one that the platform
\* accepts: the staged token is on both files before it is used and the older one
\* retired (agent/service.go:162-173), whatever else is written meanwhile.
RestartAccepted == RestartToken # NoToken => RestartToken \in accepted \/ OldOnFile

\* The token a running agent authenticates with is accepted: only its own use of a
\* newer one retires a token, and what it starts with, or has polled for while the
\* commands went on, is on disk before it counts (agent/service.go:162-173, 332-347).
RunningAccepted == pc["agent"] = "up" => used \in accepted \/ OldOnFile

\* An agent that has an identity finds one again: it is in the state file before
\* a command clears the config file's.  Only three things lose it: a failed or
\* interrupted write, a state file that root has created and the service cannot
\* read (identity.go:66, 87), and an operator who moves the state file.
IdentityKept ==
  used # NoToken =>
    \/ RestartToken # NoToken
    \/ Torn \in {config, state[Home]}
    \/ Home \in rootOwned
    \/ "edited" \in hurt

\* What the agent would run with stays what the last command made it, through
\* rotations and enrollments that write the whole file back with a raised timeout:
\* unless the agent wrote it before it was started again with that setting
\* (enrollment.go:323), or `bootstrap` found a file that does not decode and took
\* the defaults (commands.go:310).
SettingKept ==
  Written(config) /\ hurt \cap {"clobbered", "defaulted"} = {} => Effect(config) = wanted

\* A host that is enrolled, so that the service can read it, or whose enrollment was
\* approved, serves in the end: whatever commands, rotations, failures and crashes
\* came before, as long as the files decode and hold the newest token.
Enrolled ==
  \/ RestartToken # NoToken
  \/ /\ Written(config) /\ state[config.path] = Absent
     /\ config.enroll = "request" /\ request = "approved"
Serves ==
  <>[](unit = "started" /\ Enrolled /\ config # Torn /\ state[Home] # Torn /\ ~OldOnFile
         => pc["agent"] = "up" /\ used \in accepted)

===============================================================================
