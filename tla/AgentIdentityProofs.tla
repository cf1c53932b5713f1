------------------------- MODULE AgentIdentityProofs -------------------------
(****************************************************************************)
(* Proofs about AgentIdentity, for any number of tokens, commands and       *)
(* faults: an agent that restarts on what it left on disk is accepted, what *)
(* can lose the identity the platform granted, and that what the agent runs *)
(* with survives every command and every save.                              *)
(****************************************************************************)
EXTENDS AgentIdentity, TLAPS

-------------------------------------------------------------------------------
(* The inductive invariant *)

\* No token anywhere is newer than the platform's newest, which nothing has retired.
Bounded ==
  /\ accepted \subseteq 1..issued
  /\ issued # NoToken => issued \in accepted
  /\ used <= issued /\ granted <= issued
  /\ \A p \in Procs : new[p] <= issued /\ cfg[p].token <= issued
  /\ Written(config) => config.token <= issued
  /\ \A path \in Paths : state[path] \in Tokens => state[path] <= issued

\* A process that persists has a token to persist, an approval carries one, and the
\* agent uses none before it has been through its start.
Granted ==
  /\ \A p \in Procs : pc[p] \in {"saving", "configuring", "using"} => new[p] # NoToken
  /\ request = "approved" => granted # NoToken
  /\ pc["agent"] \in {"down", "loaded", "polling"} => used = NoToken

Unedited == "edited" \notin hurt

\* As long as the operator leaves the identity and its place alone, every copy has
\* the state file where an installation puts it.
InPlace ==
  Unedited => /\ Written(config) => config.path = Home
              /\ \A p \in Procs : cfg[p].path = Home

\* Nobody has a token before the state file exists, and nothing goes on on a host
\* without a config file.
NotYet ==
  /\ Unedited /\ state[Home] = Absent =>
       /\ used = NoToken
       /\ Written(config) => config.token = NoToken
       /\ \A p \in Procs : pc[p] \notin {"configuring", "using"} /\ cfg[p].token = NoToken
  /\ config = Absent => pc["agent"] = "down" /\ pc["command"] = "idle" /\ unit = "none"

Enrolling == pc["command"] \in {"consuming", "initiating", "polling", "saving"}

\* A command enrolls from a copy without identity, and the config file has none
\* either, as long as the agent has not found one.
NewHost ==
  Unedited /\ Enrolling =>
    /\ cfg["command"].token = NoToken
    /\ pc["agent"] = "loaded" /\ cfg["agent"].token = NoToken /\ Written(config)
         => config.token = NoToken

\* A running agent's copy of the config file has the settings that were written last,
\* unless they were written since; a command's has them from the write on.
Copies ==
  hurt \cap {"clobbered", "defaulted"} = {} =>
    /\ pc["agent"] # "down" /\ ~unapplied => Effect(cfg["agent"]) = wanted
    /\ pc["command"] \notin {"idle", "setting"} => Effect(cfg["command"]) = wanted

\* What the files hold for a start, whether or not the service may read it: an owner
\* can be changed at any time.
OnFile(c) ==
  IF c.token # NoToken THEN c.token ELSE IF state[c.path] \in Tokens THEN state[c.path] ELSE NoToken

\* A token that can replace the ones in use: it is accepted, and so it stays when the
\* agent authenticates with any token it uses or is about to use.
Outlasts(t) ==
  /\ t \in accepted
  /\ used \in accepted => t >= used
  /\ pc["agent"] = "loaded" /\ OnFile(cfg["agent"]) \in accepted => t >= OnFile(cfg["agent"])
  /\ pc["agent"] = "using" /\ new["agent"] \in accepted => t >= new["agent"]

\* Both files outlast what is in use, and the state file, which is written first, is
\* never behind the config file or a copy that is still to be written to it.
Newest ==
  ~OldOnFile =>
    /\ state[Home] \in Tokens => Outlasts(state[Home])
    /\ Written(config) /\ config.token # NoToken
         => Outlasts(config.token) /\ (state[Home] \in Tokens => state[Home] >= config.token)
    /\ state[Home] \in Tokens =>
         /\ \A p \in Procs : pc[p] = "configuring" => state[Home] >= new[p]
         /\ pc["command"] = "setting" => state[Home] >= cfg["command"].token

\* Before there is an identity, and while the agent still polls for one, nothing has
\* been retired.
Unretired == Unedited /\ (state[Home] = Absent \/ pc["agent"] = "polling") => accepted = 1..issued

\* What the agent uses or is about to use is accepted, and so is what it starts with
\* unless an old configuration was left behind.
InUse ==
  /\ pc["agent"] \in {"saving", "configuring", "using"} => new["agent"] \in accepted \/ OldOnFile
  /\ pc["agent"] \in {"saving", "configuring"} /\ used # NoToken => used \in accepted
  /\ pc["agent"] = "loaded" /\ OnFile(cfg["agent"]) # NoToken
       => OnFile(cfg["agent"]) \in accepted \/ OldOnFile
  /\ RunningAccepted

\* The parts, with the type invariant and the settings' history.
IInv ==
  /\ TypeOK /\ Bounded /\ Granted /\ InPlace /\ NotYet /\ NewHost /\ Copies /\ SettingKept
  /\ Newest /\ Unretired /\ InUse

-------------------------------------------------------------------------------
(* What a write makes of the files *)

\* The marks for a missing and for a torn file are no contents.
LEMMA Markers ==
  /\ Absent # Torn
  /\ \A t \in Tokens : t # Absent /\ t # Torn
  /\ \A c \in Config : c # Absent /\ c # Torn
  /\ Tokens = (0..MaxTokens) \ {NoToken}
  /\ Home \in Paths
  BY FileAssumption, BoundAssumption DEF Tokens, NoToken, Paths

\* A configuration's fields, and what a start makes of its settings.
LEMMA Fields ==
  \A c \in Config :
    /\ c.token \in 0..MaxTokens
    /\ c.enroll \in {"none", "request", "bootstrap"}
    /\ c.path \in Paths
    /\ c.setting \in 0..MaxCommands
    /\ Effect(c) \in [setting : 0..MaxCommands, timeout : {"default", "raised"}]
  BY DEF Config, Effect, Raised

\* persistIdentity writes a token and an enrollment token ...
LEMMA Rewritten ==
  ASSUME NEW c \in Config, NEW t \in 0..MaxTokens,
         NEW e \in {"none", "request", "bootstrap"}
  PROVE  /\ [c EXCEPT !.token = t, !.enroll = e] \in Config
         /\ [c EXCEPT !.token = t, !.enroll = e].token = t
         /\ [c EXCEPT !.token = t, !.enroll = e].path = c.path
         /\ Effect([c EXCEPT !.token = t, !.enroll = e]) = Effect(c)
  BY DEF Config, Effect

\* ... and `enroll` the enrollment token alone.
LEMMA Invited ==
  ASSUME NEW c \in Config, NEW e \in {"none", "request", "bootstrap"}
  PROVE  /\ [c EXCEPT !.enroll = e] \in Config
         /\ [c EXCEPT !.enroll = e].token = c.token
         /\ [c EXCEPT !.enroll = e].path = c.path
         /\ Effect([c EXCEPT !.enroll = e]) = Effect(c)
  BY DEF Config, Effect

\* Reading raises a low timeout and changes nothing else: a start makes the same of
\* what was read as of what was written.
LEMMA Read ==
  ASSUME NEW c \in Config
  PROVE  /\ Normalized(c) \in Config
         /\ Normalized(c).token = c.token /\ Normalized(c).path = c.path
         /\ Effect(Normalized(c)) = Effect(c)
  BY DEF Config, Effect, Normalized, Raised

\* The configuration of a host that has none.
LEMMA Default ==
  DefaultConfig \in Config /\ DefaultConfig.token = NoToken /\ DefaultConfig.path = Home
  BY BoundAssumption, Markers DEF Config, DefaultConfig, NoToken

\* What an installation and a bootstrap start from.
LEMMA Start ==
  ASSUME TypeOK
  PROVE  /\ Existing \in Config
         /\ Written(config) => Effect(Existing) = Effect(config)
  BY Default, Read DEF TypeOK, Existing, Written

\* Load: the agent's copy is the config file, normalized.
LEMMA Loaded ==
  ASSUME TypeOK, Load
  PROVE  /\ Written(config) /\ config \in Config
         /\ cfg' \in [Procs -> Config]
         /\ cfg'["agent"].token = config.token /\ cfg'["agent"].path = config.path
         /\ Effect(cfg'["agent"]) = Effect(config) /\ cfg'["command"] = cfg["command"]
         /\ pc["agent"] = "down" /\ pc' = [pc EXCEPT !["agent"] = "loaded"]
         /\ unapplied' = FALSE
         /\ UNCHANGED <<config, state, rootOwned, unit, new, used, commands, issued, accepted,
                        request, invitation, granted, faults, wanted, hurt>>
  <1>1. config \in Config /\ Written(config)
    BY DEF TypeOK, Load, Written
  <1>2. cfg' = [cfg EXCEPT !["agent"] = Normalized(config)]
    BY DEF Load
  <1>3. cfg' \in [Procs -> Config] /\ cfg'["agent"] = Normalized(config)
        /\ cfg'["command"] = cfg["command"]
    BY <1>1, <1>2, Read DEF TypeOK, Procs
  <1>4. QED
    BY <1>1, <1>3, Read DEF Load, GoTo, files, platform

\* SaveState: the file at the process's path holds its token.
LEMMA StateSaved ==
  ASSUME TypeOK, Granted, NEW p \in Procs, SaveState(p)
  PROVE  /\ state' \in [Paths -> Tokens \cup {Absent, Torn}] /\ rootOwned' \subseteq Paths
         /\ \A path \in Paths : state'[path] = IF path = cfg[p].path THEN new[p] ELSE state[path]
         /\ new[p] \in Tokens
         /\ pc[p] = "saving" /\ pc' = [pc EXCEPT ![p] = "configuring"]
         /\ hurt' = IF Older(new[p]) THEN hurt \cup {"olderWritten"} ELSE hurt
         /\ UNCHANGED <<config, unit, cfg, new, used, commands, issued, accepted, request,
                        invitation, granted, faults, wanted, unapplied>>
  <1>1. new[p] \in Tokens /\ cfg[p].path \in Paths
    BY Fields, Markers DEF TypeOK, Granted, SaveState, NoToken
  <1>2. state' = [state EXCEPT ![cfg[p].path] = new[p]]
    BY DEF SaveState
  <1>3. /\ state' \in [Paths -> Tokens \cup {Absent, Torn}]
        /\ \A path \in Paths : state'[path] = IF path = cfg[p].path THEN new[p] ELSE state[path]
    BY <1>1, <1>2 DEF TypeOK
  <1>4. rootOwned' \subseteq Paths
    BY <1>1 DEF SaveState, Owned, TypeOK
  <1>5. QED
    BY <1>1, <1>3, <1>4 DEF SaveState, GoTo, platform

\* A state file that is not written as it should be is what it was, or torn.
LEMMA StateTorn ==
  ASSUME TypeOK, NEW p \in Procs, StateFails(p) \/ Crash(p)
  PROVE  /\ state' \in [Paths -> Tokens \cup {Absent, Torn}] /\ rootOwned' \subseteq Paths
         /\ \A path \in Paths : state'[path] \in {state[path], Torn}
  <1>1. cfg[p].path \in Paths
    BY Fields DEF TypeOK
  <1>2. CASE UNCHANGED <<state, rootOwned>>
    BY <1>2 DEF TypeOK
  <1>3. CASE state' = [state EXCEPT ![cfg[p].path] = Torn] /\ rootOwned' = Owned(p)
    BY <1>1, <1>3 DEF TypeOK, Owned
  <1>4. QED
    BY <1>2, <1>3 DEF StateFails, Crash

\* SaveConfig: the config file is the process's copy with the new token.
LEMMA ConfigSaved ==
  ASSUME TypeOK, NEW p \in Procs, SaveConfig(p)
  PROVE  /\ config' \in Config
         /\ config'.token = new[p] /\ config'.path = cfg[p].path
         /\ Effect(config') = Effect(cfg[p])
         /\ pc[p] = "configuring" /\ pc' = [pc EXCEPT ![p] = AfterConfig(p)]
         /\ UNCHANGED <<state, rootOwned, unit, cfg, new, used, commands, issued, accepted,
                        request, invitation, granted, faults, wanted, unapplied>>
  <1>1. cfg[p] \in Config /\ new[p] \in 0..MaxTokens
    BY DEF TypeOK
  <1>2. config' = [cfg[p] EXCEPT !.token = new[p], !.enroll = "none"]
    BY DEF SaveConfig, Persisted
  <1>3. config' \in Config /\ config'.token = new[p] /\ config'.path = cfg[p].path
        /\ Effect(config') = Effect(cfg[p])
    BY <1>1, <1>2, Rewritten
  <1>4. QED
    BY <1>3 DEF SaveConfig, GoTo, platform

\* Bootstrap: the config file is what it was, or the default, without identity.
LEMMA IdentityCleared ==
  ASSUME TypeOK, Bootstrap
  PROVE  /\ config' \in Config
         /\ config'.token = NoToken /\ config'.path = cfg["command"].path
         /\ Effect(config') = [setting |-> cfg["command"].setting,
                               timeout |-> Raised(Existing.timeout)]
         /\ cfg' \in [Procs -> Config]
         /\ cfg'["command"] = config' /\ cfg'["agent"] = cfg["agent"]
         /\ hurt' = IF Written(config) THEN hurt ELSE hurt \cup {"defaulted"}
         /\ pc["command"] = "bootstrapping"
         /\ pc' \in [Procs -> AgentPoints \cup CommandPoints] /\ pc'["agent"] = pc["agent"]
         /\ pc'["command"] \in {"starting", "consuming", "idle"}
         /\ pc'["command"] = "consuming" => state[cfg["command"].path] = Absent
         /\ UNCHANGED <<state, rootOwned, unit, new, used, commands, issued, accepted, request,
                        invitation, granted, faults, wanted, unapplied>>
  <1>1. Existing \in Config /\ cfg["command"].path \in Paths
        /\ cfg["command"].setting \in 0..MaxCommands
    BY Start, Fields DEF TypeOK, Procs
  <1> DEFINE next == [Existing EXCEPT !.token = NoToken, !.enroll = "bootstrap",
                                      !.path = cfg["command"].path,
                                      !.setting = cfg["command"].setting]
  <1>3. config' = next /\ cfg' = [cfg EXCEPT !["command"] = next]
    BY DEF Bootstrap
  <1>4. /\ next \in Config
        /\ next.token = NoToken /\ next.path = cfg["command"].path
        /\ Effect(next) = [setting |-> cfg["command"].setting,
                           timeout |-> Raised(Existing.timeout)]
    <2>1. NoToken \in 0..MaxTokens
      BY BoundAssumption DEF NoToken
    <2>2. /\ next \in Config /\ next.token = NoToken /\ next.path = cfg["command"].path
          /\ next.setting = cfg["command"].setting /\ next.timeout = Existing.timeout
      BY <1>1, <2>1 DEF Config
    <2>3. QED
      BY <2>2 DEF Effect
  <1> HIDE DEF next
  <1>5. /\ cfg' \in [Procs -> Config]
        /\ cfg'["command"] = config' /\ cfg'["agent"] = cfg["agent"]
    BY <1>3, <1>4 DEF TypeOK, Procs
  <1>6. pc' = [pc EXCEPT !["command"] = IF Readable(next.path) THEN "starting"
                 ELSE IF state[next.path] = Absent THEN "consuming" ELSE "idle"]
    BY DEF Bootstrap, GoTo, next
  <1>7. /\ pc' \in [Procs -> AgentPoints \cup CommandPoints] /\ pc'["agent"] = pc["agent"]
        /\ pc'["command"] \in {"starting", "consuming", "idle"}
        /\ pc'["command"] = "consuming" => state[cfg["command"].path] = Absent
    BY <1>4, <1>6 DEF TypeOK, Procs, CommandPoints
  <1>8. QED
    BY <1>3, <1>4, <1>5, <1>7 DEF Bootstrap, platform

\* ... and, unless the defaults were taken, with the settings that were written last.
LEMMA SettingsCarried ==
  ASSUME TypeOK, Copies, SettingKept, Bootstrap, hurt' \cap {"clobbered", "defaulted"} = {}
  PROVE  hurt' = hurt /\ Effect(config') = wanted
  <1>1. Written(config) /\ hurt' = hurt
    BY IdentityCleared, Zenon
  <1>2. Effect(Existing) = wanted
    BY <1>1, Start DEF SettingKept
  <1>3. Effect(cfg["command"]) = wanted
    BY <1>1, IdentityCleared DEF Copies
  <1>4. Effect(config') = [setting |-> cfg["command"].setting,
                           timeout |-> Raised(Existing.timeout)]
    BY IdentityCleared
  <1>5. wanted.setting = cfg["command"].setting /\ wanted.timeout = Raised(Existing.timeout)
    BY <1>2, <1>3 DEF Effect
  <1>6. wanted = [setting |-> wanted.setting, timeout |-> wanted.timeout]
    BY <1>2 DEF Effect
  <1>7. QED
    BY <1>1, <1>4, <1>5, <1>6

\* InstallSave: it is what it was, without identity and with a new setting.
LEMMA Reinstalled ==
  ASSUME TypeOK, NEW enroll \in {"none", "bootstrap"}, InstallSave(enroll)
  PROVE  /\ config' \in Config
         /\ config'.token = NoToken /\ config'.path = Home /\ Effect(config') = wanted'
         /\ cfg' \in [Procs -> Config]
         /\ cfg'["command"] = config' /\ cfg'["agent"] = cfg["agent"]
         /\ pc["command"] = "idle" /\ pc' \in [Procs -> AgentPoints \cup CommandPoints]
         /\ pc'["agent"] = pc["agent"] /\ pc'["command"] = "installing"
         /\ commands' \in 0..MaxCommands
         /\ unapplied' = TRUE /\ hurt' = hurt \ {"clobbered", "defaulted"}
         /\ UNCHANGED <<state, rootOwned, unit, new, used, issued, accepted, request,
                        invitation, granted, faults>>
  <1>1. Existing \in Config /\ commands + 1 \in 0..MaxCommands
    BY Start, BoundAssumption DEF InstallSave, Begin, TypeOK
  <1> DEFINE next == [Existing EXCEPT !.token = NoToken, !.enroll = enroll, !.path = Home,
                                      !.setting = commands + 1]
  <1>3. /\ config' = next /\ wanted' = Effect(next)
        /\ cfg' = [cfg EXCEPT !["command"] = next]
    BY DEF InstallSave, Begin
  <1>4. next \in Config /\ next.token = NoToken /\ next.path = Home
    <2>1. NoToken \in 0..MaxTokens /\ Home \in Paths
          /\ enroll \in {"none", "request", "bootstrap"}
      BY BoundAssumption, Markers DEF NoToken
    <2>2. QED
      BY <1>1, <2>1 DEF Config
  <1> HIDE DEF next
  <1>5. /\ cfg' \in [Procs -> Config]
        /\ cfg'["command"] = config' /\ cfg'["agent"] = cfg["agent"]
    BY <1>3, <1>4 DEF TypeOK, Procs
  <1>6. /\ pc["command"] = "idle" /\ pc' \in [Procs -> AgentPoints \cup CommandPoints]
        /\ pc'["agent"] = pc["agent"] /\ pc'["command"] = "installing"
    BY DEF InstallSave, Begin, GoTo, TypeOK, Procs, CommandPoints
  <1>7. QED
    BY <1>1, <1>3, <1>4, <1>5, <1>6 DEF InstallSave, Begin, platform

\* SetLoad: the command's copy has the file's identity and place, or none; anything
\* else is the operator's edit.
LEMMA Chosen ==
  ASSUME TypeOK, Bounded, SetLoad
  PROVE  /\ Written(config) /\ config \in Config
         /\ cfg' \in [Procs -> Config] /\ cfg'["agent"] = cfg["agent"]
         /\ cfg'["command"].token <= issued
         /\ \/ /\ hurt' = hurt
               /\ cfg'["command"].token \in {NoToken, config.token}
               /\ cfg'["command"].path = Home
            \/ hurt' = hurt \cup {"edited"}
         /\ pc["command"] = "idle" /\ pc' \in [Procs -> AgentPoints \cup CommandPoints]
         /\ pc'["agent"] = pc["agent"] /\ pc'["command"] = "setting"
         /\ commands' \in 0..MaxCommands
         /\ UNCHANGED <<config, state, rootOwned, unit, new, used, issued, accepted, request,
                        invitation, granted, faults, wanted, unapplied>>
  <1>1. config \in Config /\ Written(config) /\ commands + 1 \in 0..MaxCommands
    BY BoundAssumption DEF TypeOK, SetLoad, Written, Begin
  <1>2. PICK next \in Edited(Normalized(config)) :
               /\ cfg' = [cfg EXCEPT !["command"] = next]
               /\ hurt' = IF next.token \in {NoToken, config.token} /\ next.path = Home
                          THEN hurt ELSE hurt \cup {"edited"}
    BY DEF SetLoad, Begin
  <1> DEFINE c == Normalized(config)
  <1>3. c \in Config /\ c.token = config.token
    BY <1>1, Read
  <1> HIDE DEF c
  <1>4. next \in Config /\ next.token \in {NoToken, config.token} \cup accepted
    <2>1. accepted \cup {NoToken} \subseteq 0..MaxTokens
      BY BoundAssumption DEF TypeOK, Tokens, NoToken
    <2>2. \/ next \in {[c EXCEPT !.setting = commands + 1], [c EXCEPT !.timeout = "low"]}
          \/ \E t \in accepted \cup {NoToken} : next = [c EXCEPT !.token = t]
          \/ \E e \in {"none", "bootstrap"} : next = [c EXCEPT !.enroll = e]
          \/ \E path \in Paths : next = [c EXCEPT !.path = path]
      BY <1>2 DEF Edited, c
    <2>3. QED
      BY <1>1, <1>3, <2>1, <2>2 DEF Config
  <1>5. next.token <= issued
    <2>1. \A t \in accepted \cup {NoToken, config.token} : t <= issued
      BY <1>1 DEF Bounded, TypeOK, NoToken
    <2>2. QED
      BY <1>4, <2>1
  <1>6. /\ cfg' \in [Procs -> Config] /\ cfg'["command"] = next /\ cfg'["agent"] = cfg["agent"]
    BY <1>2, <1>4 DEF TypeOK, Procs
  <1>7. /\ pc["command"] = "idle" /\ pc' \in [Procs -> AgentPoints \cup CommandPoints]
        /\ pc'["agent"] = pc["agent"] /\ pc'["command"] = "setting"
    BY DEF SetLoad, Begin, GoTo, TypeOK, Procs, CommandPoints
  <1>8. \/ hurt' = hurt /\ next.token \in {NoToken, config.token} /\ next.path = Home
        \/ hurt' = hurt \cup {"edited"}
    BY <1>2
  <1>9. QED
    BY <1>1, <1>5, <1>6, <1>7, <1>8 DEF SetLoad, Begin, files, platform

\* Decide: an approval issues one more token.
LEMMA Decided ==
  ASSUME TypeOK, Decide
  PROVE  /\ request = "pending" /\ request' \in {"approved", "rejected"}
         /\ request' = "approved" =>
              /\ issued' \in Tokens /\ issued' > issued /\ granted' = issued'
              /\ accepted' = accepted \cup {issued'}
         /\ request' # "approved" => UNCHANGED <<issued, granted, accepted>>
         /\ UNCHANGED <<config, state, rootOwned, unit, pc, cfg, new, used, commands,
                        invitation, faults, wanted, unapplied, hurt>>
  <1>1. issued + 1 \in Tokens /\ issued + 1 > issued
    BY BoundAssumption DEF Decide, TypeOK, Tokens
  <1>2. QED
    BY <1>1 DEF Decide, files, procs, history

-------------------------------------------------------------------------------
(* Every step *)

\* Every step keeps the state well typed.
LEMMA TypeStep == TypeOK /\ Granted /\ Bounded /\ [Next]_vars => TypeOK'
<1> SUFFICES ASSUME TypeOK /\ Granted /\ Bounded, [Next]_vars PROVE TypeOK'
  OBVIOUS
<1> USE Markers, BoundAssumption, Fields, Default DEF TypeOK, Tokens, NoToken, Procs, GoTo,
         AgentPoints, CommandPoints, Hurts, Written, files, platform, procs, history,
         Unedited, StoredIdentity, Granted, Bounded
<1>1. ASSUME Load PROVE TypeOK'
  <2>1. /\ pc'["agent"] \in AgentPoints /\ pc'["command"] \in CommandPoints
        /\ pc' \in [Procs -> AgentPoints \cup CommandPoints]
    BY <1>1 DEF Load
  <2>2. cfg' \in [Procs -> Config] /\ unapplied' \in BOOLEAN
    BY <1>1, Loaded
  <2>3. QED
    BY <1>1, <2>1, <2>2, ZenonT(60) DEF Load
<1>2. ASSUME UseStored PROVE TypeOK'
  BY <1>2 DEF UseStored, StoredIdentity, Readable
<1>3. ASSUME CompleteEnrollment PROVE TypeOK'
  BY <1>3 DEF CompleteEnrollment
<1>4. ASSUME NoIdentity PROVE TypeOK'
  BY <1>4 DEF NoIdentity
<1>5. ASSUME Use PROVE TypeOK'
  BY <1>5 DEF Use
<1>6. ASSUME Authenticate PROVE TypeOK'
  <2>1. accepted' \in SUBSET Tokens
    BY <1>6 DEF Authenticate
  <2>2. QED
    BY <1>6, <2>1 DEF Authenticate
<1>7. ASSUME NEW p \in Procs, Approved(p) PROVE TypeOK'
  BY <1>7 DEF Approved
<1>8. ASSUME NEW p \in Procs, NotApproved(p) PROVE TypeOK'
  BY <1>8 DEF NotApproved, Ended
<1>9. ASSUME NEW p \in Procs, SaveState(p) PROVE TypeOK'
  <2>1. hurt' \in SUBSET Hurts
    BY <1>9 DEF SaveState
  <2>2. /\ pc'["agent"] \in AgentPoints /\ pc'["command"] \in CommandPoints
        /\ pc' \in [Procs -> AgentPoints \cup CommandPoints]
    BY <1>9 DEF SaveState
  <2>3. QED
    BY <1>9, <2>1, <2>2, StateSaved, ZenonT(60)
<1>10. ASSUME NEW p \in Procs, SaveDenied(p) PROVE TypeOK'
  BY <1>10 DEF SaveDenied, NotSaved, Ended
<1>11. ASSUME NEW p \in Procs, SaveConfig(p) PROVE TypeOK'
  <2>1. hurt' \in SUBSET Hurts
    BY <1>11 DEF SaveConfig
  <2>2. /\ pc'["agent"] \in AgentPoints /\ pc'["command"] \in CommandPoints
        /\ pc' \in [Procs -> AgentPoints \cup CommandPoints]
    BY <1>11, ConfigSaved DEF AfterConfig
  <2>3. QED
    BY <1>11, <2>1, <2>2, ConfigSaved, ZenonT(60)
<1>12. ASSUME SetSave PROVE TypeOK'
  BY <1>12 DEF SetSave
<1>13. ASSUME SetRestart PROVE TypeOK'
  BY <1>13 DEF SetRestart
<1>14. ASSUME InstallUnit PROVE TypeOK'
  BY <1>14 DEF InstallUnit
<1>15. ASSUME Bootstrap PROVE TypeOK'
  <2>1. hurt' \in SUBSET Hurts
    BY <1>15 DEF Bootstrap
  <2>2. QED
    BY <1>15, <2>1, IdentityCleared, ZenonT(60)
<1>16. ASSUME Consume PROVE TypeOK'
  BY <1>16 DEF Consume
<1>17. ASSUME ConsumeFails PROVE TypeOK'
  BY <1>17 DEF ConsumeFails
<1>18. ASSUME Check PROVE TypeOK'
  BY <1>18 DEF Check
<1>19. ASSUME Initiate PROVE TypeOK'
  <2>1. config' \in Config /\ cfg' = [cfg EXCEPT !["command"] = config']
    BY <1>19, Invited DEF Initiate
  <2>2. cfg' \in [Procs -> Config]
    BY <2>1
  <2>3. QED
    BY <1>19, <2>1, <2>2 DEF Initiate
<1>20. ASSUME InitiateFails PROVE TypeOK'
  BY <1>20 DEF InitiateFails
<1>21. ASSUME StartService PROVE TypeOK'
  BY <1>21 DEF StartService
<1>22. ASSUME SetLoad PROVE TypeOK'
  BY <1>22, Chosen, ZenonT(60)
<1>23. ASSUME Chown PROVE TypeOK'
  BY <1>23 DEF Chown
<1>24. ASSUME NEW enroll \in {"none", "bootstrap"}, InstallSave(enroll) PROVE TypeOK'
  <2>1. wanted' \in [setting : 0..MaxCommands, timeout : {"default", "raised"}]
    <3>1. config' \in Config /\ wanted' = Effect(config')
      BY <1>24, Reinstalled
    <3>2. QED
      BY <3>1, Fields, Zenon
  <2>2. pc'["agent"] \in AgentPoints /\ pc'["command"] \in CommandPoints
    BY <1>24, Reinstalled
  <2>3. hurt' \in SUBSET Hurts
    BY <1>24, Reinstalled
  <2>4. QED
    BY <1>24, <2>1, <2>2, <2>3, Reinstalled, ZenonT(60)
<1>25. ASSUME Enroll PROVE TypeOK'
  BY <1>25, Read DEF Enroll, Begin
<1>26. ASSUME ServiceAction PROVE TypeOK'
  BY <1>26 DEF ServiceAction
<1>27. ASSUME Rotate PROVE TypeOK'
  BY <1>27 DEF Rotate
<1>28. ASSUME Decide PROVE TypeOK'
  BY <1>28, Decided, ZenonT(60)
<1>29. ASSUME InstallFails PROVE TypeOK'
  BY <1>29 DEF InstallFails
<1>30. ASSUME NEW p \in Procs, StateFails(p) PROVE TypeOK'
  <2>1. /\ pc'["agent"] \in AgentPoints /\ pc'["command"] \in CommandPoints
        /\ pc' \in [Procs -> AgentPoints \cup CommandPoints]
    BY <1>30 DEF StateFails, NotSaved, Ended
  <2>2. faults' \in 0..MaxFaults
    BY <1>30 DEF StateFails
  <2>3. /\ state' \in [Paths -> Tokens \cup {Absent, Torn}] /\ rootOwned' \subseteq Paths
    BY <1>30, StateTorn
  <2>4. QED
    BY <1>30, <2>1, <2>2, <2>3, ZenonT(60) DEF StateFails
<1>31. ASSUME NEW p \in Procs, ConfigFails(p) PROVE TypeOK'
  BY <1>31 DEF ConfigFails, AfterConfig
<1>32. ASSUME NEW p \in Procs, Crash(p) PROVE TypeOK'
  <2>1. /\ pc'["agent"] \in AgentPoints /\ pc'["command"] \in CommandPoints
        /\ pc' \in [Procs -> AgentPoints \cup CommandPoints]
    BY <1>32 DEF Crash, Ended
  <2>2. faults' \in 0..MaxFaults /\ used' \in 0..MaxTokens /\ config' \in {config, Torn}
    BY <1>32 DEF Crash
  <2>3. /\ state' \in [Paths -> Tokens \cup {Absent, Torn}] /\ rootOwned' \subseteq Paths
    BY <1>32, StateTorn
  <2>4. hurt' \in SUBSET Hurts
    BY <1>32 DEF Crash
  <2>5. QED
    BY <1>32, <2>1, <2>2, <2>3, <2>4, ZenonT(60) DEF Crash
<1>33. ASSUME UNCHANGED vars PROVE TypeOK'
  BY <1>33 DEF vars
<1>34. QED
  BY <1>1, <1>2, <1>3, <1>4, <1>5, <1>6, <1>7, <1>8, <1>9, <1>10, <1>11, <1>12,
     <1>13, <1>14, <1>15, <1>16, <1>17, <1>18, <1>19, <1>20, <1>21, <1>22,
     <1>23, <1>24, <1>25, <1>26, <1>27, <1>28, <1>29, <1>30, <1>31, <1>32,
     <1>33
     DEF Next, AgentStep, Persist, CommandStep, Fault

\* Whoever rewrites the config file leaves the state file's path alone.
LEMMA InPlaceStep == TypeOK /\ Bounded /\ Granted /\ InPlace /\ [Next]_vars => InPlace'
<1> SUFFICES ASSUME TypeOK /\ Bounded /\ Granted /\ InPlace, [Next]_vars PROVE InPlace'
  OBVIOUS
<1> USE Markers, BoundAssumption, Fields, Default DEF TypeOK, Tokens, NoToken, Procs, GoTo,
         AgentPoints, CommandPoints, Hurts, Written, files, platform, procs, history,
         Unedited, InPlace, Bounded, Granted
<1>1. ASSUME Load PROVE InPlace'
  BY <1>1, Loaded
<1>2. ASSUME UseStored PROVE InPlace'
  BY <1>2 DEF UseStored, StoredIdentity, Readable
<1>3. ASSUME CompleteEnrollment PROVE InPlace'
  BY <1>3 DEF CompleteEnrollment
<1>4. ASSUME NoIdentity PROVE InPlace'
  BY <1>4 DEF NoIdentity
<1>5. ASSUME Use PROVE InPlace'
  BY <1>5 DEF Use
<1>6. ASSUME Authenticate PROVE InPlace'
  BY <1>6 DEF Authenticate
<1>7. ASSUME NEW p \in Procs, Approved(p) PROVE InPlace'
  BY <1>7 DEF Approved
<1>8. ASSUME NEW p \in Procs, NotApproved(p) PROVE InPlace'
  BY <1>8 DEF NotApproved, Ended
<1>9. ASSUME NEW p \in Procs, SaveState(p) PROVE InPlace'
  BY <1>9, StateSaved
<1>10. ASSUME NEW p \in Procs, SaveDenied(p) PROVE InPlace'
  BY <1>10 DEF SaveDenied, NotSaved, Ended
<1>11. ASSUME NEW p \in Procs, SaveConfig(p) PROVE InPlace'
  BY <1>11, ConfigSaved DEF SaveConfig, AfterConfig
<1>12. ASSUME SetSave PROVE InPlace'
  BY <1>12 DEF SetSave
<1>13. ASSUME SetRestart PROVE InPlace'
  BY <1>13 DEF SetRestart
<1>14. ASSUME InstallUnit PROVE InPlace'
  BY <1>14 DEF InstallUnit
<1>15. ASSUME Bootstrap PROVE InPlace'
  BY <1>15, IdentityCleared
<1>16. ASSUME Consume PROVE InPlace'
  BY <1>16 DEF Consume
<1>17. ASSUME ConsumeFails PROVE InPlace'
  BY <1>17 DEF ConsumeFails
<1>18. ASSUME Check PROVE InPlace'
  BY <1>18 DEF Check
<1>19. ASSUME Initiate PROVE InPlace'
  BY <1>19, Invited DEF Initiate
<1>20. ASSUME InitiateFails PROVE InPlace'
  BY <1>20 DEF InitiateFails
<1>21. ASSUME StartService PROVE InPlace'
  BY <1>21 DEF StartService
<1>22. ASSUME SetLoad PROVE InPlace'
  BY <1>22, Chosen
<1>23. ASSUME Chown PROVE InPlace'
  BY <1>23 DEF Chown
<1>24. ASSUME NEW enroll \in {"none", "bootstrap"}, InstallSave(enroll) PROVE InPlace'
  <2>1. /\ config'.path = Home /\ cfg'["command"].path = Home /\ cfg'["agent"] = cfg["agent"]
        /\ Unedited' <=> Unedited
    BY <1>24, Reinstalled
  <2>2. QED
    BY <2>1
<1>25. ASSUME Enroll PROVE InPlace'
  BY <1>25, Read DEF Enroll, Begin
<1>26. ASSUME ServiceAction PROVE InPlace'
  BY <1>26 DEF ServiceAction
<1>27. ASSUME Rotate PROVE InPlace'
  BY <1>27 DEF Rotate
<1>28. ASSUME Decide PROVE InPlace'
  BY <1>28, Decided
<1>29. ASSUME InstallFails PROVE InPlace'
  BY <1>29 DEF InstallFails
<1>30. ASSUME NEW p \in Procs, StateFails(p) PROVE InPlace'
  BY <1>30, StateTorn DEF StateFails, NotSaved, Ended
<1>31. ASSUME NEW p \in Procs, ConfigFails(p) PROVE InPlace'
  BY <1>31 DEF ConfigFails, AfterConfig
<1>32. ASSUME NEW p \in Procs, Crash(p) PROVE InPlace'
  BY <1>32, StateTorn DEF Crash, Ended
<1>33. ASSUME UNCHANGED vars PROVE InPlace'
  BY <1>33 DEF vars
<1>34. QED
  BY <1>1, <1>2, <1>3, <1>4, <1>5, <1>6, <1>7, <1>8, <1>9, <1>10, <1>11, <1>12,
     <1>13, <1>14, <1>15, <1>16, <1>17, <1>18, <1>19, <1>20, <1>21, <1>22,
     <1>23, <1>24, <1>25, <1>26, <1>27, <1>28, <1>29, <1>30, <1>31, <1>32,
     <1>33
     DEF Next, AgentStep, Persist, CommandStep, Fault

\* No token is newer than the platform's newest, and that one is never retired.
LEMMA BoundStep ==
  TypeOK /\ Bounded /\ Granted /\ InPlace /\ NotYet /\ NewHost /\ [Next]_vars => Bounded'
<1> SUFFICES ASSUME TypeOK /\ Bounded /\ Granted /\ InPlace /\ NotYet /\ NewHost, [Next]_vars
             PROVE  Bounded'
  OBVIOUS
<1> USE Markers, BoundAssumption, Fields, Default DEF TypeOK, Tokens, NoToken, Procs, GoTo,
         AgentPoints, CommandPoints, Hurts, Written, files, platform, procs, history,
         Unedited, Bounded, Granted, InPlace, NotYet, NewHost, OnFile
<1>1. ASSUME Load PROVE Bounded'
  <2>1. \A p \in Procs : new'[p] <= issued'
    BY <1>1, Loaded
  <2>2. cfg'["agent"].token <= issued' /\ cfg'["command"].token <= issued'
    <3>1. /\ Written(config) /\ cfg'["agent"].token = config.token
          /\ cfg'["command"] = cfg["command"] /\ issued' = issued
      BY <1>1, Loaded
    <3>2. config.token <= issued /\ cfg["command"].token <= issued
      BY <3>1
    <3>3. QED
      BY <3>1, <3>2
  <2>3. UNCHANGED <<accepted, issued, used, granted, config, state>>
    BY <1>1, Loaded
  <2>4. QED
    BY <2>1, <2>2, <2>3
<1>2. ASSUME UseStored PROVE Bounded'
  BY <1>2 DEF UseStored, StoredIdentity, Readable
<1>3. ASSUME CompleteEnrollment PROVE Bounded'
  BY <1>3 DEF CompleteEnrollment
<1>4. ASSUME NoIdentity PROVE Bounded'
  BY <1>4 DEF NoIdentity
<1>5. ASSUME Use PROVE Bounded'
  BY <1>5 DEF Use
<1>6. ASSUME Authenticate PROVE Bounded'
  BY <1>6 DEF Authenticate
<1>7. ASSUME NEW p \in Procs, Approved(p) PROVE Bounded'
  BY <1>7 DEF Approved
<1>8. ASSUME NEW p \in Procs, NotApproved(p) PROVE Bounded'
  BY <1>8 DEF NotApproved, Ended
<1>9. ASSUME NEW p \in Procs, SaveState(p) PROVE Bounded'
  <2>1. /\ \A path \in Paths : state'[path] = new[p] \/ state'[path] = state[path]
        /\ UNCHANGED <<accepted, issued, used, granted, config, new, cfg>>
    BY <1>9, StateSaved
  <2>2. \A path \in Paths : state'[path] \in Tokens => state'[path] <= issued'
    BY <1>9, <2>1
  <2>3. QED
    BY <2>1, <2>2
<1>10. ASSUME NEW p \in Procs, SaveDenied(p) PROVE Bounded'
  BY <1>10 DEF SaveDenied, NotSaved, Ended
<1>11. ASSUME NEW p \in Procs, SaveConfig(p) PROVE Bounded'
  BY <1>11, ConfigSaved DEF SaveConfig, AfterConfig
<1>12. ASSUME SetSave PROVE Bounded'
  BY <1>12 DEF SetSave
<1>13. ASSUME SetRestart PROVE Bounded'
  BY <1>13 DEF SetRestart
<1>14. ASSUME InstallUnit PROVE Bounded'
  BY <1>14 DEF InstallUnit
<1>15. ASSUME Bootstrap PROVE Bounded'
  <2>1. \A p \in Procs : new'[p] <= issued'
    BY <1>15, IdentityCleared
  <2>2. cfg'["agent"].token <= issued' /\ cfg'["command"].token <= issued'
    <3>1. /\ cfg'["command"].token = NoToken /\ cfg'["agent"] = cfg["agent"]
          /\ issued' = issued
      BY <1>15, IdentityCleared
    <3>2. cfg["agent"].token <= issued /\ NoToken <= issued
      OBVIOUS
    <3>3. QED
      BY <3>1, <3>2
  <2>3. config'.token <= issued'
    <3>1. config'.token = NoToken /\ issued' = issued
      BY <1>15, IdentityCleared
    <3>2. NoToken <= issued
      OBVIOUS
    <3>3. QED
      BY <3>1, <3>2
  <2>4. UNCHANGED <<accepted, issued, used, granted, state>>
    BY <1>15, IdentityCleared
  <2>5. QED
    BY <2>1, <2>2, <2>3, <2>4
<1>16. ASSUME Consume PROVE Bounded'
  BY <1>16 DEF Consume
<1>17. ASSUME ConsumeFails PROVE Bounded'
  BY <1>17 DEF ConsumeFails
<1>18. ASSUME Check PROVE Bounded'
  BY <1>18 DEF Check
<1>19. ASSUME Initiate PROVE Bounded'
  BY <1>19, Invited DEF Initiate
<1>20. ASSUME InitiateFails PROVE Bounded'
  BY <1>20 DEF InitiateFails
<1>21. ASSUME StartService PROVE Bounded'
  BY <1>21 DEF StartService
<1>22. ASSUME SetLoad PROVE Bounded'
  <2>1. cfg'["agent"].token <= issued' /\ cfg'["command"].token <= issued'
    <3>1. /\ cfg'["command"].token <= issued /\ cfg'["agent"] = cfg["agent"]
          /\ issued' = issued
      BY <1>22, Chosen
    <3>2. QED
      BY <3>1
  <2>2. UNCHANGED <<accepted, issued, used, granted, config, state, new>>
    BY <1>22, Chosen
  <2>3. QED
    BY <2>1, <2>2
<1>23. ASSUME Chown PROVE Bounded'
  BY <1>23 DEF Chown
<1>24. ASSUME NEW enroll \in {"none", "bootstrap"}, InstallSave(enroll) PROVE Bounded'
  <2>1. \A p \in Procs : new'[p] <= issued'
    BY <1>24, Reinstalled, ZenonT(60)
  <2>2. cfg'["agent"].token <= issued' /\ cfg'["command"].token <= issued'
    <3>1. /\ cfg'["command"].token = NoToken /\ cfg'["agent"] = cfg["agent"]
          /\ issued' = issued
      BY <1>24, Reinstalled
    <3>2. cfg["agent"].token <= issued /\ NoToken <= issued
      OBVIOUS
    <3>3. QED
      BY <3>1, <3>2
  <2>3. config'.token <= issued'
    <3>1. config'.token = NoToken /\ issued' = issued
      BY <1>24, Reinstalled
    <3>2. NoToken <= issued
      OBVIOUS
    <3>3. QED
      BY <3>1, <3>2
  <2>4. UNCHANGED <<accepted, issued, used, granted, state>>
    BY <1>24, Reinstalled
  <2>5. QED
    BY <2>1, <2>2, <2>3, <2>4
<1>25. ASSUME Enroll PROVE Bounded'
  BY <1>25, Read DEF Enroll, Begin
<1>26. ASSUME ServiceAction PROVE Bounded'
  BY <1>26 DEF ServiceAction
<1>27. ASSUME Rotate PROVE Bounded'
  BY <1>27 DEF Rotate
<1>28. ASSUME Decide PROVE Bounded'
  <2>1. CASE request' = "approved"
    <3>1. issued' \in 1..MaxTokens /\ issued <= issued'
      BY <1>28, <2>1, Decided
    <3>2. \A t \in 0..MaxTokens : t <= issued => t <= issued'
      BY <3>1
    <3>3. accepted' \subseteq 1..issued' /\ issued' \in accepted'
      <4>1. accepted' = accepted \cup {issued'}
        BY <1>28, <2>1, Decided
      <4>2. issued \in Nat /\ accepted \subseteq 1..issued
        OBVIOUS
      <4>3. 1..issued \subseteq 1..issued' /\ issued' \in 1..issued'
        BY <3>1, <4>2
      <4>4. QED
        BY <3>1, <4>1, <4>2, <4>3, Zenon
    <3>4. \A p \in Procs : new'[p] <= issued' /\ cfg'[p].token <= issued'
      BY <1>28, <3>2, Decided
    <3>5. Written(config') => config'.token <= issued'
      BY <1>28, <3>2, Decided
    <3>6. \A path \in Paths : state'[path] \in Tokens => state'[path] <= issued'
      BY <1>28, <3>2, Decided
    <3>7. used' <= issued' /\ granted' <= issued'
      BY <1>28, <2>1, <3>1, <3>2, Decided
    <3>8. QED
      BY <3>3, <3>4, <3>5, <3>6, <3>7
  <2>2. CASE request' # "approved"
    <3>1. UNCHANGED <<accepted, issued, used, granted, config, state, new, cfg>>
      BY <1>28, <2>2, Decided
    <3>2. QED
      BY <3>1
  <2>3. QED
    BY <2>1, <2>2
<1>29. ASSUME InstallFails PROVE Bounded'
  BY <1>29 DEF InstallFails
<1>30. ASSUME NEW p \in Procs, StateFails(p) PROVE Bounded'
  BY <1>30, StateTorn DEF StateFails, NotSaved, Ended
<1>31. ASSUME NEW p \in Procs, ConfigFails(p) PROVE Bounded'
  BY <1>31 DEF ConfigFails, AfterConfig
<1>32. ASSUME NEW p \in Procs, Crash(p) PROVE Bounded'
  BY <1>32, StateTorn DEF Crash, Ended
<1>33. ASSUME UNCHANGED vars PROVE Bounded'
  BY <1>33 DEF vars
<1>34. QED
  BY <1>1, <1>2, <1>3, <1>4, <1>5, <1>6, <1>7, <1>8, <1>9, <1>10, <1>11, <1>12,
     <1>13, <1>14, <1>15, <1>16, <1>17, <1>18, <1>19, <1>20, <1>21, <1>22,
     <1>23, <1>24, <1>25, <1>26, <1>27, <1>28, <1>29, <1>30, <1>31, <1>32,
     <1>33
     DEF Next, AgentStep, Persist, CommandStep, Fault

\* What is persisted and approved is a token.
LEMMA GrantStep == TypeOK /\ Bounded /\ Granted /\ [Next]_vars => Granted'
<1> SUFFICES ASSUME TypeOK /\ Bounded /\ Granted, [Next]_vars PROVE Granted'
  OBVIOUS
<1> USE Markers, BoundAssumption, Fields, Default DEF TypeOK, Tokens, NoToken, Procs, GoTo,
         AgentPoints, CommandPoints, Hurts, Written, files, platform, procs, history,
         Unedited, Granted, Bounded
<1>1. ASSUME Load PROVE Granted'
  BY <1>1, Loaded, ZenonT(60)
<1>2. ASSUME UseStored PROVE Granted'
  BY <1>2 DEF UseStored, StoredIdentity, Readable
<1>3. ASSUME CompleteEnrollment PROVE Granted'
  BY <1>3 DEF CompleteEnrollment
<1>4. ASSUME NoIdentity PROVE Granted'
  BY <1>4 DEF NoIdentity
<1>5. ASSUME Use PROVE Granted'
  BY <1>5 DEF Use
<1>6. ASSUME Authenticate PROVE Granted'
  BY <1>6 DEF Authenticate
<1>7. ASSUME NEW p \in Procs, Approved(p) PROVE Granted'
  BY <1>7 DEF Approved
<1>8. ASSUME NEW p \in Procs, NotApproved(p) PROVE Granted'
  BY <1>8 DEF NotApproved, Ended
<1>9. ASSUME NEW p \in Procs, SaveState(p) PROVE Granted'
  BY <1>9, StateSaved
<1>10. ASSUME NEW p \in Procs, SaveDenied(p) PROVE Granted'
  BY <1>10 DEF SaveDenied, NotSaved, Ended
<1>11. ASSUME NEW p \in Procs, SaveConfig(p) PROVE Granted'
  BY <1>11, ConfigSaved DEF SaveConfig, AfterConfig
<1>12. ASSUME SetSave PROVE Granted'
  BY <1>12 DEF SetSave
<1>13. ASSUME SetRestart PROVE Granted'
  BY <1>13 DEF SetRestart
<1>14. ASSUME InstallUnit PROVE Granted'
  BY <1>14 DEF InstallUnit
<1>15. ASSUME Bootstrap PROVE Granted'
  BY <1>15, IdentityCleared
<1>16. ASSUME Consume PROVE Granted'
  BY <1>16 DEF Consume
<1>17. ASSUME ConsumeFails PROVE Granted'
  BY <1>17 DEF ConsumeFails
<1>18. ASSUME Check PROVE Granted'
  BY <1>18 DEF Check
<1>19. ASSUME Initiate PROVE Granted'
  BY <1>19, Invited DEF Initiate
<1>20. ASSUME InitiateFails PROVE Granted'
  BY <1>20 DEF InitiateFails
<1>21. ASSUME StartService PROVE Granted'
  BY <1>21 DEF StartService
<1>22. ASSUME SetLoad PROVE Granted'
  BY <1>22, Chosen
<1>23. ASSUME Chown PROVE Granted'
  BY <1>23 DEF Chown
<1>24. ASSUME NEW enroll \in {"none", "bootstrap"}, InstallSave(enroll) PROVE Granted'
  BY <1>24, Reinstalled, ZenonT(60)
<1>25. ASSUME Enroll PROVE Granted'
  BY <1>25, Read DEF Enroll, Begin
<1>26. ASSUME ServiceAction PROVE Granted'
  BY <1>26 DEF ServiceAction
<1>27. ASSUME Rotate PROVE Granted'
  BY <1>27 DEF Rotate
<1>28. ASSUME Decide PROVE Granted'
  BY <1>28, Decided
<1>29. ASSUME InstallFails PROVE Granted'
  BY <1>29 DEF InstallFails
<1>30. ASSUME NEW p \in Procs, StateFails(p) PROVE Granted'
  BY <1>30, StateTorn DEF StateFails, NotSaved, Ended
<1>31. ASSUME NEW p \in Procs, ConfigFails(p) PROVE Granted'
  BY <1>31 DEF ConfigFails, AfterConfig
<1>32. ASSUME NEW p \in Procs, Crash(p) PROVE Granted'
  BY <1>32, StateTorn DEF Crash, Ended
<1>33. ASSUME UNCHANGED vars PROVE Granted'
  BY <1>33 DEF vars
<1>34. QED
  BY <1>1, <1>2, <1>3, <1>4, <1>5, <1>6, <1>7, <1>8, <1>9, <1>10, <1>11, <1>12,
     <1>13, <1>14, <1>15, <1>16, <1>17, <1>18, <1>19, <1>20, <1>21, <1>22,
     <1>23, <1>24, <1>25, <1>26, <1>27, <1>28, <1>29, <1>30, <1>31, <1>32,
     <1>33
     DEF Next, AgentStep, Persist, CommandStep, Fault

\* The state file comes before every other use of a token.
LEMMA NotYetStep ==
  TypeOK /\ Bounded /\ Granted /\ InPlace /\ NotYet /\ NewHost /\ [Next]_vars => NotYet'
<1> SUFFICES ASSUME TypeOK /\ Bounded /\ Granted /\ InPlace /\ NotYet /\ NewHost, [Next]_vars
             PROVE  NotYet'
  OBVIOUS
<1> USE Markers, BoundAssumption, Fields, Default DEF TypeOK, Tokens, NoToken, Procs, GoTo,
         AgentPoints, CommandPoints, Hurts, Written, files, platform, procs, history,
         Unedited, Bounded, Granted, InPlace, NotYet, NewHost, OnFile
<1>1. ASSUME Load PROVE NotYet'
  BY <1>1, Loaded, ZenonT(60)
<1>2. ASSUME UseStored PROVE NotYet'
  BY <1>2 DEF UseStored, StoredIdentity, Readable
<1>3. ASSUME CompleteEnrollment PROVE NotYet'
  BY <1>3 DEF CompleteEnrollment
<1>4. ASSUME NoIdentity PROVE NotYet'
  BY <1>4 DEF NoIdentity
<1>5. ASSUME Use PROVE NotYet'
  BY <1>5 DEF Use
<1>6. ASSUME Authenticate PROVE NotYet'
  BY <1>6 DEF Authenticate
<1>7. ASSUME NEW p \in Procs, Approved(p) PROVE NotYet'
  BY <1>7 DEF Approved
<1>8. ASSUME NEW p \in Procs, NotApproved(p) PROVE NotYet'
  BY <1>8 DEF NotApproved, Ended
<1>9. ASSUME NEW p \in Procs, SaveState(p) PROVE NotYet'
  BY <1>9, StateSaved
<1>10. ASSUME NEW p \in Procs, SaveDenied(p) PROVE NotYet'
  BY <1>10 DEF SaveDenied, NotSaved, Ended
<1>11. ASSUME NEW p \in Procs, SaveConfig(p) PROVE NotYet'
  BY <1>11, ConfigSaved DEF SaveConfig, AfterConfig
<1>12. ASSUME SetSave PROVE NotYet'
  BY <1>12 DEF SetSave
<1>13. ASSUME SetRestart PROVE NotYet'
  BY <1>13 DEF SetRestart
<1>14. ASSUME InstallUnit PROVE NotYet'
  BY <1>14 DEF InstallUnit
<1>15. ASSUME Bootstrap PROVE NotYet'
  BY <1>15, IdentityCleared
<1>16. ASSUME Consume PROVE NotYet'
  BY <1>16 DEF Consume
<1>17. ASSUME ConsumeFails PROVE NotYet'
  BY <1>17 DEF ConsumeFails
<1>18. ASSUME Check PROVE NotYet'
  BY <1>18 DEF Check
<1>19. ASSUME Initiate PROVE NotYet'
  BY <1>19, Invited, ZenonT(60) DEF Initiate
<1>20. ASSUME InitiateFails PROVE NotYet'
  BY <1>20 DEF InitiateFails
<1>21. ASSUME StartService PROVE NotYet'
  BY <1>21 DEF StartService
<1>22. ASSUME SetLoad PROVE NotYet'
  BY <1>22, Chosen
<1>23. ASSUME Chown PROVE NotYet'
  BY <1>23 DEF Chown
<1>24. ASSUME NEW enroll \in {"none", "bootstrap"}, InstallSave(enroll) PROVE NotYet'
  <2>1. /\ config' \in Config /\ config'.token = NoToken
        /\ cfg'["command"].token = NoToken /\ cfg'["agent"] = cfg["agent"]
        /\ Unedited' <=> Unedited
    BY <1>24, Reinstalled
  <2>2. /\ pc'["agent"] = pc["agent"] /\ pc'["command"] = "installing"
        /\ UNCHANGED <<state, used>>
    BY <1>24, Reinstalled
  <2>3. QED
    BY <2>1, <2>2
<1>25. ASSUME Enroll PROVE NotYet'
  BY <1>25, Read DEF Enroll, Begin
<1>26. ASSUME ServiceAction PROVE NotYet'
  BY <1>26 DEF ServiceAction
<1>27. ASSUME Rotate PROVE NotYet'
  BY <1>27 DEF Rotate
<1>28. ASSUME Decide PROVE NotYet'
  BY <1>28, Decided
<1>29. ASSUME InstallFails PROVE NotYet'
  BY <1>29 DEF InstallFails
<1>30. ASSUME NEW p \in Procs, StateFails(p) PROVE NotYet'
  BY <1>30, StateTorn DEF StateFails, NotSaved, Ended
<1>31. ASSUME NEW p \in Procs, ConfigFails(p) PROVE NotYet'
  BY <1>31 DEF ConfigFails, AfterConfig
<1>32. ASSUME NEW p \in Procs, Crash(p) PROVE NotYet'
  BY <1>32, StateTorn DEF Crash, Ended
<1>33. ASSUME UNCHANGED vars PROVE NotYet'
  BY <1>33 DEF vars
<1>34. QED
  BY <1>1, <1>2, <1>3, <1>4, <1>5, <1>6, <1>7, <1>8, <1>9, <1>10, <1>11, <1>12,
     <1>13, <1>14, <1>15, <1>16, <1>17, <1>18, <1>19, <1>20, <1>21, <1>22,
     <1>23, <1>24, <1>25, <1>26, <1>27, <1>28, <1>29, <1>30, <1>31, <1>32,
     <1>33
     DEF Next, AgentStep, Persist, CommandStep, Fault

\* An enrollment starts from a host without identity.
LEMMA NewHostStep ==
  TypeOK /\ Bounded /\ Granted /\ InPlace /\ NotYet /\ NewHost /\ [Next]_vars => NewHost'
<1> SUFFICES ASSUME TypeOK /\ Bounded /\ Granted /\ InPlace /\ NotYet /\ NewHost, [Next]_vars
             PROVE  NewHost'
  OBVIOUS
<1> USE Markers, BoundAssumption, Fields, Default DEF TypeOK, Tokens, NoToken, Procs, GoTo,
         AgentPoints, CommandPoints, Hurts, Written, files, platform, procs, history,
         Unedited, Bounded, Granted, InPlace, NotYet, NewHost, OnFile, Enrolling
<1>1. ASSUME Load PROVE NewHost'
  BY <1>1, Loaded
<1>2. ASSUME UseStored PROVE NewHost'
  BY <1>2 DEF UseStored, StoredIdentity, Readable
<1>3. ASSUME CompleteEnrollment PROVE NewHost'
  BY <1>3 DEF CompleteEnrollment
<1>4. ASSUME NoIdentity PROVE NewHost'
  BY <1>4 DEF NoIdentity
<1>5. ASSUME Use PROVE NewHost'
  BY <1>5 DEF Use
<1>6. ASSUME Authenticate PROVE NewHost'
  BY <1>6 DEF Authenticate
<1>7. ASSUME NEW p \in Procs, Approved(p) PROVE NewHost'
  BY <1>7 DEF Approved
<1>8. ASSUME NEW p \in Procs, NotApproved(p) PROVE NewHost'
  BY <1>8 DEF NotApproved, Ended
<1>9. ASSUME NEW p \in Procs, SaveState(p) PROVE NewHost'
  BY <1>9, StateSaved
<1>10. ASSUME NEW p \in Procs, SaveDenied(p) PROVE NewHost'
  BY <1>10 DEF SaveDenied, NotSaved, Ended
<1>11. ASSUME NEW p \in Procs, SaveConfig(p) PROVE NewHost'
  BY <1>11, ConfigSaved DEF SaveConfig, AfterConfig
<1>12. ASSUME SetSave PROVE NewHost'
  BY <1>12 DEF SetSave
<1>13. ASSUME SetRestart PROVE NewHost'
  BY <1>13 DEF SetRestart
<1>14. ASSUME InstallUnit PROVE NewHost'
  BY <1>14 DEF InstallUnit
<1>15. ASSUME Bootstrap PROVE NewHost'
  BY <1>15, IdentityCleared
<1>16. ASSUME Consume PROVE NewHost'
  BY <1>16 DEF Consume
<1>17. ASSUME ConsumeFails PROVE NewHost'
  BY <1>17 DEF ConsumeFails
<1>18. ASSUME Check PROVE NewHost'
  BY <1>18 DEF Check
<1>19. ASSUME Initiate PROVE NewHost'
  BY <1>19, Invited DEF Initiate
<1>20. ASSUME InitiateFails PROVE NewHost'
  BY <1>20 DEF InitiateFails
<1>21. ASSUME StartService PROVE NewHost'
  BY <1>21 DEF StartService
<1>22. ASSUME SetLoad PROVE NewHost'
  BY <1>22, Chosen
<1>23. ASSUME Chown PROVE NewHost'
  BY <1>23 DEF Chown
<1>24. ASSUME NEW enroll \in {"none", "bootstrap"}, InstallSave(enroll) PROVE NewHost'
  BY <1>24, Reinstalled
<1>25. ASSUME Enroll PROVE NewHost'
  BY <1>25, Read DEF Enroll, Begin
<1>26. ASSUME ServiceAction PROVE NewHost'
  BY <1>26 DEF ServiceAction
<1>27. ASSUME Rotate PROVE NewHost'
  BY <1>27 DEF Rotate
<1>28. ASSUME Decide PROVE NewHost'
  BY <1>28, Decided
<1>29. ASSUME InstallFails PROVE NewHost'
  BY <1>29 DEF InstallFails
<1>30. ASSUME NEW p \in Procs, StateFails(p) PROVE NewHost'
  BY <1>30, StateTorn DEF StateFails, NotSaved, Ended
<1>31. ASSUME NEW p \in Procs, ConfigFails(p) PROVE NewHost'
  BY <1>31 DEF ConfigFails, AfterConfig
<1>32. ASSUME NEW p \in Procs, Crash(p) PROVE NewHost'
  BY <1>32, StateTorn DEF Crash, Ended
<1>33. ASSUME UNCHANGED vars PROVE NewHost'
  BY <1>33 DEF vars
<1>34. QED
  BY <1>1, <1>2, <1>3, <1>4, <1>5, <1>6, <1>7, <1>8, <1>9, <1>10, <1>11, <1>12,
     <1>13, <1>14, <1>15, <1>16, <1>17, <1>18, <1>19, <1>20, <1>21, <1>22,
     <1>23, <1>24, <1>25, <1>26, <1>27, <1>28, <1>29, <1>30, <1>31, <1>32,
     <1>33
     DEF Next, AgentStep, Persist, CommandStep, Fault

\* The copies keep up with the settings that are written.
LEMMA CopiesStep ==
  TypeOK /\ Bounded /\ Granted /\ NotYet /\ Copies /\ SettingKept /\ [Next]_vars => Copies'
<1> SUFFICES ASSUME TypeOK /\ Bounded /\ Granted /\ NotYet /\ Copies /\ SettingKept, [Next]_vars
             PROVE  Copies'
  OBVIOUS
<1> USE Markers, BoundAssumption, Fields, Default DEF TypeOK, Tokens, NoToken, Procs, GoTo,
         AgentPoints, CommandPoints, Hurts, Written, files, platform, procs, history,
         Unedited, Bounded, Granted, NotYet, Copies, SettingKept
<1>1. ASSUME Load PROVE Copies'
  BY <1>1, Loaded
<1>2. ASSUME UseStored PROVE Copies'
  BY <1>2 DEF UseStored, StoredIdentity, Readable
<1>3. ASSUME CompleteEnrollment PROVE Copies'
  BY <1>3 DEF CompleteEnrollment
<1>4. ASSUME NoIdentity PROVE Copies'
  BY <1>4 DEF NoIdentity
<1>5. ASSUME Use PROVE Copies'
  BY <1>5 DEF Use
<1>6. ASSUME Authenticate PROVE Copies'
  BY <1>6 DEF Authenticate
<1>7. ASSUME NEW p \in Procs, Approved(p) PROVE Copies'
  BY <1>7 DEF Approved
<1>8. ASSUME NEW p \in Procs, NotApproved(p) PROVE Copies'
  BY <1>8 DEF NotApproved, Ended
<1>9. ASSUME NEW p \in Procs, SaveState(p) PROVE Copies'
  BY <1>9, StateSaved
<1>10. ASSUME NEW p \in Procs, SaveDenied(p) PROVE Copies'
  BY <1>10 DEF SaveDenied, NotSaved, Ended
<1>11. ASSUME NEW p \in Procs, SaveConfig(p) PROVE Copies'
  BY <1>11, ConfigSaved DEF SaveConfig, AfterConfig
<1>12. ASSUME SetSave PROVE Copies'
  BY <1>12 DEF SetSave
<1>13. ASSUME SetRestart PROVE Copies'
  BY <1>13 DEF SetRestart
<1>14. ASSUME InstallUnit PROVE Copies'
  BY <1>14 DEF InstallUnit
<1>15. ASSUME Bootstrap PROVE Copies'
  <2> SUFFICES ASSUME hurt' \cap {"clobbered", "defaulted"} = {}
               PROVE  /\ pc'["agent"] # "down" /\ ~unapplied' => Effect(cfg'["agent"]) = wanted'
                      /\ pc'["command"] \notin {"idle", "setting"}
                           => Effect(cfg'["command"]) = wanted'
    OBVIOUS
  <2>1. hurt' = hurt /\ Effect(config') = wanted
    BY <1>15, SettingsCarried
  <2>2. /\ cfg'["command"] = config' /\ cfg'["agent"] = cfg["agent"]
        /\ pc'["agent"] = pc["agent"] /\ UNCHANGED <<wanted, unapplied>>
    BY <1>15, IdentityCleared
  <2>3. QED
    BY <2>1, <2>2, Zenon
<1>16. ASSUME Consume PROVE Copies'
  BY <1>16 DEF Consume
<1>17. ASSUME ConsumeFails PROVE Copies'
  BY <1>17 DEF ConsumeFails
<1>18. ASSUME Check PROVE Copies'
  BY <1>18 DEF Check
<1>19. ASSUME Initiate PROVE Copies'
  BY <1>19, Invited DEF Initiate
<1>20. ASSUME InitiateFails PROVE Copies'
  BY <1>20 DEF InitiateFails
<1>21. ASSUME StartService PROVE Copies'
  BY <1>21 DEF StartService
<1>22. ASSUME SetLoad PROVE Copies'
  BY <1>22, Chosen
<1>23. ASSUME Chown PROVE Copies'
  BY <1>23 DEF Chown
<1>24. ASSUME NEW enroll \in {"none", "bootstrap"}, InstallSave(enroll) PROVE Copies'
  BY <1>24, Reinstalled
<1>25. ASSUME Enroll PROVE Copies'
  BY <1>25, Read DEF Enroll, Begin
<1>26. ASSUME ServiceAction PROVE Copies'
  BY <1>26 DEF ServiceAction
<1>27. ASSUME Rotate PROVE Copies'
  BY <1>27 DEF Rotate
<1>28. ASSUME Decide PROVE Copies'
  BY <1>28, Decided
<1>29. ASSUME InstallFails PROVE Copies'
  BY <1>29 DEF InstallFails
<1>30. ASSUME NEW p \in Procs, StateFails(p) PROVE Copies'
  BY <1>30, StateTorn DEF StateFails, NotSaved, Ended
<1>31. ASSUME NEW p \in Procs, ConfigFails(p) PROVE Copies'
  BY <1>31 DEF ConfigFails, AfterConfig
<1>32. ASSUME NEW p \in Procs, Crash(p) PROVE Copies'
  BY <1>32, StateTorn DEF Crash, Ended
<1>33. ASSUME UNCHANGED vars PROVE Copies'
  BY <1>33 DEF vars
<1>34. QED
  BY <1>1, <1>2, <1>3, <1>4, <1>5, <1>6, <1>7, <1>8, <1>9, <1>10, <1>11, <1>12,
     <1>13, <1>14, <1>15, <1>16, <1>17, <1>18, <1>19, <1>20, <1>21, <1>22,
     <1>23, <1>24, <1>25, <1>26, <1>27, <1>28, <1>29, <1>30, <1>31, <1>32,
     <1>33
     DEF Next, AgentStep, Persist, CommandStep, Fault

\* Whoever writes the file back has the last settings in its copy.
LEMMA SettingStep ==
  TypeOK /\ Bounded /\ Granted /\ NotYet /\ Copies /\ SettingKept /\ [Next]_vars => SettingKept'
<1> SUFFICES ASSUME TypeOK /\ Bounded /\ Granted /\ NotYet /\ Copies /\ SettingKept, [Next]_vars
             PROVE  SettingKept'
  OBVIOUS
<1> USE Markers, BoundAssumption, Fields, Default DEF TypeOK, Tokens, NoToken, Procs, GoTo,
         AgentPoints, CommandPoints, Hurts, Written, files, platform, procs, history,
         Unedited, Bounded, Granted, NotYet, Copies, SettingKept
<1>1. ASSUME Load PROVE SettingKept'
  BY <1>1, Loaded
<1>2. ASSUME UseStored PROVE SettingKept'
  BY <1>2 DEF UseStored, StoredIdentity, Readable
<1>3. ASSUME CompleteEnrollment PROVE SettingKept'
  BY <1>3 DEF CompleteEnrollment
<1>4. ASSUME NoIdentity PROVE SettingKept'
  BY <1>4 DEF NoIdentity
<1>5. ASSUME Use PROVE SettingKept'
  BY <1>5 DEF Use
<1>6. ASSUME Authenticate PROVE SettingKept'
  BY <1>6 DEF Authenticate
<1>7. ASSUME NEW p \in Procs, Approved(p) PROVE SettingKept'
  BY <1>7 DEF Approved
<1>8. ASSUME NEW p \in Procs, NotApproved(p) PROVE SettingKept'
  BY <1>8 DEF NotApproved, Ended
<1>9. ASSUME NEW p \in Procs, SaveState(p) PROVE SettingKept'
  BY <1>9, StateSaved
<1>10. ASSUME NEW p \in Procs, SaveDenied(p) PROVE SettingKept'
  BY <1>10 DEF SaveDenied, NotSaved, Ended
<1>11. ASSUME NEW p \in Procs, SaveConfig(p) PROVE SettingKept'
  BY <1>11, ConfigSaved DEF SaveConfig, AfterConfig
<1>12. ASSUME SetSave PROVE SettingKept'
  BY <1>12 DEF SetSave
<1>13. ASSUME SetRestart PROVE SettingKept'
  BY <1>13 DEF SetRestart
<1>14. ASSUME InstallUnit PROVE SettingKept'
  BY <1>14 DEF InstallUnit
<1>15. ASSUME Bootstrap PROVE SettingKept'
  <2> SUFFICES ASSUME hurt' \cap {"clobbered", "defaulted"} = {}
               PROVE  Effect(config') = wanted'
    OBVIOUS
  <2>1. Effect(config') = wanted
    BY <1>15, SettingsCarried
  <2>2. QED
    BY <1>15, <2>1, IdentityCleared
<1>16. ASSUME Consume PROVE SettingKept'
  BY <1>16 DEF Consume
<1>17. ASSUME ConsumeFails PROVE SettingKept'
  BY <1>17 DEF ConsumeFails
<1>18. ASSUME Check PROVE SettingKept'
  BY <1>18 DEF Check
<1>19. ASSUME Initiate PROVE SettingKept'
  BY <1>19, Invited DEF Initiate
<1>20. ASSUME InitiateFails PROVE SettingKept'
  BY <1>20 DEF InitiateFails
<1>21. ASSUME StartService PROVE SettingKept'
  BY <1>21 DEF StartService
<1>22. ASSUME SetLoad PROVE SettingKept'
  BY <1>22, Chosen
<1>23. ASSUME Chown PROVE SettingKept'
  BY <1>23 DEF Chown
<1>24. ASSUME NEW enroll \in {"none", "bootstrap"}, InstallSave(enroll) PROVE SettingKept'
  BY <1>24, Reinstalled
<1>25. ASSUME Enroll PROVE SettingKept'
  BY <1>25, Read DEF Enroll, Begin
<1>26. ASSUME ServiceAction PROVE SettingKept'
  BY <1>26 DEF ServiceAction
<1>27. ASSUME Rotate PROVE SettingKept'
  BY <1>27 DEF Rotate
<1>28. ASSUME Decide PROVE SettingKept'
  BY <1>28, Decided
<1>29. ASSUME InstallFails PROVE SettingKept'
  BY <1>29 DEF InstallFails
<1>30. ASSUME NEW p \in Procs, StateFails(p) PROVE SettingKept'
  BY <1>30, StateTorn DEF StateFails, NotSaved, Ended
<1>31. ASSUME NEW p \in Procs, ConfigFails(p) PROVE SettingKept'
  BY <1>31 DEF ConfigFails, AfterConfig
<1>32. ASSUME NEW p \in Procs, Crash(p) PROVE SettingKept'
  BY <1>32, StateTorn DEF Crash, Ended
<1>33. ASSUME UNCHANGED vars PROVE SettingKept'
  BY <1>33 DEF vars
<1>34. QED
  BY <1>1, <1>2, <1>3, <1>4, <1>5, <1>6, <1>7, <1>8, <1>9, <1>10, <1>11, <1>12,
     <1>13, <1>14, <1>15, <1>16, <1>17, <1>18, <1>19, <1>20, <1>21, <1>22,
     <1>23, <1>24, <1>25, <1>26, <1>27, <1>28, <1>29, <1>30, <1>31, <1>32,
     <1>33
     DEF Next, AgentStep, Persist, CommandStep, Fault

\* The files outlast the tokens in use.
LEMMA NewestStep == IInv /\ [Next]_vars => Newest'
<1> SUFFICES ASSUME IInv, [Next]_vars PROVE Newest'
  OBVIOUS
<1> USE Markers, BoundAssumption, Fields, Default DEF TypeOK, Tokens, NoToken, Procs, GoTo,
         AgentPoints, CommandPoints, Hurts, Written, files, platform, procs, history,
         Unedited, IInv, Bounded, Granted, InPlace, NotYet, NewHost, OnFile, Newest,
         Outlasts, OldOnFile, Older, Enrolling
<1>1. ASSUME Load PROVE Newest'
  <2>1. /\ OldOnFile' = OldOnFile /\ pc["agent"] = "down" /\ pc' = [pc EXCEPT !["agent"] = "loaded"]
        /\ UNCHANGED <<config, state, accepted, used, new>> /\ cfg'["command"] = cfg["command"]
    BY <1>1, Loaded
  <2>2. OnFile(cfg["agent"])' = OnFile(config)
    BY <1>1, Loaded
  <2>3. ~OldOnFile => config.path = Home
    BY <1>1, Loaded
  <2>4. ASSUME NEW t \in Tokens, Outlasts(t), t >= OnFile(config) PROVE Outlasts(t)'
    BY <2>1, <2>2, <2>4
  <2>5. Written(config) /\ config.token \in 0..MaxTokens
    BY <1>1, Loaded
  <2>6. /\ ~OldOnFile /\ state[Home] \in Tokens => state[Home] >= OnFile(config)
        /\ config.token # NoToken => config.token >= OnFile(config)
    BY <2>3, <2>5
  <2>7. ~OldOnFile' /\ state'[Home] \in Tokens => Outlasts(state[Home])'
    BY <2>1, <2>4, <2>6
  <2>8. ~OldOnFile' /\ Written(config') /\ config'.token # NoToken => Outlasts(config.token)'
    BY <2>1, <2>4, <2>5, <2>6
  <2>9. QED
    BY <2>1, <2>7, <2>8
<1>2. ASSUME UseStored PROVE Newest'
  BY <1>2 DEF UseStored, StoredIdentity, Readable
<1>3. ASSUME CompleteEnrollment PROVE Newest'
  BY <1>3 DEF CompleteEnrollment
<1>4. ASSUME NoIdentity PROVE Newest'
  BY <1>4 DEF NoIdentity
<1>5. ASSUME Use PROVE Newest'
  BY <1>5 DEF Use
<1>6. ASSUME Authenticate PROVE Newest'
  BY <1>6 DEF Authenticate
<1>7. ASSUME NEW p \in Procs, Approved(p) PROVE Newest'
  BY <1>7 DEF Approved
<1>8. ASSUME NEW p \in Procs, NotApproved(p) PROVE Newest'
  BY <1>8 DEF NotApproved, Ended
<1>9. ASSUME NEW p \in Procs, SaveState(p) PROVE Newest'
  BY <1>9, StateSaved
<1>10. ASSUME NEW p \in Procs, SaveDenied(p) PROVE Newest'
  BY <1>10 DEF SaveDenied, NotSaved, Ended
<1>11. ASSUME NEW p \in Procs, SaveConfig(p) PROVE Newest'
  <2>1. OldOnFile' \/ (~Older(new[p]) /\ (OldOnFile => p = "agent" /\ state[cfg[p].path] = new[p]))
    BY <1>11 DEF SaveConfig
  <2>2. ~Older(new[p]) => new[p] = issued /\ new[p] \in accepted
    BY <1>11, ConfigSaved
  <2>3. ~OldOnFile' => cfg[p].path = Home
    BY <1>11 DEF SaveConfig
  <2>4. QED
    BY <1>11, <2>1, <2>2, <2>3, ConfigSaved DEF AfterConfig
<1>12. ASSUME SetSave PROVE Newest'
  BY <1>12 DEF SetSave
<1>13. ASSUME SetRestart PROVE Newest'
  BY <1>13 DEF SetRestart
<1>14. ASSUME InstallUnit PROVE Newest'
  BY <1>14 DEF InstallUnit
<1>15. ASSUME Bootstrap PROVE Newest'
  BY <1>15, IdentityCleared
<1>16. ASSUME Consume PROVE Newest'
  BY <1>16 DEF Consume
<1>17. ASSUME ConsumeFails PROVE Newest'
  BY <1>17 DEF ConsumeFails
<1>18. ASSUME Check PROVE Newest'
  BY <1>18 DEF Check
<1>19. ASSUME Initiate PROVE Newest'
  BY <1>19, Invited DEF Initiate
<1>20. ASSUME InitiateFails PROVE Newest'
  BY <1>20 DEF InitiateFails
<1>21. ASSUME StartService PROVE Newest'
  BY <1>21 DEF StartService
<1>22. ASSUME SetLoad PROVE Newest'
  BY <1>22, Chosen
<1>23. ASSUME Chown PROVE Newest'
  BY <1>23 DEF Chown
<1>24. ASSUME NEW enroll \in {"none", "bootstrap"}, InstallSave(enroll) PROVE Newest'
  <2>1. OldOnFile' = OldOnFile /\ config'.token = NoToken
    BY <1>24, Reinstalled, ZenonT(60)
  <2>2. /\ UNCHANGED <<state, accepted, used, new>>
        /\ pc'["agent"] = pc["agent"] /\ cfg'["agent"] = cfg["agent"]
        /\ pc["command"] = "idle" /\ pc'["command"] = "installing"
    BY <1>24, Reinstalled
  <2>3. QED
    BY <1>24, <2>1, <2>2
<1>25. ASSUME Enroll PROVE Newest'
  BY <1>25, Read DEF Enroll, Begin
<1>26. ASSUME ServiceAction PROVE Newest'
  BY <1>26 DEF ServiceAction
<1>27. ASSUME Rotate PROVE Newest'
  BY <1>27 DEF Rotate
<1>28. ASSUME Decide PROVE Newest'
  BY <1>28, Decided
<1>29. ASSUME InstallFails PROVE Newest'
  BY <1>29 DEF InstallFails
<1>30. ASSUME NEW p \in Procs, StateFails(p) PROVE Newest'
  BY <1>30, StateTorn DEF StateFails, NotSaved, Ended
<1>31. ASSUME NEW p \in Procs, ConfigFails(p) PROVE Newest'
  BY <1>31 DEF ConfigFails, AfterConfig
<1>32. ASSUME NEW p \in Procs, Crash(p) PROVE Newest'
  BY <1>32, StateTorn DEF Crash, Ended
<1>33. ASSUME UNCHANGED vars PROVE Newest'
  BY <1>33 DEF vars
<1>34. QED
  BY <1>1, <1>2, <1>3, <1>4, <1>5, <1>6, <1>7, <1>8, <1>9, <1>10, <1>11, <1>12,
     <1>13, <1>14, <1>15, <1>16, <1>17, <1>18, <1>19, <1>20, <1>21, <1>22,
     <1>23, <1>24, <1>25, <1>26, <1>27, <1>28, <1>29, <1>30, <1>31, <1>32,
     <1>33
     DEF Next, AgentStep, Persist, CommandStep, Fault

\* The agent, which alone retires a token, is up only when there is a state file.
LEMMA UnretiredStep == IInv /\ [Next]_vars => Unretired'
<1> SUFFICES ASSUME IInv, [Next]_vars PROVE Unretired'
  OBVIOUS
<1> USE Markers, BoundAssumption, Fields, Default DEF TypeOK, Tokens, NoToken, Procs, GoTo,
         AgentPoints, CommandPoints, Hurts, Written, files, platform, procs, history,
         Unedited, IInv, Bounded, Granted, InPlace, NotYet, NewHost, OnFile, Unretired
<1>1. ASSUME Load PROVE Unretired'
  BY <1>1, Loaded
<1>2. ASSUME UseStored PROVE Unretired'
  BY <1>2 DEF UseStored, StoredIdentity, Readable
<1>3. ASSUME CompleteEnrollment PROVE Unretired'
  BY <1>3 DEF CompleteEnrollment
<1>4. ASSUME NoIdentity PROVE Unretired'
  BY <1>4 DEF NoIdentity
<1>5. ASSUME Use PROVE Unretired'
  BY <1>5 DEF Use
<1>6. ASSUME Authenticate PROVE Unretired'
  BY <1>6 DEF Authenticate
<1>7. ASSUME NEW p \in Procs, Approved(p) PROVE Unretired'
  BY <1>7 DEF Approved
<1>8. ASSUME NEW p \in Procs, NotApproved(p) PROVE Unretired'
  BY <1>8 DEF NotApproved, Ended
<1>9. ASSUME NEW p \in Procs, SaveState(p) PROVE Unretired'
  BY <1>9, StateSaved, SMTT(60)
<1>10. ASSUME NEW p \in Procs, SaveDenied(p) PROVE Unretired'
  BY <1>10 DEF SaveDenied, NotSaved, Ended
<1>11. ASSUME NEW p \in Procs, SaveConfig(p) PROVE Unretired'
  BY <1>11, ConfigSaved DEF SaveConfig, AfterConfig
<1>12. ASSUME SetSave PROVE Unretired'
  BY <1>12 DEF SetSave
<1>13. ASSUME SetRestart PROVE Unretired'
  BY <1>13 DEF SetRestart
<1>14. ASSUME InstallUnit PROVE Unretired'
  BY <1>14 DEF InstallUnit
<1>15. ASSUME Bootstrap PROVE Unretired'
  BY <1>15, IdentityCleared, SMTT(60)
<1>16. ASSUME Consume PROVE Unretired'
  BY <1>16, SMTT(60) DEF Consume
<1>17. ASSUME ConsumeFails PROVE Unretired'
  BY <1>17 DEF ConsumeFails
<1>18. ASSUME Check PROVE Unretired'
  BY <1>18 DEF Check
<1>19. ASSUME Initiate PROVE Unretired'
  BY <1>19, Invited DEF Initiate
<1>20. ASSUME InitiateFails PROVE Unretired'
  BY <1>20 DEF InitiateFails
<1>21. ASSUME StartService PROVE Unretired'
  BY <1>21 DEF StartService
<1>22. ASSUME SetLoad PROVE Unretired'
  BY <1>22, Chosen
<1>23. ASSUME Chown PROVE Unretired'
  BY <1>23 DEF Chown
<1>24. ASSUME NEW enroll \in {"none", "bootstrap"}, InstallSave(enroll) PROVE Unretired'
  BY <1>24, Reinstalled, ZenonT(60)
<1>25. ASSUME Enroll PROVE Unretired'
  BY <1>25, Read DEF Enroll, Begin
<1>26. ASSUME ServiceAction PROVE Unretired'
  BY <1>26 DEF ServiceAction
<1>27. ASSUME Rotate PROVE Unretired'
  BY <1>27 DEF Rotate
<1>28. ASSUME Decide PROVE Unretired'
  <2>1. CASE request' = "approved"
    <3>1. issued \in 0..MaxTokens /\ issued' = issued + 1 /\ accepted' = accepted \cup {issued + 1}
      BY <1>28, <2>1 DEF Decide
    <3>2. 1..(issued + 1) = (1..issued) \cup {issued + 1}
      BY <3>1
    <3>3. QED
      BY <1>28, <3>1, <3>2, Decided
  <2>2. CASE request' # "approved"
    BY <1>28, <2>2, Decided
  <2>3. QED
    BY <2>1, <2>2
<1>29. ASSUME InstallFails PROVE Unretired'
  BY <1>29 DEF InstallFails
<1>30. ASSUME NEW p \in Procs, StateFails(p) PROVE Unretired'
  BY <1>30, StateTorn DEF StateFails, NotSaved, Ended
<1>31. ASSUME NEW p \in Procs, ConfigFails(p) PROVE Unretired'
  BY <1>31 DEF ConfigFails, AfterConfig
<1>32. ASSUME NEW p \in Procs, Crash(p) PROVE Unretired'
  BY <1>32, StateTorn DEF Crash, Ended
<1>33. ASSUME UNCHANGED vars PROVE Unretired'
  BY <1>33 DEF vars
<1>34. QED
  BY <1>1, <1>2, <1>3, <1>4, <1>5, <1>6, <1>7, <1>8, <1>9, <1>10, <1>11, <1>12,
     <1>13, <1>14, <1>15, <1>16, <1>17, <1>18, <1>19, <1>20, <1>21, <1>22,
     <1>23, <1>24, <1>25, <1>26, <1>27, <1>28, <1>29, <1>30, <1>31, <1>32,
     <1>33
     DEF Next, AgentStep, Persist, CommandStep, Fault

\* What the agent is about to use was staged for it, granted to it, or found on disk.
LEMMA InUseStep == IInv /\ [Next]_vars => InUse'
<1> SUFFICES ASSUME IInv, [Next]_vars PROVE InUse'
  OBVIOUS
<1> USE Markers, BoundAssumption, Fields, Default DEF TypeOK, Tokens, NoToken, Procs, GoTo,
         AgentPoints, CommandPoints, Hurts, Written, files, platform, procs, history,
         Unedited, IInv, Bounded, Granted, InPlace, NotYet, NewHost, OnFile, Unretired,
         InUse, RunningAccepted, OldOnFile, Older
<1>1. ASSUME Load PROVE InUse'
  <2>1. /\ OldOnFile' = OldOnFile /\ pc["agent"] = "down" /\ pc' = [pc EXCEPT !["agent"] = "loaded"]
        /\ UNCHANGED <<state, accepted, used, new>>
    BY <1>1, Loaded
  <2>2. OnFile(cfg["agent"])' = OnFile(config)
    BY <1>1, Loaded
  <2>3. ~OldOnFile /\ OnFile(config) # NoToken => OnFile(config) \in accepted
    BY <1>1, Loaded DEF Newest, Outlasts
  <2>4. QED
    BY <2>1, <2>2, <2>3
<1>2. ASSUME UseStored PROVE InUse'
  BY <1>2 DEF UseStored, StoredIdentity, Readable
<1>3. ASSUME CompleteEnrollment PROVE InUse'
  BY <1>3 DEF CompleteEnrollment
<1>4. ASSUME NoIdentity PROVE InUse'
  BY <1>4 DEF NoIdentity
<1>5. ASSUME Use PROVE InUse'
  BY <1>5 DEF Use
<1>6. ASSUME Authenticate PROVE InUse'
  BY <1>6, SMTT(60) DEF Authenticate
<1>7. ASSUME NEW p \in Procs, Approved(p) PROVE InUse'
  BY <1>7, SMTT(60) DEF Approved
<1>8. ASSUME NEW p \in Procs, NotApproved(p) PROVE InUse'
  BY <1>8 DEF NotApproved, Ended
<1>9. ASSUME NEW p \in Procs, SaveState(p) PROVE InUse'
  <2>1. OldOnFile => OldOnFile'
    BY <1>9, StateSaved
  <2>2. ~OldOnFile' => ~Older(new[p])
    BY <1>9, StateSaved
  <2>3. new[p] \in Tokens /\ new[p] <= issued /\ (~Older(new[p]) => new[p] \in accepted)
    BY <1>9, StateSaved, SMTT(60)
  <2>4. /\ pc[p] = "saving" /\ pc' = [pc EXCEPT ![p] = "configuring"]
        /\ UNCHANGED <<cfg, accepted, used, new>>
        /\ \A path \in Paths : state'[path] = IF path = cfg[p].path THEN new[p] ELSE state[path]
    BY <1>9, StateSaved
  <2>5. pc["agent"] = "loaded" /\ OnFile(cfg["agent"])' # NoToken
          => OnFile(cfg["agent"])' \in accepted \/ OldOnFile'
    BY <2>1, <2>2, <2>3, <2>4
  <2>6. QED
    BY <2>1, <2>4, <2>5
<1>10. ASSUME NEW p \in Procs, SaveDenied(p) PROVE InUse'
  BY <1>10 DEF SaveDenied, NotSaved, Ended
<1>11. ASSUME NEW p \in Procs, SaveConfig(p) PROVE InUse'
  BY <1>11, ConfigSaved DEF SaveConfig, AfterConfig
<1>12. ASSUME SetSave PROVE InUse'
  BY <1>12 DEF SetSave
<1>13. ASSUME SetRestart PROVE InUse'
  BY <1>13 DEF SetRestart
<1>14. ASSUME InstallUnit PROVE InUse'
  BY <1>14 DEF InstallUnit
<1>15. ASSUME Bootstrap PROVE InUse'
  BY <1>15, IdentityCleared, SMTT(60)
<1>16. ASSUME Consume PROVE InUse'
  BY <1>16 DEF Consume
<1>17. ASSUME ConsumeFails PROVE InUse'
  BY <1>17 DEF ConsumeFails
<1>18. ASSUME Check PROVE InUse'
  BY <1>18 DEF Check
<1>19. ASSUME Initiate PROVE InUse'
  BY <1>19, Invited DEF Initiate
<1>20. ASSUME InitiateFails PROVE InUse'
  BY <1>20 DEF InitiateFails
<1>21. ASSUME StartService PROVE InUse'
  BY <1>21 DEF StartService
<1>22. ASSUME SetLoad PROVE InUse'
  BY <1>22, Chosen, SMTT(60)
<1>23. ASSUME Chown PROVE InUse'
  BY <1>23 DEF Chown
<1>24. ASSUME NEW enroll \in {"none", "bootstrap"}, InstallSave(enroll) PROVE InUse'
  <2>1. OldOnFile' = OldOnFile
    BY <1>24, Reinstalled, ZenonT(60)
  <2>2. /\ UNCHANGED <<state, accepted, used, new>>
        /\ pc'["agent"] = pc["agent"] /\ cfg'["agent"] = cfg["agent"]
    BY <1>24, Reinstalled
  <2>3. OnFile(cfg["agent"])' = OnFile(cfg["agent"])
    BY <2>2
  <2>4. QED
    BY <2>1, <2>2, <2>3
<1>25. ASSUME Enroll PROVE InUse'
  BY <1>25, Read DEF Enroll, Begin
<1>26. ASSUME ServiceAction PROVE InUse'
  BY <1>26 DEF ServiceAction
<1>27. ASSUME Rotate PROVE InUse'
  BY <1>27 DEF Rotate
<1>28. ASSUME Decide PROVE InUse'
  BY <1>28, Decided, SMTT(60)
<1>29. ASSUME InstallFails PROVE InUse'
  BY <1>29 DEF InstallFails
<1>30. ASSUME NEW p \in Procs, StateFails(p) PROVE InUse'
  BY <1>30, StateTorn, SMTT(60) DEF StateFails, NotSaved, Ended
<1>31. ASSUME NEW p \in Procs, ConfigFails(p) PROVE InUse'
  BY <1>31 DEF ConfigFails, AfterConfig
<1>32. ASSUME NEW p \in Procs, Crash(p) PROVE InUse'
  BY <1>32, StateTorn, SMTT(60) DEF Crash, Ended
<1>33. ASSUME UNCHANGED vars PROVE InUse'
  BY <1>33 DEF vars
<1>34. QED
  BY <1>1, <1>2, <1>3, <1>4, <1>5, <1>6, <1>7, <1>8, <1>9, <1>10, <1>11, <1>12,
     <1>13, <1>14, <1>15, <1>16, <1>17, <1>18, <1>19, <1>20, <1>21, <1>22,
     <1>23, <1>24, <1>25, <1>26, <1>27, <1>28, <1>29, <1>30, <1>31, <1>32,
     <1>33
     DEF Next, AgentStep, Persist, CommandStep, Fault

\* A fresh host, and an enrolled one whose agent is down.
LEMMA Starts == Init => IInv
<1> SUFFICES ASSUME NEW fresh \in Fresh, Init,
                    config = IF fresh THEN Absent ELSE [DefaultConfig EXCEPT !.token = 1],
                    state = [path \in Paths |-> IF path = Home /\ ~fresh THEN 1 ELSE Absent],
                    rootOwned \in {{}, IF fresh THEN {} ELSE {Home}},
                    unit = IF fresh THEN "none" ELSE "started",
                    issued = IF fresh THEN 0 ELSE 1,
                    accepted = IF fresh THEN {} ELSE {1}
             PROVE  IInv
  BY DEF Init
<1>1. /\ pc = [p \in Procs |-> IF p = "agent" THEN "down" ELSE "idle"]
      /\ cfg = [p \in Procs |-> DefaultConfig]
      /\ new = [p \in Procs |-> NoToken]
      /\ used = NoToken /\ commands = 0 /\ request = "none" /\ invitation = "unused"
      /\ granted = NoToken /\ faults = 0 /\ wanted = Effect(DefaultConfig)
      /\ unapplied = FALSE /\ hurt = {}
  BY DEF Init
<1>2. /\ pc["agent"] = "down" /\ pc["command"] = "idle"
      /\ \A p \in Procs : cfg[p] = DefaultConfig /\ new[p] = NoToken
  BY <1>1 DEF Procs
<1>3. /\ [DefaultConfig EXCEPT !.token = 1] \in Config
      /\ [DefaultConfig EXCEPT !.token = 1].token = 1
      /\ [DefaultConfig EXCEPT !.token = 1].path = Home
      /\ Effect([DefaultConfig EXCEPT !.token = 1]) = Effect(DefaultConfig)
  <2>1. 1 \in 0..MaxTokens
    BY BoundAssumption
  <2>2. QED
    BY <2>1, Default DEF Config, Effect
<1>4. /\ config \in Config \cup {Absent} /\ (config = Absent <=> fresh = TRUE)
      /\ config # Absent => /\ config.token = 1 /\ config.path = Home
                            /\ Effect(config) = Effect(DefaultConfig)
  BY <1>3, FreshAssumption, Markers
<1>5. /\ state \in [Paths -> Tokens \cup {Absent, Torn}]
      /\ state[Home] = IF fresh THEN Absent ELSE 1
      /\ \A path \in Paths : state[path] \in {Absent, 1}
      /\ rootOwned \subseteq Paths
  BY BoundAssumption, FreshAssumption, Markers DEF Tokens
<1>6. TypeOK
  <2>1. /\ config \in Config \cup {Absent, Torn}
        /\ issued \in 0..MaxTokens /\ accepted \in SUBSET Tokens
        /\ unit \in {"none", "installed", "started"}
    BY <1>4, BoundAssumption DEF Tokens
  <2>2. /\ pc \in [Procs -> AgentPoints \cup CommandPoints]
        /\ pc["agent"] \in AgentPoints /\ pc["command"] \in CommandPoints
    BY <1>1, <1>2 DEF AgentPoints, CommandPoints
  <2>3. cfg \in [Procs -> Config] /\ new \in [Procs -> 0..MaxTokens]
    BY <1>1, Default, BoundAssumption DEF NoToken
  <2>4. /\ used \in 0..MaxTokens /\ granted \in 0..MaxTokens
        /\ commands \in 0..MaxCommands /\ faults \in 0..MaxFaults
    BY <1>1, BoundAssumption DEF NoToken
  <2>5. wanted \in [setting : 0..MaxCommands, timeout : {"default", "raised"}]
    BY <1>1, Default, Fields
  <2>6. /\ request \in {"none", "pending", "approved", "rejected"}
        /\ invitation \in {"unused", "used"}
        /\ unapplied \in BOOLEAN /\ hurt \in SUBSET Hurts
    BY <1>1
  <2>7. QED
    BY <1>5, <2>1, <2>2, <2>3, <2>4, <2>5, <2>6 DEF TypeOK
<1>7. Bounded
  BY <1>1, <1>2, <1>4, <1>5, Default, BoundAssumption, Markers
  DEF Bounded, NoToken, Written, Tokens
<1>8. Granted /\ NewHost /\ Copies
  BY <1>1, <1>2 DEF Granted, NewHost, Copies, Enrolling, Procs
<1>9. InPlace /\ NotYet
  BY <1>1, <1>2, <1>4, <1>5, Default, Markers, BoundAssumption
  DEF InPlace, NotYet, Written, Procs, Tokens
<1>10. SettingKept
  BY <1>1, <1>4, Markers DEF SettingKept, Written
<1>11. Newest
  BY <1>1, <1>2, <1>4, <1>5, Markers, BoundAssumption
  DEF Newest, Outlasts, OldOnFile, Written, Procs, NoToken, Tokens, OnFile
<1>12. Unretired /\ InUse
  BY <1>1, <1>2, <1>4, <1>5, Markers, BoundAssumption
  DEF Unretired, InUse, RunningAccepted, NoToken, Tokens, Procs
<1>13. QED
  BY <1>6, <1>7, <1>8, <1>9, <1>10, <1>11, <1>12 DEF IInv

\* The invariant holds throughout.
LEMMA Invariance == Spec => []IInv
<1>1. IInv /\ [Next]_vars => IInv'
  BY TypeStep, InPlaceStep, BoundStep, GrantStep, NotYetStep, NewHostStep, CopiesStep,
     SettingStep, NewestStep, UnretiredStep, InUseStep DEF IInv
<1>2. QED
  BY Starts, <1>1, PTL DEF Spec

\* The state is well typed: no run of a command or of the agent leaves the points and
\* the values declared.
THEOREM TypeCorrect == Spec => []TypeOK
<1>1. IInv => TypeOK
  BY DEF IInv
<1>2. QED
  BY Invariance, <1>1, PTL

\* Whenever the agent ends, the identity that a start finds is one the platform
\* accepts: persistIdentity is through with both files before the token is used and
\* the older one retired (agent/service.go:162-173).
THEOREM RestartAcceptance == Spec => []RestartAccepted
<1>1. IInv => RestartAccepted
  <2> SUFFICES ASSUME IInv, ~OldOnFile, Written(config), StoredIdentity(config) # NoToken
               PROVE  StoredIdentity(config) \in accepted
    BY Zenon DEF RestartAccepted, RestartToken
  <2>1. config.path = Home
    BY DEF IInv, InPlace, Unedited, OldOnFile
  <2>2. QED
    BY <2>1, Markers DEF IInv, Newest, Outlasts, StoredIdentity, Readable
<1>2. QED
  BY Invariance, <1>1, PTL

\* A running agent authenticates with a token the platform accepts, whatever commands
\* wrote to its files and retired requests answered since it read them.
THEOREM RunningAcceptance == Spec => []RunningAccepted
<1>1. IInv => RunningAccepted
  BY DEF IInv, InUse
<1>2. QED
  BY Invariance, <1>1, PTL

\* An agent that has an identity finds one again when it is started, unless a write was
\* cut short, the state file belongs to root, or the operator has moved it: whoever
\* takes the identity out of the config file, it is in a state file that decodes, at the
\* path the config file names, and open to the service.
THEOREM IdentityRetention == Spec => []IdentityKept
<1>1. IInv => IdentityKept
  <2> SUFFICES ASSUME IInv, used # NoToken, Torn \notin {config, state[Home]},
                      Home \notin rootOwned, Unedited
               PROVE  RestartToken # NoToken
    BY DEF IdentityKept, Unedited
  <2>1. Written(config) /\ config.path = Home
    BY DEF IInv, InPlace, NotYet, Granted, Written
  <2>2. state[Home] \in Tokens
    BY Markers DEF IInv, TypeOK, NotYet
  <2>3. QED
    BY <2>1, <2>2, Markers DEF RestartToken, StoredIdentity, Readable
<1>2. QED
  BY Invariance, <1>1, PTL

\* Rotations and enrollments write the whole config file back, with a timeout that
\* reading has raised, and a start makes the same of it as of what a command wrote
\* last: unless the agent was not started again with that first, or `bootstrap` could
\* not read the file.
THEOREM SettingRetention == Spec => []SettingKept
<1>1. IInv => SettingKept
  BY DEF IInv
<1>2. QED
  BY Invariance, <1>1, PTL

====
