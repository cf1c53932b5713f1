-------------------------- MODULE ManagedHostProofs --------------------------
(****************************************************************************)
(* Proofs about ManagedHost: nothing corrupt is ever installed, a removal   *)
(* leaves nothing behind, a failed update does not go unnoticed, and what a *)
(* confirmed one reports is so.                                             *)
(****************************************************************************)
EXTENDS ManagedHost, TLAPS

-------------------------------------------------------------------------------
(* The inductive invariant *)

AtRest(t) == pc[t] \in {"none", "ended"}

\* An updater that has verified its download never holds a corrupt one; nothing but
\* an interrupted copy leaves a torn binary, and a copy begins with it.
Whole ==
  /\ BinaryWhole
  /\ \A t \in Targets : pc[t] = "staging" => file[t] # Broken
  /\ cmd = "copying" /\ ~crowded => binary = Broken

\* A command that nobody crowds is alone, and once a removal has stopped the service
\* nothing starts it again, nor an updater.
Alone ==
  ~crowded =>
    /\ CommandRuns \/ cmd = "removed" => \A t \in Targets : AtRest(t)
    /\ cmd \in {"removeUnit", "removeHelpers", "removeConfig", "removeState", "removeDirs",
                "removed"}
         => running = None /\ unit # "started"

\* What a removal has removed so far stays removed.
Removal ==
  ~crowded =>
    /\ cmd \in {"removeHelpers", "removeConfig", "removeState", "removeDirs", "removed"}
         => unit = "none"
    /\ cmd \in {"removeConfig", "removeState", "removeDirs", "removed"} => helpers = None
    /\ cmd = "removed" => binary = None /\ next = None

\* The next removal, and the one under way, finds the config and the state file, or
\* they are stranded: an installation finds them again, or strands the state file.
Named ==
  /\ cmd \in {"idle", "config", "removed"} => Unnamed \subseteq stranded
  /\ cmd \in {"binary", "copying", "helpers", "start"}
       => path = "default" /\ ("custom" \in states => "state" \in stranded)
  /\ cmd \in {"stop", "removeUnit", "removeHelpers", "removeConfig"}
       => config = None \/ knows = place \/ "config" \in stranded
  /\ cmd \in {"stop", "removeUnit", "removeHelpers", "removeConfig", "removeState"}
       => ("custom" \in states => knowsState = "custom" \/ "state" \in stranded)
  /\ cmd \in {"removeState", "removeDirs", "removed"} => config = None \/ "config" \in stranded
  /\ cmd \in {"removeDirs", "removed"} => ("custom" \in states => "state" \in stranded)
  /\ cmd = "removed" => "default" \notin states

\* The platform has been told that the target failed, or could not be.
Known(t) == AtRest(t) /\ (last[t] = "failed" \/ t \in silent)

\* A target that failed is known to have, or is being tried once more and has not
\* yet changed what it had left.
Noticed(t, points) == t \in failed /\ (Known(t) \/ pc[t] \in points)

Early == {"starting", "fetching", "verifying", "staging", "replacing"}

Noticing ==
  /\ helpers = Broken /\ "helpers" \notin torn
       => \E t \in Targets : Noticed(t, Early \cup {"refreshing"})
  /\ running \notin {None, binary} /\ ~crowded
       => \E t \in Targets : Noticed(t, Early) \/ pc[t] \in {"refreshing", "restarting"}

\* An updater that meets nobody finds on the host what it has put there.
Unmet ==
  \A t \in Targets \ met : AtWork(t) =>
    /\ ~CommandRuns
    /\ \A u \in Targets \ {t} : AtRest(u)
    /\ last[t] \notin Final
    /\ pc[t] = "replacing" => next \in {target[t], None}
    /\ pc[t] \in {"refreshing", "restarting", "waiting"} => binary = target[t]
    /\ pc[t] = "waiting" => running \in {None, target[t]}

\* The download is what the manifest of the target named, unless it is corrupt or
\* its directory was removed.
Fetched ==
  \A t \in Targets :
    /\ pc[t] = "verifying" => file[t] \in {target[t], Broken, None}
    /\ pc[t] = "staging" => file[t] \in {target[t], None}

\* The parts, with the type invariant.
IInv ==
  /\ TypeOK /\ Whole /\ Alone /\ Removal /\ Named /\ Noticing /\ Unmet /\ Fetched

-------------------------------------------------------------------------------
(* Reports and faults *)

\* A report changes what was told of its target, or counts as lost.
LEMMA Reported ==
  ASSUME TypeOK, NEW t \in Targets, NEW status, Report(t, status)
  PROVE  /\ \A u \in Targets \ {t} : last'[u] = last[u] /\ (u \in silent' <=> u \in silent)
         /\ t \in silent => t \in silent'
         /\ last'[t] \in {last[t], status}
         /\ last'[t] = status \/ t \in silent'
  BY DEF Report, Told, NotTold, TypeOK

\* ... of which the types are kept.
LEMMA ReportTyped ==
  ASSUME TypeOK, NEW t \in Targets, NEW status \in Statuses, Report(t, status)
  PROVE  /\ last' \in [Targets -> Statuses] /\ silent' \in SUBSET Targets
         /\ faults' \in 0..MaxFaults
  BY BoundAssumption DEF Report, Told, NotTold, Fault, TypeOK

\* A fault is counted.
LEMMA Faulted ==
  ASSUME TypeOK, NEW kind, Fault(kind)
  PROVE  faults' \in 0..MaxFaults
  BY BoundAssumption DEF Fault, TypeOK

\* What arrives is what the manifest named, or corrupt.
LEMMA Downloaded ==
  ASSUME TypeOK, NEW t \in Targets, Download(t)
  PROVE  /\ file' \in [Targets -> Versions \cup {None, Broken}]
         /\ file'[t] \in {target[t], Broken}
         /\ \A u \in Targets \ {t} : file'[u] = file[u]
  BY DEF Download, TypeOK

-------------------------------------------------------------------------------
(* Every step *)

\* Every step keeps the state well typed.
LEMMA TypeStep == TypeOK /\ [Next]_vars => TypeOK'
<1> SUFFICES ASSUME TypeOK, [Next]_vars PROVE TypeOK'
  OBVIOUS
<1> USE VersionAssumption, TargetAssumption DEF TypeOK, GoTo, sites, hostVars,
         updaterVars, args, commandVars, history, AtWork, CommandRuns, Points, Statuses, Steps,
         Executable
<1>1. ASSUME NEW t \in Targets, NEW v \in Versions, Launch(t, v) PROVE TypeOK'
  <2>1. {u \in Targets : AtWork(u)} \subseteq Targets
    OBVIOUS
  <2>2. met' \in SUBSET Targets /\ crowded' \in BOOLEAN /\ requests' \in 0..MaxRequests
    BY <1>1, <2>1, BoundAssumption DEF Launch, Meeting
  <2>3. QED
    BY <1>1, <2>2 DEF Launch, Meeting
<1>2. ASSUME NEW t \in Targets, LaunchFails(t) PROVE TypeOK'
  <2>1. requests' \in 0..MaxRequests /\ met' \in SUBSET Targets
    BY <1>2, BoundAssumption DEF LaunchFails
  <2>2. QED
    BY <1>2, <2>1, ReportTyped DEF LaunchFails
<1>3. ASSUME NEW t \in Targets, Begin(t) PROVE TypeOK'
  BY <1>3, ReportTyped DEF Begin
<1>4. ASSUME NEW t \in Targets, BeginFails(t) PROVE TypeOK'
  BY <1>4 DEF BeginFails
<1>5. ASSUME NEW t \in Targets, Download(t) PROVE TypeOK'
  BY <1>5, ReportTyped, Downloaded DEF Download
<1>6. ASSUME NEW t \in Targets, DownloadFails(t) PROVE TypeOK'
  BY <1>6, ReportTyped DEF DownloadFails, Fail
<1>7. ASSUME NEW t \in Targets, Verify(t) PROVE TypeOK'
  BY <1>7, ReportTyped DEF Verify, Verified
<1>8. ASSUME NEW t \in Targets, VerifyFails(t) PROVE TypeOK'
  BY <1>8, ReportTyped DEF VerifyFails, Fail
<1>9. ASSUME NEW t \in Targets, Stage(t) PROVE TypeOK'
  BY <1>9 DEF Stage
<1>10. ASSUME NEW t \in Targets, Replace(t) PROVE TypeOK'
  BY <1>10 DEF Replace
<1>11. ASSUME NEW t \in Targets, InstallFails(t) PROVE TypeOK'
  BY <1>11, ReportTyped DEF InstallFails, Fail
<1>12. ASSUME NEW t \in Targets, Refresh(t) PROVE TypeOK'
  BY <1>12, ReportTyped DEF Refresh
<1>13. ASSUME NEW t \in Targets, RefreshFails(t) PROVE TypeOK'
  BY <1>13, ReportTyped DEF RefreshFails, Fail
<1>14. ASSUME NEW t \in Targets, Restart(t) PROVE TypeOK'
  BY <1>14 DEF Restart
<1>15. ASSUME NEW t \in Targets, RestartFails(t) PROVE TypeOK'
  BY <1>15, ReportTyped DEF RestartFails, Fail
<1>16. ASSUME NEW t \in Targets, Confirm(t) PROVE TypeOK'
  BY <1>16, ReportTyped DEF Confirm
<1>17. ASSUME NEW t \in Targets, NotActive(t) PROVE TypeOK'
  BY <1>17, ReportTyped DEF NotActive, Fail
<1>18. ASSUME NEW t \in Targets, Kill(t) PROVE TypeOK'
  BY <1>18, Faulted DEF Kill
<1>19. ASSUME ServiceEnds PROVE TypeOK'
  BY <1>19, Faulted DEF ServiceEnds
<1>20. ASSUME ServiceRestarts PROVE TypeOK'
  BY <1>20 DEF ServiceRestarts
<1>21. ASSUME NEW v \in Versions, InstallStarts(v) PROVE TypeOK'
  <2>1. {u \in Targets : AtWork(u)} \subseteq Targets
    OBVIOUS
  <2>2. met' \in SUBSET Targets /\ crowded' \in BOOLEAN /\ requests' \in 0..MaxRequests
    BY <1>21, <2>1, BoundAssumption DEF InstallStarts, Command
  <2>3. QED
    BY <1>21, <2>2 DEF InstallStarts, Command
<1>22. ASSUME UninstallStarts PROVE TypeOK'
  <2>1. {u \in Targets : AtWork(u)} \subseteq Targets
    OBVIOUS
  <2>2. met' \in SUBSET Targets /\ crowded' \in BOOLEAN /\ requests' \in 0..MaxRequests
    BY <1>22, <2>1, BoundAssumption DEF UninstallStarts, Command
  <2>3. knows' \in {"default", "custom"} /\ knowsState' \in {"default", "custom"}
    BY <1>22, PlaceAssumption DEF UninstallStarts
  <2>4. QED
    BY <1>22, <2>2, <2>3 DEF UninstallStarts, Command
<1>23. ASSUME InstallConfig PROVE TypeOK'
  BY <1>23 DEF InstallConfig, Step
<1>24. ASSUME InstallTruncate PROVE TypeOK'
  BY <1>24 DEF InstallTruncate, Step
<1>25. ASSUME InstallCopy PROVE TypeOK'
  BY <1>25 DEF InstallCopy
<1>26. ASSUME InstallHelpers PROVE TypeOK'
  BY <1>26 DEF InstallHelpers, Step
<1>27. ASSUME InstallEnds PROVE TypeOK'
  <2>1. config' \in {config, "identity"} /\ states' \subseteq {"default", "custom"}
    BY <1>27 DEF InstallEnds
  <2>2. QED
    BY <1>27, <2>1 DEF InstallEnds, Step
<1>28. ASSUME InstallBusy PROVE TypeOK'
  <2>1. stranded' \subseteq {"config", "state"}
    BY <1>28 DEF InstallBusy, Unnamed
  <2>2. QED
    BY <1>28, <2>1 DEF InstallBusy, Step
<1>29. ASSUME UninstallStop PROVE TypeOK'
  BY <1>29 DEF UninstallStop, Step
<1>30. ASSUME UninstallUnit PROVE TypeOK'
  BY <1>30 DEF UninstallUnit, Step
<1>31. ASSUME UninstallHelpers PROVE TypeOK'
  BY <1>31 DEF UninstallHelpers, Step
<1>32. ASSUME UninstallConfig PROVE TypeOK'
  BY <1>32 DEF UninstallConfig, Step
<1>33. ASSUME UninstallState PROVE TypeOK'
  BY <1>33 DEF UninstallState, Step
<1>34. ASSUME UninstallDirs PROVE TypeOK'
  BY <1>34 DEF UninstallDirs, Step
<1>35. ASSUME CommandFails PROVE TypeOK'
  <2>1. stranded' \subseteq {"config", "state"}
    BY <1>35 DEF CommandFails, Unnamed
  <2>2. QED
    BY <1>35, <2>1, Faulted DEF CommandFails
<1>36. ASSUME UNCHANGED vars PROVE TypeOK'
  BY <1>36 DEF vars
<1>37. QED
  BY <1>1, <1>2, <1>3, <1>4, <1>5, <1>6, <1>7, <1>8, <1>9, <1>10, <1>11, <1>12,
     <1>13, <1>14, <1>15, <1>16, <1>17, <1>18, <1>19, <1>20, <1>21, <1>22, <1>23,
     <1>24, <1>25, <1>26, <1>27, <1>28, <1>29, <1>30, <1>31, <1>32, <1>33, <1>34,
     <1>35, <1>36 DEF Next, Launching, Updating, CommandStep

\* What is staged was verified, and an installation copies alone or torn.
LEMMA WholeStep == TypeOK /\ Whole /\ Alone /\ [Next]_vars => Whole'
<1> SUFFICES ASSUME TypeOK /\ Whole /\ Alone, [Next]_vars PROVE Whole'
  OBVIOUS
<1> USE VersionAssumption, TargetAssumption DEF TypeOK, GoTo, sites, hostVars,
         updaterVars, args, commandVars, history, AtWork, CommandRuns, Whole, Alone, BinaryWhole,
         AtRest
<1>1. ASSUME NEW t \in Targets, NEW v \in Versions, Launch(t, v) PROVE Whole'
  BY <1>1 DEF Launch, Meeting
<1>2. ASSUME NEW t \in Targets, LaunchFails(t) PROVE Whole'
  BY <1>2, Reported DEF LaunchFails
<1>3. ASSUME NEW t \in Targets, Begin(t) PROVE Whole'
  BY <1>3, Reported DEF Begin
<1>4. ASSUME NEW t \in Targets, BeginFails(t) PROVE Whole'
  BY <1>4 DEF BeginFails
<1>5. ASSUME NEW t \in Targets, Download(t) PROVE Whole'
  BY <1>5, Reported, Downloaded DEF Download
<1>6. ASSUME NEW t \in Targets, DownloadFails(t) PROVE Whole'
  BY <1>6, Reported DEF DownloadFails, Fail
<1>7. ASSUME NEW t \in Targets, Verify(t) PROVE Whole'
  BY <1>7, Reported DEF Verify, Verified
<1>8. ASSUME NEW t \in Targets, VerifyFails(t) PROVE Whole'
  BY <1>8, Reported DEF VerifyFails, Fail
<1>9. ASSUME NEW t \in Targets, Stage(t) PROVE Whole'
  BY <1>9 DEF Stage
<1>10. ASSUME NEW t \in Targets, Replace(t) PROVE Whole'
  BY <1>10 DEF Replace
<1>11. ASSUME NEW t \in Targets, InstallFails(t) PROVE Whole'
  BY <1>11, Reported DEF InstallFails, Fail
<1>12. ASSUME NEW t \in Targets, Refresh(t) PROVE Whole'
  BY <1>12, Reported DEF Refresh
<1>13. ASSUME NEW t \in Targets, RefreshFails(t) PROVE Whole'
  BY <1>13, Reported DEF RefreshFails, Fail
<1>14. ASSUME NEW t \in Targets, Restart(t) PROVE Whole'
  BY <1>14 DEF Restart
<1>15. ASSUME NEW t \in Targets, RestartFails(t) PROVE Whole'
  BY <1>15, Reported DEF RestartFails, Fail
<1>16. ASSUME NEW t \in Targets, Confirm(t) PROVE Whole'
  BY <1>16, Reported DEF Confirm
<1>17. ASSUME NEW t \in Targets, NotActive(t) PROVE Whole'
  BY <1>17, Reported DEF NotActive, Fail
<1>18. ASSUME NEW t \in Targets, Kill(t) PROVE Whole'
  BY <1>18, Faulted DEF Kill
<1>19. ASSUME ServiceEnds PROVE Whole'
  BY <1>19, Faulted DEF ServiceEnds
<1>20. ASSUME ServiceRestarts PROVE Whole'
  BY <1>20 DEF ServiceRestarts
<1>21. ASSUME NEW v \in Versions, InstallStarts(v) PROVE Whole'
  BY <1>21 DEF InstallStarts, Command
<1>22. ASSUME UninstallStarts PROVE Whole'
  BY <1>22 DEF UninstallStarts, Command
<1>23. ASSUME InstallConfig PROVE Whole'
  BY <1>23 DEF InstallConfig, Step
<1>24. ASSUME InstallTruncate PROVE Whole'
  BY <1>24 DEF InstallTruncate, Step
<1>25. ASSUME InstallCopy PROVE Whole'
  BY <1>25 DEF InstallCopy
<1>26. ASSUME InstallHelpers PROVE Whole'
  BY <1>26 DEF InstallHelpers, Step
<1>27. ASSUME InstallEnds PROVE Whole'
  BY <1>27 DEF InstallEnds, Step
<1>28. ASSUME InstallBusy PROVE Whole'
  BY <1>28 DEF InstallBusy, Step
<1>29. ASSUME UninstallStop PROVE Whole'
  BY <1>29 DEF UninstallStop, Step
<1>30. ASSUME UninstallUnit PROVE Whole'
  BY <1>30 DEF UninstallUnit, Step
<1>31. ASSUME UninstallHelpers PROVE Whole'
  BY <1>31 DEF UninstallHelpers, Step
<1>32. ASSUME UninstallConfig PROVE Whole'
  BY <1>32 DEF UninstallConfig, Step
<1>33. ASSUME UninstallState PROVE Whole'
  BY <1>33 DEF UninstallState, Step
<1>34. ASSUME UninstallDirs PROVE Whole'
  BY <1>34 DEF UninstallDirs, Step
<1>35. ASSUME CommandFails PROVE Whole'
  BY <1>35, Faulted DEF CommandFails
<1>36. ASSUME UNCHANGED vars PROVE Whole'
  BY <1>36 DEF vars
<1>37. QED
  BY <1>1, <1>2, <1>3, <1>4, <1>5, <1>6, <1>7, <1>8, <1>9, <1>10, <1>11, <1>12,
     <1>13, <1>14, <1>15, <1>16, <1>17, <1>18, <1>19, <1>20, <1>21, <1>22, <1>23,
     <1>24, <1>25, <1>26, <1>27, <1>28, <1>29, <1>30, <1>31, <1>32, <1>33, <1>34,
     <1>35, <1>36 DEF Next, Launching, Updating, CommandStep

\* A download is the target's own, or corrupt and not verified.
LEMMA FetchedStep == TypeOK /\ Fetched /\ [Next]_vars => Fetched'
<1> SUFFICES ASSUME TypeOK /\ Fetched, [Next]_vars PROVE Fetched'
  OBVIOUS
<1> USE VersionAssumption, TargetAssumption DEF TypeOK, GoTo, sites, hostVars,
         updaterVars, args, commandVars, history, AtWork, CommandRuns, Fetched
<1>1. ASSUME NEW t \in Targets, NEW v \in Versions, Launch(t, v) PROVE Fetched'
  BY <1>1 DEF Launch, Meeting
<1>2. ASSUME NEW t \in Targets, LaunchFails(t) PROVE Fetched'
  BY <1>2, Reported DEF LaunchFails
<1>3. ASSUME NEW t \in Targets, Begin(t) PROVE Fetched'
  BY <1>3, Reported DEF Begin
<1>4. ASSUME NEW t \in Targets, BeginFails(t) PROVE Fetched'
  BY <1>4 DEF BeginFails
<1>5. ASSUME NEW t \in Targets, Download(t) PROVE Fetched'
  BY <1>5, Reported, Downloaded DEF Download
<1>6. ASSUME NEW t \in Targets, DownloadFails(t) PROVE Fetched'
  BY <1>6, Reported DEF DownloadFails, Fail
<1>7. ASSUME NEW t \in Targets, Verify(t) PROVE Fetched'
  BY <1>7, Reported DEF Verify, Verified
<1>8. ASSUME NEW t \in Targets, VerifyFails(t) PROVE Fetched'
  BY <1>8, Reported DEF VerifyFails, Fail
<1>9. ASSUME NEW t \in Targets, Stage(t) PROVE Fetched'
  BY <1>9 DEF Stage
<1>10. ASSUME NEW t \in Targets, Replace(t) PROVE Fetched'
  BY <1>10 DEF Replace
<1>11. ASSUME NEW t \in Targets, InstallFails(t) PROVE Fetched'
  BY <1>11, Reported DEF InstallFails, Fail
<1>12. ASSUME NEW t \in Targets, Refresh(t) PROVE Fetched'
  BY <1>12, Reported DEF Refresh
<1>13. ASSUME NEW t \in Targets, RefreshFails(t) PROVE Fetched'
  BY <1>13, Reported DEF RefreshFails, Fail
<1>14. ASSUME NEW t \in Targets, Restart(t) PROVE Fetched'
  BY <1>14 DEF Restart
<1>15. ASSUME NEW t \in Targets, RestartFails(t) PROVE Fetched'
  BY <1>15, Reported DEF RestartFails, Fail
<1>16. ASSUME NEW t \in Targets, Confirm(t) PROVE Fetched'
  BY <1>16, Reported DEF Confirm
<1>17. ASSUME NEW t \in Targets, NotActive(t) PROVE Fetched'
  BY <1>17, Reported DEF NotActive, Fail
<1>18. ASSUME NEW t \in Targets, Kill(t) PROVE Fetched'
  BY <1>18, Faulted DEF Kill
<1>19. ASSUME ServiceEnds PROVE Fetched'
  BY <1>19, Faulted DEF ServiceEnds
<1>20. ASSUME ServiceRestarts PROVE Fetched'
  BY <1>20 DEF ServiceRestarts
<1>21. ASSUME NEW v \in Versions, InstallStarts(v) PROVE Fetched'
  BY <1>21 DEF InstallStarts, Command
<1>22. ASSUME UninstallStarts PROVE Fetched'
  BY <1>22 DEF UninstallStarts, Command
<1>23. ASSUME InstallConfig PROVE Fetched'
  BY <1>23 DEF InstallConfig, Step
<1>24. ASSUME InstallTruncate PROVE Fetched'
  BY <1>24 DEF InstallTruncate, Step
<1>25. ASSUME InstallCopy PROVE Fetched'
  BY <1>25 DEF InstallCopy
<1>26. ASSUME InstallHelpers PROVE Fetched'
  BY <1>26 DEF InstallHelpers, Step
<1>27. ASSUME InstallEnds PROVE Fetched'
  BY <1>27 DEF InstallEnds, Step
<1>28. ASSUME InstallBusy PROVE Fetched'
  BY <1>28 DEF InstallBusy, Step
<1>29. ASSUME UninstallStop PROVE Fetched'
  BY <1>29 DEF UninstallStop, Step
<1>30. ASSUME UninstallUnit PROVE Fetched'
  BY <1>30 DEF UninstallUnit, Step
<1>31. ASSUME UninstallHelpers PROVE Fetched'
  BY <1>31 DEF UninstallHelpers, Step
<1>32. ASSUME UninstallConfig PROVE Fetched'
  BY <1>32 DEF UninstallConfig, Step
<1>33. ASSUME UninstallState PROVE Fetched'
  BY <1>33 DEF UninstallState, Step
<1>34. ASSUME UninstallDirs PROVE Fetched'
  BY <1>34 DEF UninstallDirs, Step
<1>35. ASSUME CommandFails PROVE Fetched'
  BY <1>35, Faulted DEF CommandFails
<1>36. ASSUME UNCHANGED vars PROVE Fetched'
  BY <1>36 DEF vars
<1>37. QED
  BY <1>1, <1>2, <1>3, <1>4, <1>5, <1>6, <1>7, <1>8, <1>9, <1>10, <1>11, <1>12,
     <1>13, <1>14, <1>15, <1>16, <1>17, <1>18, <1>19, <1>20, <1>21, <1>22, <1>23,
     <1>24, <1>25, <1>26, <1>27, <1>28, <1>29, <1>30, <1>31, <1>32, <1>33, <1>34,
     <1>35, <1>36 DEF Next, Launching, Updating, CommandStep

\* A command that runs alone stays alone.
LEMMA AloneStep == TypeOK /\ Alone /\ Removal /\ [Next]_vars => Alone'
<1> SUFFICES ASSUME TypeOK /\ Alone /\ Removal, [Next]_vars PROVE Alone'
  OBVIOUS
<1> USE VersionAssumption, TargetAssumption DEF TypeOK, GoTo, sites, hostVars,
         updaterVars, args, commandVars, history, AtWork, CommandRuns, Alone, AtRest, Removal
<1>1. ASSUME NEW t \in Targets, NEW v \in Versions, Launch(t, v) PROVE Alone'
  BY <1>1 DEF Launch, Meeting
<1>2. ASSUME NEW t \in Targets, LaunchFails(t) PROVE Alone'
  BY <1>2, Reported DEF LaunchFails
<1>3. ASSUME NEW t \in Targets, Begin(t) PROVE Alone'
  BY <1>3, Reported DEF Begin
<1>4. ASSUME NEW t \in Targets, BeginFails(t) PROVE Alone'
  BY <1>4 DEF BeginFails
<1>5. ASSUME NEW t \in Targets, Download(t) PROVE Alone'
  BY <1>5, Reported, Downloaded DEF Download
<1>6. ASSUME NEW t \in Targets, DownloadFails(t) PROVE Alone'
  BY <1>6, Reported DEF DownloadFails, Fail
<1>7. ASSUME NEW t \in Targets, Verify(t) PROVE Alone'
  BY <1>7, Reported DEF Verify, Verified
<1>8. ASSUME NEW t \in Targets, VerifyFails(t) PROVE Alone'
  BY <1>8, Reported DEF VerifyFails, Fail
<1>9. ASSUME NEW t \in Targets, Stage(t) PROVE Alone'
  BY <1>9 DEF Stage
<1>10. ASSUME NEW t \in Targets, Replace(t) PROVE Alone'
  BY <1>10 DEF Replace
<1>11. ASSUME NEW t \in Targets, InstallFails(t) PROVE Alone'
  BY <1>11, Reported DEF InstallFails, Fail
<1>12. ASSUME NEW t \in Targets, Refresh(t) PROVE Alone'
  BY <1>12, Reported DEF Refresh
<1>13. ASSUME NEW t \in Targets, RefreshFails(t) PROVE Alone'
  BY <1>13, Reported DEF RefreshFails, Fail
<1>14. ASSUME NEW t \in Targets, Restart(t) PROVE Alone'
  BY <1>14 DEF Restart
<1>15. ASSUME NEW t \in Targets, RestartFails(t) PROVE Alone'
  BY <1>15, Reported DEF RestartFails, Fail
<1>16. ASSUME NEW t \in Targets, Confirm(t) PROVE Alone'
  BY <1>16, Reported DEF Confirm
<1>17. ASSUME NEW t \in Targets, NotActive(t) PROVE Alone'
  BY <1>17, Reported DEF NotActive, Fail
<1>18. ASSUME NEW t \in Targets, Kill(t) PROVE Alone'
  BY <1>18, Faulted DEF Kill
<1>19. ASSUME ServiceEnds PROVE Alone'
  BY <1>19, Faulted DEF ServiceEnds
<1>20. ASSUME ServiceRestarts PROVE Alone'
  BY <1>20 DEF ServiceRestarts
<1>21. ASSUME NEW v \in Versions, InstallStarts(v) PROVE Alone'
  BY <1>21 DEF InstallStarts, Command
<1>22. ASSUME UninstallStarts PROVE Alone'
  BY <1>22 DEF UninstallStarts, Command
<1>23. ASSUME InstallConfig PROVE Alone'
  BY <1>23 DEF InstallConfig, Step
<1>24. ASSUME InstallTruncate PROVE Alone'
  BY <1>24 DEF InstallTruncate, Step
<1>25. ASSUME InstallCopy PROVE Alone'
  BY <1>25 DEF InstallCopy
<1>26. ASSUME InstallHelpers PROVE Alone'
  BY <1>26 DEF InstallHelpers, Step
<1>27. ASSUME InstallEnds PROVE Alone'
  BY <1>27 DEF InstallEnds, Step
<1>28. ASSUME InstallBusy PROVE Alone'
  BY <1>28 DEF InstallBusy, Step
<1>29. ASSUME UninstallStop PROVE Alone'
  BY <1>29 DEF UninstallStop, Step
<1>30. ASSUME UninstallUnit PROVE Alone'
  BY <1>30 DEF UninstallUnit, Step
<1>31. ASSUME UninstallHelpers PROVE Alone'
  BY <1>31 DEF UninstallHelpers, Step
<1>32. ASSUME UninstallConfig PROVE Alone'
  BY <1>32 DEF UninstallConfig, Step
<1>33. ASSUME UninstallState PROVE Alone'
  BY <1>33 DEF UninstallState, Step
<1>34. ASSUME UninstallDirs PROVE Alone'
  BY <1>34 DEF UninstallDirs, Step
<1>35. ASSUME CommandFails PROVE Alone'
  BY <1>35, Faulted DEF CommandFails
<1>36. ASSUME UNCHANGED vars PROVE Alone'
  BY <1>36 DEF vars
<1>37. QED
  BY <1>1, <1>2, <1>3, <1>4, <1>5, <1>6, <1>7, <1>8, <1>9, <1>10, <1>11, <1>12,
     <1>13, <1>14, <1>15, <1>16, <1>17, <1>18, <1>19, <1>20, <1>21, <1>22, <1>23,
     <1>24, <1>25, <1>26, <1>27, <1>28, <1>29, <1>30, <1>31, <1>32, <1>33, <1>34,
     <1>35, <1>36 DEF Next, Launching, Updating, CommandStep

\* A removal leaves behind it what it has removed.
LEMMA RemovalStep == TypeOK /\ Alone /\ Removal /\ [Next]_vars => Removal'
<1> SUFFICES ASSUME TypeOK /\ Alone /\ Removal, [Next]_vars PROVE Removal'
  OBVIOUS
<1> USE VersionAssumption, TargetAssumption DEF TypeOK, GoTo, sites, hostVars,
         updaterVars, args, commandVars, history, AtWork, CommandRuns, Alone, AtRest, Removal
<1>1. ASSUME NEW t \in Targets, NEW v \in Versions, Launch(t, v) PROVE Removal'
  BY <1>1 DEF Launch, Meeting
<1>2. ASSUME NEW t \in Targets, LaunchFails(t) PROVE Removal'
  BY <1>2, Reported DEF LaunchFails
<1>3. ASSUME NEW t \in Targets, Begin(t) PROVE Removal'
  BY <1>3, Reported DEF Begin
<1>4. ASSUME NEW t \in Targets, BeginFails(t) PROVE Removal'
  BY <1>4 DEF BeginFails
<1>5. ASSUME NEW t \in Targets, Download(t) PROVE Removal'
  BY <1>5, Reported, Downloaded DEF Download
<1>6. ASSUME NEW t \in Targets, DownloadFails(t) PROVE Removal'
  BY <1>6, Reported DEF DownloadFails, Fail
<1>7. ASSUME NEW t \in Targets, Verify(t) PROVE Removal'
  BY <1>7, Reported DEF Verify, Verified
<1>8. ASSUME NEW t \in Targets, VerifyFails(t) PROVE Removal'
  BY <1>8, Reported DEF VerifyFails, Fail
<1>9. ASSUME NEW t \in Targets, Stage(t) PROVE Removal'
  BY <1>9 DEF Stage
<1>10. ASSUME NEW t \in Targets, Replace(t) PROVE Removal'
  BY <1>10 DEF Replace
<1>11. ASSUME NEW t \in Targets, InstallFails(t) PROVE Removal'
  BY <1>11, Reported DEF InstallFails, Fail
<1>12. ASSUME NEW t \in Targets, Refresh(t) PROVE Removal'
  BY <1>12, Reported DEF Refresh
<1>13. ASSUME NEW t \in Targets, RefreshFails(t) PROVE Removal'
  BY <1>13, Reported DEF RefreshFails, Fail
<1>14. ASSUME NEW t \in Targets, Restart(t) PROVE Removal'
  BY <1>14 DEF Restart
<1>15. ASSUME NEW t \in Targets, RestartFails(t) PROVE Removal'
  BY <1>15, Reported DEF RestartFails, Fail
<1>16. ASSUME NEW t \in Targets, Confirm(t) PROVE Removal'
  BY <1>16, Reported DEF Confirm
<1>17. ASSUME NEW t \in Targets, NotActive(t) PROVE Removal'
  BY <1>17, Reported DEF NotActive, Fail
<1>18. ASSUME NEW t \in Targets, Kill(t) PROVE Removal'
  BY <1>18, Faulted DEF Kill
<1>19. ASSUME ServiceEnds PROVE Removal'
  BY <1>19, Faulted DEF ServiceEnds
<1>20. ASSUME ServiceRestarts PROVE Removal'
  BY <1>20 DEF ServiceRestarts
<1>21. ASSUME NEW v \in Versions, InstallStarts(v) PROVE Removal'
  BY <1>21 DEF InstallStarts, Command
<1>22. ASSUME UninstallStarts PROVE Removal'
  BY <1>22 DEF UninstallStarts, Command
<1>23. ASSUME InstallConfig PROVE Removal'
  BY <1>23 DEF InstallConfig, Step
<1>24. ASSUME InstallTruncate PROVE Removal'
  BY <1>24 DEF InstallTruncate, Step
<1>25. ASSUME InstallCopy PROVE Removal'
  BY <1>25 DEF InstallCopy
<1>26. ASSUME InstallHelpers PROVE Removal'
  BY <1>26 DEF InstallHelpers, Step
<1>27. ASSUME InstallEnds PROVE Removal'
  BY <1>27 DEF InstallEnds, Step
<1>28. ASSUME InstallBusy PROVE Removal'
  BY <1>28 DEF InstallBusy, Step
<1>29. ASSUME UninstallStop PROVE Removal'
  BY <1>29 DEF UninstallStop, Step
<1>30. ASSUME UninstallUnit PROVE Removal'
  BY <1>30 DEF UninstallUnit, Step
<1>31. ASSUME UninstallHelpers PROVE Removal'
  BY <1>31 DEF UninstallHelpers, Step
<1>32. ASSUME UninstallConfig PROVE Removal'
  BY <1>32 DEF UninstallConfig, Step
<1>33. ASSUME UninstallState PROVE Removal'
  BY <1>33 DEF UninstallState, Step
<1>34. ASSUME UninstallDirs PROVE Removal'
  BY <1>34 DEF UninstallDirs, Step
<1>35. ASSUME CommandFails PROVE Removal'
  BY <1>35, Faulted DEF CommandFails
<1>36. ASSUME UNCHANGED vars PROVE Removal'
  BY <1>36 DEF vars
<1>37. QED
  BY <1>1, <1>2, <1>3, <1>4, <1>5, <1>6, <1>7, <1>8, <1>9, <1>10, <1>11, <1>12,
     <1>13, <1>14, <1>15, <1>16, <1>17, <1>18, <1>19, <1>20, <1>21, <1>22, <1>23,
     <1>24, <1>25, <1>26, <1>27, <1>28, <1>29, <1>30, <1>31, <1>32, <1>33, <1>34,
     <1>35, <1>36 DEF Next, Launching, Updating, CommandStep

\* What names the files goes only with the files, or they are stranded.
LEMMA NamedStep == TypeOK /\ Named /\ [Next]_vars => Named'
<1> SUFFICES ASSUME TypeOK /\ Named, [Next]_vars PROVE Named'
  OBVIOUS
<1> USE VersionAssumption, TargetAssumption DEF TypeOK, GoTo, sites, hostVars,
         updaterVars, args, commandVars, history, AtWork, CommandRuns, Named, Unnamed
<1>1. ASSUME NEW t \in Targets, NEW v \in Versions, Launch(t, v) PROVE Named'
  BY <1>1 DEF Launch, Meeting
<1>2. ASSUME NEW t \in Targets, LaunchFails(t) PROVE Named'
  BY <1>2, Reported DEF LaunchFails
<1>3. ASSUME NEW t \in Targets, Begin(t) PROVE Named'
  BY <1>3, Reported DEF Begin
<1>4. ASSUME NEW t \in Targets, BeginFails(t) PROVE Named'
  BY <1>4 DEF BeginFails
<1>5. ASSUME NEW t \in Targets, Download(t) PROVE Named'
  BY <1>5, Reported, Downloaded DEF Download
<1>6. ASSUME NEW t \in Targets, DownloadFails(t) PROVE Named'
  BY <1>6, Reported DEF DownloadFails, Fail
<1>7. ASSUME NEW t \in Targets, Verify(t) PROVE Named'
  BY <1>7, Reported DEF Verify, Verified
<1>8. ASSUME NEW t \in Targets, VerifyFails(t) PROVE Named'
  BY <1>8, Reported DEF VerifyFails, Fail
<1>9. ASSUME NEW t \in Targets, Stage(t) PROVE Named'
  BY <1>9 DEF Stage
<1>10. ASSUME NEW t \in Targets, Replace(t) PROVE Named'
  BY <1>10 DEF Replace
<1>11. ASSUME NEW t \in Targets, InstallFails(t) PROVE Named'
  BY <1>11, Reported DEF InstallFails, Fail
<1>12. ASSUME NEW t \in Targets, Refresh(t) PROVE Named'
  BY <1>12, Reported DEF Refresh
<1>13. ASSUME NEW t \in Targets, RefreshFails(t) PROVE Named'
  BY <1>13, Reported DEF RefreshFails, Fail
<1>14. ASSUME NEW t \in Targets, Restart(t) PROVE Named'
  BY <1>14 DEF Restart
<1>15. ASSUME NEW t \in Targets, RestartFails(t) PROVE Named'
  BY <1>15, Reported DEF RestartFails, Fail
<1>16. ASSUME NEW t \in Targets, Confirm(t) PROVE Named'
  BY <1>16, Reported DEF Confirm
<1>17. ASSUME NEW t \in Targets, NotActive(t) PROVE Named'
  BY <1>17, Reported DEF NotActive, Fail
<1>18. ASSUME NEW t \in Targets, Kill(t) PROVE Named'
  BY <1>18, Faulted DEF Kill
<1>19. ASSUME ServiceEnds PROVE Named'
  BY <1>19, Faulted DEF ServiceEnds
<1>20. ASSUME ServiceRestarts PROVE Named'
  BY <1>20 DEF ServiceRestarts
<1>21. ASSUME NEW v \in Versions, InstallStarts(v) PROVE Named'
  BY <1>21 DEF InstallStarts, Command
<1>22. ASSUME UninstallStarts PROVE Named'
  BY <1>22 DEF UninstallStarts, Command
<1>23. ASSUME InstallConfig PROVE Named'
  BY <1>23 DEF InstallConfig, Step
<1>24. ASSUME InstallTruncate PROVE Named'
  BY <1>24 DEF InstallTruncate, Step
<1>25. ASSUME InstallCopy PROVE Named'
  BY <1>25 DEF InstallCopy
<1>26. ASSUME InstallHelpers PROVE Named'
  BY <1>26 DEF InstallHelpers, Step
<1>27. ASSUME InstallEnds PROVE Named'
  BY <1>27 DEF InstallEnds, Step
<1>28. ASSUME InstallBusy PROVE Named'
  BY <1>28 DEF InstallBusy, Step
<1>29. ASSUME UninstallStop PROVE Named'
  BY <1>29 DEF UninstallStop, Step
<1>30. ASSUME UninstallUnit PROVE Named'
  BY <1>30 DEF UninstallUnit, Step
<1>31. ASSUME UninstallHelpers PROVE Named'
  BY <1>31 DEF UninstallHelpers, Step
<1>32. ASSUME UninstallConfig PROVE Named'
  BY <1>32 DEF UninstallConfig, Step
<1>33. ASSUME UninstallState PROVE Named'
  BY <1>33 DEF UninstallState, Step
<1>34. ASSUME UninstallDirs PROVE Named'
  BY <1>34 DEF UninstallDirs, Step
<1>35. ASSUME CommandFails PROVE Named'
  BY <1>35, Faulted DEF CommandFails
<1>36. ASSUME UNCHANGED vars PROVE Named'
  BY <1>36 DEF vars
<1>37. QED
  BY <1>1, <1>2, <1>3, <1>4, <1>5, <1>6, <1>7, <1>8, <1>9, <1>10, <1>11, <1>12,
     <1>13, <1>14, <1>15, <1>16, <1>17, <1>18, <1>19, <1>20, <1>21, <1>22, <1>23,
     <1>24, <1>25, <1>26, <1>27, <1>28, <1>29, <1>30, <1>31, <1>32, <1>33, <1>34,
     <1>35, <1>36 DEF Next, Launching, Updating, CommandStep

\* An updater that meets nobody finds its own files.
LEMMA UnmetStep == TypeOK /\ Unmet /\ Fetched /\ [Next]_vars => Unmet'
<1> SUFFICES ASSUME TypeOK /\ Unmet /\ Fetched, [Next]_vars PROVE Unmet'
  OBVIOUS
<1> USE VersionAssumption, TargetAssumption DEF TypeOK, GoTo, sites, hostVars,
         updaterVars, args, commandVars, history, AtWork, CommandRuns, Unmet, Fetched, AtRest,
         Final, Executable
<1>1. ASSUME NEW t \in Targets, NEW v \in Versions, Launch(t, v) PROVE Unmet'
  BY <1>1 DEF Launch, Meeting
<1>2. ASSUME NEW t \in Targets, LaunchFails(t) PROVE Unmet'
  BY <1>2, Reported DEF LaunchFails
<1>3. ASSUME NEW t \in Targets, Begin(t) PROVE Unmet'
  BY <1>3, Reported DEF Begin
<1>4. ASSUME NEW t \in Targets, BeginFails(t) PROVE Unmet'
  BY <1>4 DEF BeginFails
<1>5. ASSUME NEW t \in Targets, Download(t) PROVE Unmet'
  BY <1>5, Reported, Downloaded DEF Download
<1>6. ASSUME NEW t \in Targets, DownloadFails(t) PROVE Unmet'
  BY <1>6, Reported DEF DownloadFails, Fail
<1>7. ASSUME NEW t \in Targets, Verify(t) PROVE Unmet'
  BY <1>7, Reported DEF Verify, Verified
<1>8. ASSUME NEW t \in Targets, VerifyFails(t) PROVE Unmet'
  BY <1>8, Reported DEF VerifyFails, Fail
<1>9. ASSUME NEW t \in Targets, Stage(t) PROVE Unmet'
  BY <1>9 DEF Stage
<1>10. ASSUME NEW t \in Targets, Replace(t) PROVE Unmet'
  BY <1>10 DEF Replace
<1>11. ASSUME NEW t \in Targets, InstallFails(t) PROVE Unmet'
  BY <1>11, Reported DEF InstallFails, Fail
<1>12. ASSUME NEW t \in Targets, Refresh(t) PROVE Unmet'
  BY <1>12, Reported DEF Refresh
<1>13. ASSUME NEW t \in Targets, RefreshFails(t) PROVE Unmet'
  BY <1>13, Reported DEF RefreshFails, Fail
<1>14. ASSUME NEW t \in Targets, Restart(t) PROVE Unmet'
  BY <1>14 DEF Restart
<1>15. ASSUME NEW t \in Targets, RestartFails(t) PROVE Unmet'
  BY <1>15, Reported DEF RestartFails, Fail
<1>16. ASSUME NEW t \in Targets, Confirm(t) PROVE Unmet'
  BY <1>16, Reported DEF Confirm
<1>17. ASSUME NEW t \in Targets, NotActive(t) PROVE Unmet'
  BY <1>17, Reported DEF NotActive, Fail
<1>18. ASSUME NEW t \in Targets, Kill(t) PROVE Unmet'
  BY <1>18, Faulted DEF Kill
<1>19. ASSUME ServiceEnds PROVE Unmet'
  BY <1>19, Faulted DEF ServiceEnds
<1>20. ASSUME ServiceRestarts PROVE Unmet'
  BY <1>20 DEF ServiceRestarts
<1>21. ASSUME NEW v \in Versions, InstallStarts(v) PROVE Unmet'
  BY <1>21 DEF InstallStarts, Command
<1>22. ASSUME UninstallStarts PROVE Unmet'
  BY <1>22 DEF UninstallStarts, Command
<1>23. ASSUME InstallConfig PROVE Unmet'
  BY <1>23 DEF InstallConfig, Step
<1>24. ASSUME InstallTruncate PROVE Unmet'
  BY <1>24 DEF InstallTruncate, Step
<1>25. ASSUME InstallCopy PROVE Unmet'
  BY <1>25 DEF InstallCopy
<1>26. ASSUME InstallHelpers PROVE Unmet'
  BY <1>26 DEF InstallHelpers, Step
<1>27. ASSUME InstallEnds PROVE Unmet'
  BY <1>27 DEF InstallEnds, Step
<1>28. ASSUME InstallBusy PROVE Unmet'
  BY <1>28 DEF InstallBusy, Step
<1>29. ASSUME UninstallStop PROVE Unmet'
  BY <1>29 DEF UninstallStop, Step
<1>30. ASSUME UninstallUnit PROVE Unmet'
  BY <1>30 DEF UninstallUnit, Step
<1>31. ASSUME UninstallHelpers PROVE Unmet'
  BY <1>31 DEF UninstallHelpers, Step
<1>32. ASSUME UninstallConfig PROVE Unmet'
  BY <1>32 DEF UninstallConfig, Step
<1>33. ASSUME UninstallState PROVE Unmet'
  BY <1>33 DEF UninstallState, Step
<1>34. ASSUME UninstallDirs PROVE Unmet'
  BY <1>34 DEF UninstallDirs, Step
<1>35. ASSUME CommandFails PROVE Unmet'
  BY <1>35, Faulted DEF CommandFails
<1>36. ASSUME UNCHANGED vars PROVE Unmet'
  BY <1>36 DEF vars
<1>37. QED
  BY <1>1, <1>2, <1>3, <1>4, <1>5, <1>6, <1>7, <1>8, <1>9, <1>10, <1>11, <1>12,
     <1>13, <1>14, <1>15, <1>16, <1>17, <1>18, <1>19, <1>20, <1>21, <1>22, <1>23,
     <1>24, <1>25, <1>26, <1>27, <1>28, <1>29, <1>30, <1>31, <1>32, <1>33, <1>34,
     <1>35, <1>36 DEF Next, Launching, Updating, CommandStep

\* A mixture on the host has a failed update that is known, or is under way.
LEMMA NoticingStep == IInv /\ [Next]_vars => Noticing'
<1> SUFFICES ASSUME IInv, [Next]_vars PROVE Noticing'
  OBVIOUS
<1> USE VersionAssumption, TargetAssumption DEF TypeOK, GoTo, sites, hostVars,
         updaterVars, args, commandVars, history, AtWork, CommandRuns, IInv, Whole, Alone, Noticing,
         Noticed, Known, Early, AtRest, Executable
<1>1. ASSUME NEW t \in Targets, NEW v \in Versions, Launch(t, v) PROVE Noticing'
  BY <1>1 DEF Launch, Meeting
<1>2. ASSUME NEW t \in Targets, LaunchFails(t) PROVE Noticing'
  BY <1>2, Reported DEF LaunchFails
<1>3. ASSUME NEW t \in Targets, Begin(t) PROVE Noticing'
  BY <1>3, Reported DEF Begin
<1>4. ASSUME NEW t \in Targets, BeginFails(t) PROVE Noticing'
  BY <1>4 DEF BeginFails
<1>5. ASSUME NEW t \in Targets, Download(t) PROVE Noticing'
  BY <1>5, Reported, Downloaded DEF Download
<1>6. ASSUME NEW t \in Targets, DownloadFails(t) PROVE Noticing'
  BY <1>6, Reported DEF DownloadFails, Fail
<1>7. ASSUME NEW t \in Targets, Verify(t) PROVE Noticing'
  BY <1>7, Reported DEF Verify, Verified
<1>8. ASSUME NEW t \in Targets, VerifyFails(t) PROVE Noticing'
  BY <1>8, Reported DEF VerifyFails, Fail
<1>9. ASSUME NEW t \in Targets, Stage(t) PROVE Noticing'
  BY <1>9 DEF Stage
<1>10. ASSUME NEW t \in Targets, Replace(t) PROVE Noticing'
  BY <1>10 DEF Replace
<1>11. ASSUME NEW t \in Targets, InstallFails(t) PROVE Noticing'
  BY <1>11, Reported DEF InstallFails, Fail
<1>12. ASSUME NEW t \in Targets, Refresh(t) PROVE Noticing'
  BY <1>12, Reported DEF Refresh
<1>13. ASSUME NEW t \in Targets, RefreshFails(t) PROVE Noticing'
  BY <1>13, Reported DEF RefreshFails, Fail
<1>14. ASSUME NEW t \in Targets, Restart(t) PROVE Noticing'
  BY <1>14 DEF Restart
<1>15. ASSUME NEW t \in Targets, RestartFails(t) PROVE Noticing'
  BY <1>15, Reported DEF RestartFails, Fail
<1>16. ASSUME NEW t \in Targets, Confirm(t) PROVE Noticing'
  BY <1>16, Reported DEF Confirm
<1>17. ASSUME NEW t \in Targets, NotActive(t) PROVE Noticing'
  BY <1>17, Reported DEF NotActive, Fail
<1>18. ASSUME NEW t \in Targets, Kill(t) PROVE Noticing'
  BY <1>18, Faulted DEF Kill
<1>19. ASSUME ServiceEnds PROVE Noticing'
  BY <1>19, Faulted DEF ServiceEnds
<1>20. ASSUME ServiceRestarts PROVE Noticing'
  BY <1>20 DEF ServiceRestarts
<1>21. ASSUME NEW v \in Versions, InstallStarts(v) PROVE Noticing'
  BY <1>21 DEF InstallStarts, Command
<1>22. ASSUME UninstallStarts PROVE Noticing'
  BY <1>22 DEF UninstallStarts, Command
<1>23. ASSUME InstallConfig PROVE Noticing'
  BY <1>23 DEF InstallConfig, Step
<1>24. ASSUME InstallTruncate PROVE Noticing'
  BY <1>24 DEF InstallTruncate, Step, Busy
<1>25. ASSUME InstallCopy PROVE Noticing'
  BY <1>25 DEF InstallCopy
<1>26. ASSUME InstallHelpers PROVE Noticing'
  BY <1>26 DEF InstallHelpers, Step
<1>27. ASSUME InstallEnds PROVE Noticing'
  BY <1>27 DEF InstallEnds, Step
<1>28. ASSUME InstallBusy PROVE Noticing'
  BY <1>28 DEF InstallBusy, Step
<1>29. ASSUME UninstallStop PROVE Noticing'
  BY <1>29 DEF UninstallStop, Step
<1>30. ASSUME UninstallUnit PROVE Noticing'
  BY <1>30 DEF UninstallUnit, Step
<1>31. ASSUME UninstallHelpers PROVE Noticing'
  BY <1>31 DEF UninstallHelpers, Step
<1>32. ASSUME UninstallConfig PROVE Noticing'
  BY <1>32 DEF UninstallConfig, Step
<1>33. ASSUME UninstallState PROVE Noticing'
  BY <1>33 DEF UninstallState, Step
<1>34. ASSUME UninstallDirs PROVE Noticing'
  BY <1>34 DEF UninstallDirs, Step
<1>35. ASSUME CommandFails PROVE Noticing'
  BY <1>35, Faulted DEF CommandFails
<1>36. ASSUME UNCHANGED vars PROVE Noticing'
  BY <1>36 DEF vars
<1>37. QED
  BY <1>1, <1>2, <1>3, <1>4, <1>5, <1>6, <1>7, <1>8, <1>9, <1>10, <1>11, <1>12,
     <1>13, <1>14, <1>15, <1>16, <1>17, <1>18, <1>19, <1>20, <1>21, <1>22, <1>23,
     <1>24, <1>25, <1>26, <1>27, <1>28, <1>29, <1>30, <1>31, <1>32, <1>33, <1>34,
     <1>35, <1>36 DEF Next, Launching, Updating, CommandStep

-------------------------------------------------------------------------------
(* The theorems *)

\* An installed service, whose updaters have not been launched.
LEMMA Starts == Init => IInv
<1> SUFFICES ASSUME Init PROVE IInv
  OBVIOUS
<1> USE VersionAssumption, TargetAssumption DEF Init, AtWork, CommandRuns
<1>1. TypeOK
  <2>1. /\ requests \in 0..MaxRequests /\ faults \in 0..MaxFaults
        /\ place \in Places /\ path \in {"default", "custom"} /\ cmd \in Steps
        /\ states \subseteq {"default", "custom"}
    BY BoundAssumption, PlaceAssumption DEF Steps
  <2>2. /\ pc \in [Targets -> Points] /\ last \in [Targets -> Statuses]
        /\ target \in [Targets -> Versions] /\ code \in [Targets -> Versions]
        /\ file \in [Targets -> Versions \cup {None, Broken}]
    BY DEF Points, Statuses
  <2>3. QED
    BY <2>1, <2>2 DEF TypeOK
<1>2. Whole /\ Alone /\ Removal /\ Named
  <2>1. Unnamed = {}
    BY FileAssumption DEF Unnamed
  <2>2. QED
    BY <2>1 DEF Whole, BinaryWhole, Alone, Removal, Named
<1>3. Noticing /\ Unmet /\ Fetched
  BY DEF Noticing, Unmet, Fetched
<1>4. QED
  BY <1>1, <1>2, <1>3 DEF IInv

\* The invariant holds throughout.
LEMMA Invariance == Spec => []IInv
<1>1. IInv /\ [Next]_vars => IInv'
  BY TypeStep, WholeStep, AloneStep, RemovalStep, NamedStep, FetchedStep, UnmetStep,
     NoticingStep DEF IInv
<1>2. QED
  BY Starts, <1>1, PTL DEF Spec

\* The state is well typed, whatever updaters and commands are interleaved.
THEOREM TypeCorrect == Spec => []TypeOK
<1>1. IInv => TypeOK
  BY DEF IInv
<1>2. QED
  BY Invariance, <1>1, PTL

\* Nothing that is incomplete or failed its checksum is ever staged or installed,
\* though updaters of several targets stage their binary under one name; only an
\* installation that is stopped while it copies leaves a torn binary.
THEOREM BinaryIntegrity == Spec => []BinaryWhole
<1>1. IInv => BinaryWhole
  BY DEF IInv, Whole
<1>2. QED
  BY Invariance, <1>1, PTL

\* A removal that comes to its end beside no updater leaves nothing of the installation,
\* whatever attempts before it failed, but the files outside their default places that a
\* failed attempt or an installation has left without anything that names them.
THEOREM RemovalCompleteness == Spec => []UninstallClean
<1>1. IInv => UninstallClean
  BY DEF IInv, TypeOK, Alone, Removal, Named, UninstallClean
<1>2. QED
  BY Invariance, <1>1, PTL

\* A host whose service or helpers are not those of its binary had an update that
\* failed after it changed files, and the platform was told so, or could not be.
THEOREM MixtureVisibility == Spec => []MixtureReported
<1>1. IInv => MixtureReported
  BY DEF IInv, Noticing, Noticed, Known, Early, AtRest, AtWork, Quiet, MixtureReported
<1>2. QED
  BY Invariance, <1>1, PTL

\* waiting_for_reconnect is reported of a service that runs the target's version,
\* unless the updater met another one or a command.
THEOREM ConfirmationTruth == Spec => ConfirmedRuns
<1>1. IInv /\ [Next]_vars =>
        \A t \in Targets :
          last[t] # "waiting_for_reconnect" /\ last'[t] = "waiting_for_reconnect"
            => running = target[t] \/ t \in met
  <2> SUFFICES ASSUME IInv, [Next]_vars, NEW u \in Targets,
                      last[u] # "waiting_for_reconnect", last'[u] = "waiting_for_reconnect"
               PROVE  running = target[u] \/ u \in met
    OBVIOUS
  <2> DEFINE Goal == running = target[u] \/ u \in met
  <2> USE DEF IInv, TypeOK, Unmet, AtWork
  <2>1. ASSUME NEW t \in Targets, NEW v \in Versions, Launch(t, v) PROVE Goal
    BY <2>1 DEF Launch, Meeting, GoTo, updaterVars, history, sites, hostVars
  <2>2. ASSUME NEW t \in Targets, LaunchFails(t) PROVE Goal
    BY <2>2, Reported DEF LaunchFails, GoTo, updaterVars, history, sites, hostVars
  <2>3. ASSUME NEW t \in Targets, Begin(t) PROVE Goal
    BY <2>3, Reported DEF Begin, GoTo, updaterVars, history, sites, hostVars
  <2>4. ASSUME NEW t \in Targets, BeginFails(t) PROVE Goal
    BY <2>4 DEF BeginFails, GoTo, updaterVars, history, sites, hostVars
  <2>5. ASSUME NEW t \in Targets, Download(t) PROVE Goal
    BY <2>5, Reported DEF Download, GoTo, updaterVars, history, sites, hostVars
  <2>6. ASSUME NEW t \in Targets, DownloadFails(t) PROVE Goal
    BY <2>6, Reported DEF DownloadFails, Fail, GoTo, updaterVars, history, sites, hostVars
  <2>7. ASSUME NEW t \in Targets, Verify(t) PROVE Goal
    BY <2>7, Reported DEF Verify, Verified, GoTo, updaterVars, history, sites, hostVars
  <2>8. ASSUME NEW t \in Targets, VerifyFails(t) PROVE Goal
    BY <2>8, Reported DEF VerifyFails, Fail, GoTo, updaterVars, history, sites, hostVars
  <2>9. ASSUME NEW t \in Targets, Stage(t) PROVE Goal
    BY <2>9 DEF Stage, GoTo, updaterVars, history, sites, hostVars
  <2>10. ASSUME NEW t \in Targets, Replace(t) PROVE Goal
    BY <2>10 DEF Replace, GoTo, updaterVars, history, sites, hostVars
  <2>11. ASSUME NEW t \in Targets, InstallFails(t) PROVE Goal
    BY <2>11, Reported DEF InstallFails, Fail, GoTo, updaterVars, history, sites, hostVars
  <2>12. ASSUME NEW t \in Targets, Refresh(t) PROVE Goal
    BY <2>12, Reported DEF Refresh, GoTo, updaterVars, history, sites, hostVars
  <2>13. ASSUME NEW t \in Targets, RefreshFails(t) PROVE Goal
    BY <2>13, Reported DEF RefreshFails, Fail, GoTo, updaterVars, history, sites, hostVars
  <2>14. ASSUME NEW t \in Targets, Restart(t) PROVE Goal
    BY <2>14 DEF Restart, GoTo, updaterVars, history, sites, hostVars
  <2>15. ASSUME NEW t \in Targets, RestartFails(t) PROVE Goal
    BY <2>15, Reported DEF RestartFails, Fail, GoTo, updaterVars, history, sites, hostVars
  <2>16. ASSUME NEW t \in Targets, Confirm(t) PROVE Goal
    BY <2>16, Reported DEF Confirm, GoTo, updaterVars, history, sites, hostVars
  <2>17. ASSUME NEW t \in Targets, NotActive(t) PROVE Goal
    BY <2>17, Reported DEF NotActive, Fail, GoTo, updaterVars, history, sites, hostVars
  <2>18. ASSUME NEW t \in Targets, Kill(t) PROVE Goal
    BY <2>18 DEF Kill, GoTo, updaterVars, history, sites, hostVars
  <2>19. ASSUME ServiceEnds PROVE Goal
    BY <2>19 DEF ServiceEnds, GoTo, updaterVars, history, sites, hostVars
  <2>20. ASSUME ServiceRestarts PROVE Goal
    BY <2>20 DEF ServiceRestarts, GoTo, updaterVars, history, sites, hostVars
  <2>21. ASSUME NEW v \in Versions, InstallStarts(v) PROVE Goal
    BY <2>21 DEF InstallStarts, Command, GoTo, updaterVars, history, sites, hostVars
  <2>22. ASSUME UninstallStarts PROVE Goal
    BY <2>22 DEF UninstallStarts, Command, GoTo, updaterVars, history, sites, hostVars
  <2>23. ASSUME InstallConfig PROVE Goal
    BY <2>23 DEF InstallConfig, Step, GoTo, updaterVars, history, sites, hostVars
  <2>24. ASSUME InstallTruncate PROVE Goal
    BY <2>24 DEF InstallTruncate, Step, GoTo, updaterVars, history, sites, hostVars
  <2>25. ASSUME InstallCopy PROVE Goal
    BY <2>25 DEF InstallCopy, GoTo, updaterVars, history, sites, hostVars
  <2>26. ASSUME InstallHelpers PROVE Goal
    BY <2>26 DEF InstallHelpers, Step, GoTo, updaterVars, history, sites, hostVars
  <2>27. ASSUME InstallEnds PROVE Goal
    BY <2>27 DEF InstallEnds, Step, GoTo, updaterVars, history, sites, hostVars
  <2>28. ASSUME InstallBusy PROVE Goal
    BY <2>28 DEF InstallBusy, Step, GoTo, updaterVars, history, sites, hostVars
  <2>29. ASSUME UninstallStop PROVE Goal
    BY <2>29 DEF UninstallStop, Step, GoTo, updaterVars, history, sites, hostVars
  <2>30. ASSUME UninstallUnit PROVE Goal
    BY <2>30 DEF UninstallUnit, Step, GoTo, updaterVars, history, sites, hostVars
  <2>31. ASSUME UninstallHelpers PROVE Goal
    BY <2>31 DEF UninstallHelpers, Step, GoTo, updaterVars, history, sites, hostVars
  <2>32. ASSUME UninstallConfig PROVE Goal
    BY <2>32 DEF UninstallConfig, Step, GoTo, updaterVars, history, sites, hostVars
  <2>33. ASSUME UninstallState PROVE Goal
    BY <2>33 DEF UninstallState, Step, GoTo, updaterVars, history, sites, hostVars
  <2>34. ASSUME UninstallDirs PROVE Goal
    BY <2>34 DEF UninstallDirs, Step, GoTo, updaterVars, history, sites, hostVars
  <2>35. ASSUME CommandFails PROVE Goal
    BY <2>35 DEF CommandFails, GoTo, updaterVars, history, sites, hostVars
  <2>36. ASSUME UNCHANGED vars PROVE Goal
    BY <2>36 DEF vars, updaterVars, history
  <2>37. QED
    BY <2>1, <2>2, <2>3, <2>4, <2>5, <2>6, <2>7, <2>8, <2>9, <2>10, <2>11, <2>12,
       <2>13, <2>14, <2>15, <2>16, <2>17, <2>18, <2>19, <2>20, <2>21, <2>22, <2>23,
       <2>24, <2>25, <2>26, <2>27, <2>28, <2>29, <2>30, <2>31, <2>32, <2>33, <2>34,
       <2>35, <2>36 DEF Next, Launching, Updating, CommandStep
<1>2. QED
  BY Invariance, <1>1, PTL DEF Spec, ConfirmedRuns

\* Every update that is not killed and can report ends with one final report, which
\* nothing follows before the target is launched again.
THEOREM FinalReports == Spec => OneFinalReport
<1>1. IInv /\ [Next]_vars =>
        \A t \in Targets :
          /\ pc[t] # "ended" /\ pc'[t] = "ended" => last'[t] \in Final \/ t \in silent'
          /\ last[t] \in Final /\ last'[t] # last[t]
               => last'[t] \in {"none", "failed"} \/ t \in met
  <2> SUFFICES ASSUME IInv, [Next]_vars, NEW u \in Targets
               PROVE  /\ pc[u] # "ended" /\ pc'[u] = "ended"
                           => last'[u] \in Final \/ u \in silent'
                      /\ last[u] \in Final /\ last'[u] # last[u]
                           => last'[u] \in {"none", "failed"} \/ u \in met
    OBVIOUS
  <2> DEFINE Goal ==
        /\ pc[u] # "ended" /\ pc'[u] = "ended" => last'[u] \in Final \/ u \in silent'
        /\ last[u] \in Final /\ last'[u] # last[u]
             => last'[u] \in {"none", "failed"} \/ u \in met
  <2> USE DEF IInv, TypeOK, Unmet, Final, AtWork
  <2>1. ASSUME NEW t \in Targets, NEW v \in Versions, Launch(t, v) PROVE Goal
    BY <2>1 DEF Launch, Meeting, GoTo, updaterVars, history, sites, hostVars
  <2>2. ASSUME NEW t \in Targets, LaunchFails(t) PROVE Goal
    BY <2>2, Reported DEF LaunchFails, GoTo, updaterVars, history, sites, hostVars
  <2>3. ASSUME NEW t \in Targets, Begin(t) PROVE Goal
    BY <2>3, Reported DEF Begin, GoTo, updaterVars, history, sites, hostVars
  <2>4. ASSUME NEW t \in Targets, BeginFails(t) PROVE Goal
    BY <2>4 DEF BeginFails, GoTo, updaterVars, history, sites, hostVars
  <2>5. ASSUME NEW t \in Targets, Download(t) PROVE Goal
    BY <2>5, Reported DEF Download, GoTo, updaterVars, history, sites, hostVars
  <2>6. ASSUME NEW t \in Targets, DownloadFails(t) PROVE Goal
    BY <2>6, Reported DEF DownloadFails, Fail, GoTo, updaterVars, history, sites, hostVars
  <2>7. ASSUME NEW t \in Targets, Verify(t) PROVE Goal
    BY <2>7, Reported DEF Verify, Verified, GoTo, updaterVars, history, sites, hostVars
  <2>8. ASSUME NEW t \in Targets, VerifyFails(t) PROVE Goal
    BY <2>8, Reported DEF VerifyFails, Fail, GoTo, updaterVars, history, sites, hostVars
  <2>9. ASSUME NEW t \in Targets, Stage(t) PROVE Goal
    BY <2>9 DEF Stage, GoTo, updaterVars, history, sites, hostVars
  <2>10. ASSUME NEW t \in Targets, Replace(t) PROVE Goal
    BY <2>10 DEF Replace, GoTo, updaterVars, history, sites, hostVars
  <2>11. ASSUME NEW t \in Targets, InstallFails(t) PROVE Goal
    BY <2>11, Reported DEF InstallFails, Fail, GoTo, updaterVars, history, sites, hostVars
  <2>12. ASSUME NEW t \in Targets, Refresh(t) PROVE Goal
    BY <2>12, Reported DEF Refresh, GoTo, updaterVars, history, sites, hostVars
  <2>13. ASSUME NEW t \in Targets, RefreshFails(t) PROVE Goal
    BY <2>13, Reported DEF RefreshFails, Fail, GoTo, updaterVars, history, sites, hostVars
  <2>14. ASSUME NEW t \in Targets, Restart(t) PROVE Goal
    BY <2>14 DEF Restart, GoTo, updaterVars, history, sites, hostVars
  <2>15. ASSUME NEW t \in Targets, RestartFails(t) PROVE Goal
    BY <2>15, Reported DEF RestartFails, Fail, GoTo, updaterVars, history, sites, hostVars
  <2>16. ASSUME NEW t \in Targets, Confirm(t) PROVE Goal
    BY <2>16, Reported DEF Confirm, GoTo, updaterVars, history, sites, hostVars
  <2>17. ASSUME NEW t \in Targets, NotActive(t) PROVE Goal
    BY <2>17, Reported DEF NotActive, Fail, GoTo, updaterVars, history, sites, hostVars
  <2>18. ASSUME NEW t \in Targets, Kill(t) PROVE Goal
    BY <2>18 DEF Kill, GoTo, updaterVars, history, sites, hostVars
  <2>19. ASSUME ServiceEnds PROVE Goal
    BY <2>19 DEF ServiceEnds, GoTo, updaterVars, history, sites, hostVars
  <2>20. ASSUME ServiceRestarts PROVE Goal
    BY <2>20 DEF ServiceRestarts, GoTo, updaterVars, history, sites, hostVars
  <2>21. ASSUME NEW v \in Versions, InstallStarts(v) PROVE Goal
    BY <2>21 DEF InstallStarts, Command, GoTo, updaterVars, history, sites, hostVars
  <2>22. ASSUME UninstallStarts PROVE Goal
    BY <2>22 DEF UninstallStarts, Command, GoTo, updaterVars, history, sites, hostVars
  <2>23. ASSUME InstallConfig PROVE Goal
    BY <2>23 DEF InstallConfig, Step, GoTo, updaterVars, history, sites, hostVars
  <2>24. ASSUME InstallTruncate PROVE Goal
    BY <2>24 DEF InstallTruncate, Step, GoTo, updaterVars, history, sites, hostVars
  <2>25. ASSUME InstallCopy PROVE Goal
    BY <2>25 DEF InstallCopy, GoTo, updaterVars, history, sites, hostVars
  <2>26. ASSUME InstallHelpers PROVE Goal
    BY <2>26 DEF InstallHelpers, Step, GoTo, updaterVars, history, sites, hostVars
  <2>27. ASSUME InstallEnds PROVE Goal
    BY <2>27 DEF InstallEnds, Step, GoTo, updaterVars, history, sites, hostVars
  <2>28. ASSUME InstallBusy PROVE Goal
    BY <2>28 DEF InstallBusy, Step, GoTo, updaterVars, history, sites, hostVars
  <2>29. ASSUME UninstallStop PROVE Goal
    BY <2>29 DEF UninstallStop, Step, GoTo, updaterVars, history, sites, hostVars
  <2>30. ASSUME UninstallUnit PROVE Goal
    BY <2>30 DEF UninstallUnit, Step, GoTo, updaterVars, history, sites, hostVars
  <2>31. ASSUME UninstallHelpers PROVE Goal
    BY <2>31 DEF UninstallHelpers, Step, GoTo, updaterVars, history, sites, hostVars
  <2>32. ASSUME UninstallConfig PROVE Goal
    BY <2>32 DEF UninstallConfig, Step, GoTo, updaterVars, history, sites, hostVars
  <2>33. ASSUME UninstallState PROVE Goal
    BY <2>33 DEF UninstallState, Step, GoTo, updaterVars, history, sites, hostVars
  <2>34. ASSUME UninstallDirs PROVE Goal
    BY <2>34 DEF UninstallDirs, Step, GoTo, updaterVars, history, sites, hostVars
  <2>35. ASSUME CommandFails PROVE Goal
    BY <2>35 DEF CommandFails, GoTo, updaterVars, history, sites, hostVars
  <2>36. ASSUME UNCHANGED vars PROVE Goal
    BY <2>36 DEF vars, updaterVars, history
  <2>37. QED
    BY <2>1, <2>2, <2>3, <2>4, <2>5, <2>6, <2>7, <2>8, <2>9, <2>10, <2>11, <2>12,
       <2>13, <2>14, <2>15, <2>16, <2>17, <2>18, <2>19, <2>20, <2>21, <2>22, <2>23,
       <2>24, <2>25, <2>26, <2>27, <2>28, <2>29, <2>30, <2>31, <2>32, <2>33, <2>34,
       <2>35, <2>36 DEF Next, Launching, Updating, CommandStep
<1>2. QED
  BY Invariance, <1>1, PTL DEF Spec, OneFinalReport

====
