------------------------------ MODULE RootAccess ------------------------------
(***************************************************************************)
(* internal/rootaccess/manager.go: the reconciliation of the root profile   *)
(* the platform desires with the sudoers file of the host.  The claim loop  *)
(* and the socket's event handlers both hand snapshots to                   *)
(* HandleDesiredSnapshot, which holds no lock while the helper runs; the    *)
(* agent may crash and restart between any two steps.  A self-update and an *)
(* installation run the helper too (agentctl/commands.go), beside the agent *)
(* and without its state.                                                  *)
(***************************************************************************)
EXTENDS Naturals

CONSTANTS
  Profiles,    \* root profiles, "off" among them
  Callers,     \* who delivers snapshots: the claim loop, the socket
  Faults,      \* which of "helper", "write", "crash" are considered
  MaxChanges,  \* bound: changes of the desired profile
  MaxFaults,   \* bound: faults that happen
  MaxCommands, \* bound: self-updates and installations
  Unreadable   \* content of a state file that cannot be decoded

ASSUME ProfileAssumption == "off" \in Profiles
ASSUME FaultAssumption == Faults \subseteq {"helper", "write", "crash"}
ASSUME CallerAssumption == "update" \notin Callers
ASSUME BoundAssumption == {MaxChanges, MaxFaults, MaxCommands} \subseteq Nat

VARIABLES
  desired,  \* the profile the platform wants (external)
  changes,  \* changes of it so far
  faults,   \* faults so far
  commands, \* self-updates and installations so far
  helper,   \* the root profile helper is installed
  host,     \* [profile, revision] of the sudoers file the helper wrote
  up,       \* the agent runs
  mem,      \* Manager.state
  disk,     \* root_access_state.json: a state, or Unreadable
  pc,       \* [Callers -> Points]: where HandleDesiredSnapshot is
  snapshot, \* [Callers -> Profiles]: the profile it was given
  updating, \* the profile a self-update has read and not yet applied, if any
  overlaps, \* history: who applies beside another; "update" for the self-update
  doubt     \* history: since the last application that was recorded and ran alone,
            \* one overlapped with another, was cut off or could not be recorded

env == <<desired, changes, faults, helper, commands, updating>>
history == <<overlaps, doubt>>
vars == <<env, host, up, mem, disk, pc, snapshot, history>>

Revision == 1  \* rootAccessStateRevision; 0 is the state of an older agent
Revisions == {0, Revision}
Points == {"idle", "received", "applying", "applied", "failed"}
State == [profile : Profiles, error : BOOLEAN, revision : Revisions]

ASSUME UnreadableAssumption == Unreadable \notin State

DefaultState == [profile |-> "off", error |-> FALSE, revision |-> Revision]

TypeOK ==
  /\ desired \in Profiles
  /\ changes \in 0..MaxChanges
  /\ faults \in 0..MaxFaults
  /\ helper \in BOOLEAN
  /\ host \in [profile : Profiles, revision : Revisions]
  /\ up \in BOOLEAN
  /\ mem \in State
  /\ disk \in State \cup {Unreadable}
  /\ pc \in [Callers -> Points]
  /\ snapshot \in [Callers -> Profiles]
  /\ commands \in 0..MaxCommands
  /\ updating \in {{}} \cup {{p} : p \in Profiles}
  /\ overlaps \subseteq Callers \cup {"update"}
  /\ doubt \in BOOLEAN

\* A first start, or one after an earlier agent applied a profile.  Without a
\* helper nothing can have been applied.
Init ==
  /\ helper \in BOOLEAN
  /\ \E p \in IF helper THEN Profiles ELSE {"off"}, r \in Revisions :
       /\ host = [profile |-> p, revision |-> r]
       /\ mem = [profile |-> p, error |-> FALSE, revision |-> r]
       /\ disk = mem
  /\ desired \in Profiles
  /\ changes = 0
  /\ faults = 0 /\ commands = 0
  /\ updating = {}
  /\ up = TRUE
  /\ pc = [c \in Callers |-> "idle"]
  /\ snapshot = [c \in Callers |-> "off"]
  /\ overlaps = {}
  /\ doubt = FALSE

Fault(kind) ==
  /\ kind \in Faults
  /\ faults < MaxFaults
  /\ faults' = faults + 1

-------------------------------------------------------------------------------
(* The platform *)

ChangeDesired(p) ==
  /\ p # desired
  /\ changes < MaxChanges
  /\ desired' = p
  /\ changes' = changes + 1
  /\ UNCHANGED <<faults, helper, commands, updating, host, up, mem, disk, pc, snapshot, history>>

\* A claim answer, an auth acknowledgement or a root-access.updated event; by
\* the time it is handled the platform may want something else.
Deliver(c) ==
  /\ up
  /\ pc[c] = "idle"
  /\ pc' = [pc EXCEPT ![c] = "received"]
  /\ snapshot' = [snapshot EXCEPT ![c] = desired]
  /\ UNCHANGED <<env, host, up, mem, disk, history>>

-------------------------------------------------------------------------------
(* HandleDesiredSnapshot and applyProfile *)

\* Mutant: the rules of an older agent count as up to date.
UpToDate_anyRevision(p) == mem.profile = p /\ ~mem.error

UpToDate(p) == mem.profile = p /\ ~mem.error /\ mem.revision >= Revision

\* The state, read under the read lock, says that there is nothing to do.
Skip(c) ==
  /\ up
  /\ pc[c] = "received"
  /\ UpToDate(snapshot[c])
  /\ pc' = [pc EXCEPT ![c] = "idle"]
  /\ UNCHANGED <<env, host, up, mem, disk, snapshot, history>>

\* Those who have begun to apply a profile and not yet come to its end.
Applying ==
  {c \in Callers : pc[c] \in {"applying", "applied", "failed"}}
    \cup (IF updating = {} THEN {} ELSE {"update"})

Overlap(other) == IF Applying = {} THEN overlaps \ other ELSE overlaps \cup Applying \cup other

\* Without a helper "off" counts as applied and anything else fails.
Apply(c) ==
  /\ up
  /\ pc[c] = "received"
  /\ ~UpToDate(snapshot[c])
  /\ pc' = [pc EXCEPT ![c] = IF helper THEN "applying"
                             ELSE IF snapshot[c] = "off" THEN "applied" ELSE "failed"]
  /\ overlaps' = Overlap({c})
  /\ UNCHANGED <<env, host, up, mem, disk, snapshot, doubt>>

Installed(c) == [profile |-> snapshot[c], revision |-> Revision]

\* The helper installs the sudoers file, or removes it, and exits with 0.
HelperSucceeds(c) ==
  /\ up
  /\ pc[c] = "applying"
  /\ host' = Installed(c)
  /\ pc' = [pc EXCEPT ![c] = "applied"]
  /\ UNCHANGED <<env, up, mem, disk, snapshot, history>>

\* It fails before the installation, or is killed after it.
HelperFails(c) ==
  /\ up
  /\ pc[c] = "applying"
  /\ Fault("helper")
  /\ host' \in {host, Installed(c)}
  /\ pc' = [pc EXCEPT ![c] = "failed"]
  /\ UNCHANGED <<desired, changes, helper, commands, updating, up, mem, disk, snapshot, history>>

\* Mutant: a failure is not recorded.
NextState_silent(c) ==
  [profile  |-> IF pc[c] = "applied" THEN snapshot[c] ELSE mem.profile,
   error    |-> FALSE,
   revision |-> Revision]

\* The state after a success, or after an error that keeps the old profile.
NextState(c) ==
  [profile  |-> IF pc[c] = "applied" THEN snapshot[c] ELSE mem.profile,
   error    |-> pc[c] = "failed",
   revision |-> Revision]

\* updateState, under the lock: the file first, then the memory.
updateState(c) ==
  /\ up
  /\ pc[c] \in {"applied", "failed"}
  /\ disk' = NextState(c)
  /\ mem' = NextState(c)
  /\ pc' = [pc EXCEPT ![c] = "idle"]
  /\ doubt' = (c \in overlaps \/ (doubt /\ pc[c] = "failed"))
  /\ UNCHANGED <<env, host, up, snapshot, overlaps>>

\* Mutant: the memory takes a state that was not written.
WriteFails_remembered(c) ==
  /\ up
  /\ pc[c] \in {"applied", "failed"}
  /\ Fault("write")
  /\ mem' = NextState(c)
  /\ pc' = [pc EXCEPT ![c] = "idle"]
  /\ doubt' = TRUE
  /\ UNCHANGED <<desired, changes, helper, commands, updating, host, up, disk, snapshot, overlaps>>

\* The file cannot be written, perhaps after it was truncated: the memory keeps
\* the old state, without an error.
WriteFails(c) ==
  /\ up
  /\ pc[c] \in {"applied", "failed"}
  /\ Fault("write")
  /\ disk' \in {disk, Unreadable}
  /\ pc' = [pc EXCEPT ![c] = "idle"]
  /\ doubt' = TRUE
  /\ UNCHANGED <<desired, changes, helper, commands, updating, host, up, mem, snapshot, overlaps>>

-------------------------------------------------------------------------------
(* Crash and restart *)

\* Helpers that run may or may not finish; a write under way leaves a
\* truncated file.
Crash ==
  /\ up
  /\ Fault("crash")
  /\ up' = FALSE
  /\ host' \in {host} \cup {Installed(c) : c \in {d \in Callers : pc[d] = "applying"}}
  /\ disk' \in {disk} \cup {Unreadable : c \in {d \in Callers : pc[d] \in {"applied", "failed"}}}
  /\ pc' = [c \in Callers |-> "idle"]
  /\ doubt' = (doubt \/ Applying \ {"update"} # {})
  /\ UNCHANGED <<desired, changes, helper, commands, updating, mem, snapshot, overlaps>>

\* load: a file that cannot be decoded counts as no file.
load == IF disk = Unreadable THEN DefaultState ELSE disk

Restart ==
  /\ ~up
  /\ up' = TRUE
  /\ mem' = load
  /\ UNCHANGED <<env, host, disk, pc, snapshot, history>>

-------------------------------------------------------------------------------
(* Commands beside the agent *)

\* reconcilePersistedRootAccessProfile, in a self-update: the state file's profile
\* is read; a file that cannot be decoded ends the update ...
UpdateReads ==
  /\ helper /\ updating = {}
  /\ commands < MaxCommands
  /\ disk # Unreadable
  /\ commands' = commands + 1
  /\ updating' = {disk.profile}
  /\ overlaps' = Overlap({"update"})
  /\ UNCHANGED <<desired, changes, faults, helper, host, up, mem, disk, pc, snapshot, doubt>>

\* ... and applied by a helper that writes this revision's rules.
UpdateApplies ==
  /\ \E p \in updating : host' = [profile |-> p, revision |-> Revision]
  /\ updating' = {}
  /\ doubt' = ("update" \in overlaps)
  /\ overlaps' = overlaps \ {"update"}
  /\ UNCHANGED <<desired, changes, faults, helper, commands, up, mem, disk, pc, snapshot>>

\* The helper fails before the installation, or after it: the update ends.
UpdateFails ==
  /\ Fault("helper")
  /\ \E p \in updating : host' \in {host, [profile |-> p, revision |-> Revision]}
  /\ updating' = {}
  /\ doubt' = (doubt \/ "update" \in overlaps)
  /\ overlaps' = overlaps \ {"update"}
  /\ UNCHANGED <<desired, changes, helper, commands, up, mem, disk, pc, snapshot>>

\* Install: the helper is written and the profile "off" applied; the state file,
\* if there is one, keeps the old profile.
Reinstall ==
  /\ commands < MaxCommands
  /\ commands' = commands + 1
  /\ helper' = TRUE
  /\ host' = [profile |-> "off", revision |-> Revision]
  /\ overlaps' = Overlap({})
  /\ doubt' = TRUE
  /\ UNCHANGED <<desired, changes, faults, updating, up, mem, disk, pc, snapshot>>

-------------------------------------------------------------------------------
CallerStep(c) ==
  \/ Skip(c)
  \/ Apply(c)
  \/ HelperSucceeds(c)
  \/ HelperFails(c)
  \/ updateState(c)
  \/ WriteFails(c)

Next ==
  \/ \E p \in Profiles : ChangeDesired(p)
  \/ \E c \in Callers : Deliver(c)
  \/ \E c \in Callers : CallerStep(c)
  \/ Crash
  \/ Restart
  \/ UpdateReads
  \/ UpdateApplies
  \/ UpdateFails
  \/ Reinstall

Spec == Init /\ [][Next]_vars

\* The claim loop polls for ever and its handler runs; systemd restarts the agent.
FairSpec ==
  /\ Spec
  /\ \A c \in Callers : WF_vars(Deliver(c)) /\ WF_vars(CallerStep(c))
  /\ WF_vars(Restart) /\ WF_vars(UpdateApplies)

-------------------------------------------------------------------------------
(* Properties *)

Quiescent == up /\ \A c \in Callers : pc[c] = "idle"

\* What the agent reports as applied, without an error, is what the host has:
\* README.md:169, "It persists the applied state locally and reports it back".
\* Not so after two applications at once, one that was cut off or not recorded, or
\* a new installation, which applies "off" and leaves the state file alone
\* (agentctl/commands.go:262), until one that runs alone is recorded or a
\* self-update has applied the state file.
AppliedMatchesHost == Quiescent /\ ~mem.error /\ ~doubt => mem.profile = host.profile

\* Once the platform's wish and the faults have settled, the agent reports that
\* profile, without an error and with this agent's revision, and the host has it
\* and keeps it: an older agent's file or an error on record is applied again.
\* CHANGELOG.md:123 says the persisted state lets the agent "recover cleanly across
\* restarts".  Where the report may be wrong (doubt), nothing is applied again.
HostConverges ==
  LET wish == [profile |-> desired, revision |-> Revision]
  IN <>[](helper =>
            /\ ~mem.error
            /\ [profile |-> mem.profile, revision |-> mem.revision] = wish
            /\ doubt \/ host = wish)

\* The file and the memory never disagree while the file can be read: a restart
\* reports what was reported before, whatever failed in between.
DiskIsMemory == up /\ disk # Unreadable => disk = mem

===============================================================================
