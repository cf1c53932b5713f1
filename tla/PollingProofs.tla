---------------------------- MODULE PollingProofs -----------------------------
(****************************************************************************)
(* The claim loop and two of the things its answers set off: the root       *)
(* profile of the desired snapshot and the scan of a log.  The safety       *)
(* properties of TaskPolling for any number of rotations, of RootAccess for *)
(* every set of profiles and of callers, any faults and every bound, and of *)
(* LogScan for any limits of a scan and every bound.  The three share no    *)
(* variable: the sections do not depend on one another.                     *)
(****************************************************************************)
EXTENDS TaskPolling, RootAccess, LogScan, TLAPS, WellFoundedInduction, FiniteSetTheorems

-------------------------------------------------------------------------------
(* === TaskPolling === *)

\* The header trails the identity, and no step puts an older token into it than the
\* last claim carried: a refresh under way has read one at least as new.
Ordered ==
  /\ request <= header /\ header <= identity /\ identity <= staged
  /\ loop = "setting" => request <= read /\ read <= identity
  /\ rotation # "idle" => staged >= 1
  /\ rotation \in {"installed", "reauthenticating"} => identity = staged

\* Until a second token is staged, the platform accepts all of them or, once the
\* agent has authenticated with the first, that one only.
Acceptance ==
  \/ valid = 0..staged
  \/ valid = {1} /\ identity = 1 /\ staged = 1 /\ rotation = "idle"

\* A claim rejected until then was sent with the retired token, and what the loop
\* does next brings the accepted one into the second claim.
Recovering ==
  loop \in {"refreshing", "setting", "again", "reclaiming"} =>
    /\ valid = {1} /\ identity = 1 /\ staged = 1 /\ rotation = "idle"
    /\ loop = "setting" => read = 1
    /\ loop = "again" => header = 1
    /\ loop = "reclaiming" => request = 1

PollInv ==
  /\ PollTypeOK
  /\ Ordered
  /\ ~Overtaken => Acceptance /\ Recovering
  /\ PollingSurvivesRotation

-------------------------------------------------------------------------------
\* The state is well typed.
LEMMA PollTypeStep == PollTypeOK /\ [PollNext]_pollVars => PollTypeOK'
<1> SUFFICES ASSUME PollTypeOK, [PollNext]_pollVars PROVE PollTypeOK'
  OBVIOUS
<1> USE RotationAssumption DEF PollTypeOK, Tokens, LoopPoints, RotationPoints, Backoffs, loopVars
<1>1. ASSUME LoopEnd PROVE PollTypeOK'
  BY <1>1 DEF LoopEnd
<1>2. ASSUME FirstClaim PROVE PollTypeOK'
  BY <1>2 DEF FirstClaim, Claim
<1>3. ASSUME SecondClaim PROVE PollTypeOK'
  BY <1>3 DEF SecondClaim, Claim
<1>4. ASSUME Granted PROVE PollTypeOK'
  BY <1>4 DEF Granted, Waiting
<1>5. ASSUME Handle PROVE PollTypeOK'
  BY <1>5 DEF Handle
<1>6. ASSUME Rejected PROVE PollTypeOK'
  BY <1>6 DEF Rejected
<1>7. ASSUME RefreshRead PROVE PollTypeOK'
  BY <1>7 DEF RefreshRead
<1>8. ASSUME RefreshSet PROVE PollTypeOK'
  BY <1>8 DEF RefreshSet
<1>9. ASSUME Unauthorized PROVE PollTypeOK'
  BY <1>9 DEF Unauthorized
<1>10. ASSUME StateConflict PROVE PollTypeOK'
  BY <1>10 DEF StateConflict, Waiting
<1>11. ASSUME NetworkError PROVE PollTypeOK'
  BY <1>11 DEF NetworkError, Waiting
<1>12. ASSUME OtherError PROVE PollTypeOK'
  BY <1>12 DEF OtherError, Waiting
<1>13. ASSUME Sleep PROVE PollTypeOK'
  BY <1>13 DEF Sleep
<1>14. ASSUME Persist PROVE PollTypeOK'
  BY <1>14 DEF Persist
<1>15. ASSUME Install PROVE PollTypeOK'
  BY <1>15 DEF Install
<1>16. ASSUME SetHeader PROVE PollTypeOK'
  BY <1>16 DEF SetHeader
<1>17. ASSUME Reauthenticate PROVE PollTypeOK'
  BY <1>17 DEF Reauthenticate
<1>18. ASSUME Stage PROVE PollTypeOK'
  <2>1. staged + 1 \in Tokens
    BY <1>18 DEF Stage
  <2>2. QED
    BY <1>18, <2>1 DEF Stage
<1>19. ASSUME Shutdown PROVE PollTypeOK'
  BY <1>19 DEF Shutdown
<1>20. ASSUME UNCHANGED pollVars PROVE PollTypeOK'
  BY <1>20 DEF pollVars, loopVars
<1>21. QED
  BY <1>1, <1>2, <1>3, <1>4, <1>5, <1>6, <1>7, <1>8, <1>9, <1>10, <1>11, <1>12,
     <1>13, <1>14, <1>15, <1>16, <1>17, <1>18, <1>19, <1>20 DEF PollNext, LoopStep,
     RotationStep

\* Tokens grow; the one place that writes an older header, the refresh, has read the
\* identity after the claim was sent.
LEMMA OrderStep == PollTypeOK /\ Ordered /\ [PollNext]_pollVars => Ordered'
<1> SUFFICES ASSUME PollTypeOK /\ Ordered, [PollNext]_pollVars PROVE Ordered'
  OBVIOUS
<1> USE RotationAssumption DEF PollTypeOK, Tokens, Ordered, loopVars
<1>1. ASSUME LoopEnd PROVE Ordered'
  BY <1>1 DEF LoopEnd
<1>2. ASSUME FirstClaim PROVE Ordered'
  BY <1>2 DEF FirstClaim, Claim
<1>3. ASSUME SecondClaim PROVE Ordered'
  BY <1>3 DEF SecondClaim, Claim
<1>4. ASSUME Granted PROVE Ordered'
  BY <1>4 DEF Granted, Waiting
<1>5. ASSUME Handle PROVE Ordered'
  BY <1>5 DEF Handle
<1>6. ASSUME Rejected PROVE Ordered'
  BY <1>6 DEF Rejected
<1>7. ASSUME RefreshRead PROVE Ordered'
  BY <1>7 DEF RefreshRead
<1>8. ASSUME RefreshSet PROVE Ordered'
  BY <1>8 DEF RefreshSet
<1>9. ASSUME Unauthorized PROVE Ordered'
  BY <1>9 DEF Unauthorized
<1>10. ASSUME StateConflict PROVE Ordered'
  BY <1>10 DEF StateConflict, Waiting
<1>11. ASSUME NetworkError PROVE Ordered'
  BY <1>11 DEF NetworkError, Waiting
<1>12. ASSUME OtherError PROVE Ordered'
  BY <1>12 DEF OtherError, Waiting
<1>13. ASSUME Sleep PROVE Ordered'
  BY <1>13 DEF Sleep
<1>14. ASSUME Persist PROVE Ordered'
  BY <1>14 DEF Persist
<1>15. ASSUME Install PROVE Ordered'
  BY <1>15 DEF Install
<1>16. ASSUME SetHeader PROVE Ordered'
  BY <1>16 DEF SetHeader
<1>17. ASSUME Reauthenticate PROVE Ordered'
  BY <1>17 DEF Reauthenticate
<1>18. ASSUME Stage PROVE Ordered'
  BY <1>18 DEF Stage
<1>19. ASSUME Shutdown PROVE Ordered'
  BY <1>19 DEF Shutdown
<1>20. ASSUME UNCHANGED pollVars PROVE Ordered'
  BY <1>20 DEF pollVars, loopVars
<1>21. QED
  BY <1>1, <1>2, <1>3, <1>4, <1>5, <1>6, <1>7, <1>8, <1>9, <1>10, <1>11, <1>12,
     <1>13, <1>14, <1>15, <1>16, <1>17, <1>18, <1>19, <1>20 DEF PollNext, LoopStep,
     RotationStep

\* Up to the second rotation, the refreshed claim carries a token the platform accepts.
LEMMA RecoveryStep == PollInv /\ [PollNext]_pollVars => (~Overtaken => Acceptance /\ Recovering)'
<1> SUFFICES ASSUME PollInv, [PollNext]_pollVars PROVE (~Overtaken => Acceptance /\ Recovering)'
  OBVIOUS
<1> USE RotationAssumption DEF PollInv, PollTypeOK, Tokens, Ordered, Overtaken, Acceptance,
        Recovering, loopVars
<1>1. ASSUME LoopEnd PROVE (~Overtaken => Acceptance /\ Recovering)'
  BY <1>1 DEF LoopEnd
<1>2. ASSUME FirstClaim PROVE (~Overtaken => Acceptance /\ Recovering)'
  BY <1>2 DEF FirstClaim, Claim
<1>3. ASSUME SecondClaim PROVE (~Overtaken => Acceptance /\ Recovering)'
  BY <1>3 DEF SecondClaim, Claim
<1>4. ASSUME Granted PROVE (~Overtaken => Acceptance /\ Recovering)'
  BY <1>4 DEF Granted, Waiting
<1>5. ASSUME Handle PROVE (~Overtaken => Acceptance /\ Recovering)'
  BY <1>5 DEF Handle
<1>6. ASSUME Rejected PROVE (~Overtaken => Acceptance /\ Recovering)'
  BY <1>6 DEF Rejected
<1>7. ASSUME RefreshRead PROVE (~Overtaken => Acceptance /\ Recovering)'
  BY <1>7 DEF RefreshRead
<1>8. ASSUME RefreshSet PROVE (~Overtaken => Acceptance /\ Recovering)'
  BY <1>8 DEF RefreshSet
<1>9. ASSUME Unauthorized PROVE (~Overtaken => Acceptance /\ Recovering)'
  BY <1>9 DEF Unauthorized
<1>10. ASSUME StateConflict PROVE (~Overtaken => Acceptance /\ Recovering)'
  BY <1>10 DEF StateConflict, Waiting
<1>11. ASSUME NetworkError PROVE (~Overtaken => Acceptance /\ Recovering)'
  BY <1>11 DEF NetworkError, Waiting
<1>12. ASSUME OtherError PROVE (~Overtaken => Acceptance /\ Recovering)'
  BY <1>12 DEF OtherError, Waiting
<1>13. ASSUME Sleep PROVE (~Overtaken => Acceptance /\ Recovering)'
  BY <1>13 DEF Sleep
<1>14. ASSUME Persist PROVE (~Overtaken => Acceptance /\ Recovering)'
  BY <1>14 DEF Persist
<1>15. ASSUME Install PROVE (~Overtaken => Acceptance /\ Recovering)'
  BY <1>15 DEF Install
<1>16. ASSUME SetHeader PROVE (~Overtaken => Acceptance /\ Recovering)'
  BY <1>16 DEF SetHeader
<1>17. ASSUME Reauthenticate PROVE (~Overtaken => Acceptance /\ Recovering)'
  BY <1>17 DEF Reauthenticate
<1>18. ASSUME Stage PROVE (~Overtaken => Acceptance /\ Recovering)'
  BY <1>18 DEF Stage
<1>19. ASSUME Shutdown PROVE (~Overtaken => Acceptance /\ Recovering)'
  BY <1>19 DEF Shutdown
<1>20. ASSUME UNCHANGED pollVars PROVE (~Overtaken => Acceptance /\ Recovering)'
  BY <1>20 DEF pollVars, loopVars
<1>21. QED
  BY <1>1, <1>2, <1>3, <1>4, <1>5, <1>6, <1>7, <1>8, <1>9, <1>10, <1>11, <1>12,
     <1>13, <1>14, <1>15, <1>16, <1>17, <1>18, <1>19, <1>20 DEF PollNext, LoopStep,
     RotationStep

\* Only the rejection of the second claim ends the loop before the context does.
LEMMA SurvivalStep == PollInv /\ [PollNext]_pollVars => PollingSurvivesRotation'
<1> SUFFICES ASSUME PollInv, [PollNext]_pollVars PROVE PollingSurvivesRotation'
  OBVIOUS
<1> USE RotationAssumption DEF PollInv, PollTypeOK, Tokens, Overtaken, Recovering,
        PollingSurvivesRotation, loopVars
<1>1. ASSUME LoopEnd PROVE PollingSurvivesRotation'
  BY <1>1 DEF LoopEnd
<1>2. ASSUME FirstClaim PROVE PollingSurvivesRotation'
  BY <1>2 DEF FirstClaim, Claim
<1>3. ASSUME SecondClaim PROVE PollingSurvivesRotation'
  BY <1>3 DEF SecondClaim, Claim
<1>4. ASSUME Granted PROVE PollingSurvivesRotation'
  BY <1>4 DEF Granted, Waiting
<1>5. ASSUME Handle PROVE PollingSurvivesRotation'
  BY <1>5 DEF Handle
<1>6. ASSUME Rejected PROVE PollingSurvivesRotation'
  BY <1>6 DEF Rejected
<1>7. ASSUME RefreshRead PROVE PollingSurvivesRotation'
  BY <1>7 DEF RefreshRead
<1>8. ASSUME RefreshSet PROVE PollingSurvivesRotation'
  BY <1>8 DEF RefreshSet
<1>9. ASSUME Unauthorized PROVE PollingSurvivesRotation'
  BY <1>9 DEF Unauthorized
<1>10. ASSUME StateConflict PROVE PollingSurvivesRotation'
  BY <1>10 DEF StateConflict, Waiting
<1>11. ASSUME NetworkError PROVE PollingSurvivesRotation'
  BY <1>11 DEF NetworkError, Waiting
<1>12. ASSUME OtherError PROVE PollingSurvivesRotation'
  BY <1>12 DEF OtherError, Waiting
<1>13. ASSUME Sleep PROVE PollingSurvivesRotation'
  BY <1>13 DEF Sleep
<1>14. ASSUME Persist PROVE PollingSurvivesRotation'
  BY <1>14 DEF Persist
<1>15. ASSUME Install PROVE PollingSurvivesRotation'
  BY <1>15 DEF Install
<1>16. ASSUME SetHeader PROVE PollingSurvivesRotation'
  BY <1>16 DEF SetHeader
<1>17. ASSUME Reauthenticate PROVE PollingSurvivesRotation'
  BY <1>17 DEF Reauthenticate
<1>18. ASSUME Stage PROVE PollingSurvivesRotation'
  BY <1>18 DEF Stage
<1>19. ASSUME Shutdown PROVE PollingSurvivesRotation'
  BY <1>19 DEF Shutdown
<1>20. ASSUME UNCHANGED pollVars PROVE PollingSurvivesRotation'
  BY <1>20 DEF pollVars, loopVars
<1>21. QED
  BY <1>1, <1>2, <1>3, <1>4, <1>5, <1>6, <1>7, <1>8, <1>9, <1>10, <1>11, <1>12,
     <1>13, <1>14, <1>15, <1>16, <1>17, <1>18, <1>19, <1>20 DEF PollNext, LoopStep,
     RotationStep

-------------------------------------------------------------------------------
LEMMA PollStarts == PollInit => PollInv
<1> SUFFICES ASSUME PollInit PROVE PollInv
  OBVIOUS
<1> USE RotationAssumption DEF PollInit
<1>1. PollTypeOK
  <2>1. {request, read, staged, identity, header} \subseteq Tokens /\ valid \subseteq Tokens
    BY DEF Tokens
  <2>2. QED
    BY <2>1 DEF PollTypeOK, LoopPoints, RotationPoints, Backoffs
<1>2. Ordered /\ PollingSurvivesRotation /\ Recovering
  BY DEF Ordered, PollingSurvivesRotation, Recovering
<1>3. Acceptance
  BY DEF Acceptance
<1>4. QED
  BY <1>1, <1>2, <1>3 DEF PollInv

\* PollInv always holds: which tokens the platform accepts, and which of them the
\* refresh is carrying, decide whether the second claim can be rejected.
THEOREM PollInvariance == PollSpec => []PollInv
<1>1. PollInv /\ [PollNext]_pollVars => PollInv'
  BY PollTypeStep, OrderStep, RecoveryStep, SurvivalStep DEF PollInv
<1>2. QED
  BY PollStarts, <1>1, PTL DEF PollSpec

\* The claim loop outlives the rotation of the token: one 401 is answered by a
\* refresh (tasks/service.go:234), and only a second rotation
\* in between can make the refreshed claim fail as well.
THEOREM SurvivesRotation == PollSpec => []PollingSurvivesRotation
<1>1. PollInv => PollingSurvivesRotation
  BY DEF PollInv
<1>2. QED
  BY PollInvariance, <1>1, PTL

\* No claim carries an older token than the one before it, although the refresh may
\* overwrite a newer header: the identity is read after the rejection.
THEOREM ClaimsOrdered == PollSpec => ClaimsNeverOlder
<1>1. PollTypeOK /\ Ordered /\ [PollNext]_pollVars => [request' >= request]_pollVars
  <2> SUFFICES ASSUME PollTypeOK, Ordered, PollNext PROVE request' >= request
    BY DEF PollTypeOK, Tokens
  <2> USE RotationAssumption DEF PollTypeOK, Tokens, Ordered
  <2>1. CASE FirstClaim \/ SecondClaim
    BY <2>1 DEF FirstClaim, SecondClaim, Claim
  <2>2. CASE request' = request
    BY <2>2
  <2>3. QED
    BY <2>1, <2>2 DEF PollNext, LoopStep, RotationStep, LoopEnd, Granted, Handle, Rejected,
       RefreshRead, RefreshSet, Unauthorized, StateConflict, NetworkError, OtherError, Sleep,
       Persist, Install, SetHeader, Reauthenticate, Stage, Shutdown, loopVars
<1>2. PollInv => PollTypeOK /\ Ordered
  BY DEF PollInv
<1>3. QED
  BY PollInvariance, <1>1, <1>2, PTL DEF PollSpec, ClaimsNeverOlder

-------------------------------------------------------------------------------
(* === RootAccess === *)

\* What the agent reports, or will report once it is up again.
Reported == IF up THEN mem ELSE load

\* With nothing to record and nothing in doubt, the report is the host's profile.
ReportSound ==
  ~doubt /\ ~Reported.error /\ (\A c \in Callers : pc[c] \notin {"applied", "failed"})
    => host.profile = Reported.profile

\* An application that ran alone has left its profile on the host.
AloneSound ==
  \A c \in Callers : pc[c] = "applied" /\ c \notin overlaps => host.profile = snapshot[c]

\* Of two that apply at once, both overlap.
OverlapsComplete == \A x, y \in Applying : x # y => x \in overlaps

\* A self-update that runs alone has read what the file still says.
UpdateSound ==
  \A p \in updating : "update" \notin overlaps => disk # Unreadable /\ disk.profile = p

\* Nothing is applied without a helper.
HelperSound ==
  /\ ~helper => host.profile = "off"
  /\ updating # {} \/ (\E c \in Callers : pc[c] = "applying") => helper

UnreadableInDoubt == disk = Unreadable => doubt

RootInv ==
  /\ TypeOK
  /\ DiskIsMemory
  /\ ReportSound
  /\ AloneSound
  /\ OverlapsComplete
  /\ UpdateSound
  /\ HelperSound
  /\ UnreadableInDoubt

-------------------------------------------------------------------------------
(* Each conjunct is kept by every step; one proof step per action. *)

\* The state is well typed.
LEMMA RootTypeStep == TypeOK /\ [Next]_vars => TypeOK'
<1> SUFFICES ASSUME TypeOK, [Next]_vars PROVE TypeOK'
  OBVIOUS
<1> USE ProfileAssumption, FaultAssumption, CallerAssumption, BoundAssumption,
        UnreadableAssumption DEF TypeOK, State, Points, Revisions, Revision, env, history
<1>1. ASSUME NEW p \in Profiles, ChangeDesired(p) PROVE TypeOK'
  BY <1>1 DEF ChangeDesired
<1>2. ASSUME NEW c \in Callers, Deliver(c) PROVE TypeOK'
  BY <1>2 DEF Deliver
<1>3. ASSUME NEW c \in Callers, Skip(c) PROVE TypeOK'
  BY <1>3 DEF Skip
<1>4. ASSUME NEW c \in Callers, Apply(c) PROVE TypeOK'
  BY <1>4 DEF Apply, Overlap, Applying
<1>5. ASSUME NEW c \in Callers, HelperSucceeds(c) PROVE TypeOK'
  BY <1>5 DEF HelperSucceeds, Installed
<1>6. ASSUME NEW c \in Callers, HelperFails(c) PROVE TypeOK'
  BY <1>6 DEF HelperFails, Installed, Fault
<1>7. ASSUME NEW c \in Callers, updateState(c) PROVE TypeOK'
  BY <1>7 DEF updateState, NextState
<1>8. ASSUME NEW c \in Callers, WriteFails(c) PROVE TypeOK'
  BY <1>8 DEF WriteFails, Fault
<1>9. ASSUME Crash PROVE TypeOK'
  <2>1. host' \in [profile : Profiles, revision : Revisions]
    BY <1>9 DEF Crash, Installed
  <2>2. disk' \in State \cup {Unreadable}
    BY <1>9 DEF Crash
  <2>3. faults' \in 0..MaxFaults /\ pc' \in [Callers -> Points]
    BY <1>9 DEF Crash, Fault
  <2>4. QED
    BY <1>9, <2>1, <2>2, <2>3 DEF Crash
<1>10. ASSUME Restart PROVE TypeOK'
  BY <1>10 DEF Restart, load, DefaultState
<1>11. ASSUME UpdateReads PROVE TypeOK'
  BY <1>11 DEF UpdateReads, Overlap, Applying
<1>12. ASSUME UpdateApplies \/ UpdateFails PROVE TypeOK'
  <2>1. host' \in [profile : Profiles, revision : Revisions]
    BY <1>12 DEF UpdateApplies, UpdateFails
  <2>2. faults' \in 0..MaxFaults
    BY <1>12 DEF UpdateApplies, UpdateFails, Fault
  <2>3. CASE UpdateApplies
    BY <2>3, <2>1, <2>2 DEF UpdateApplies
  <2>4. CASE UpdateFails
    BY <2>4, <2>1, <2>2 DEF UpdateFails
  <2>5. QED
    BY <1>12, <2>3, <2>4
<1>13. ASSUME Reinstall PROVE TypeOK'
  BY <1>13 DEF Reinstall, Overlap, Applying
<1>14. ASSUME UNCHANGED vars PROVE TypeOK'
  BY <1>14 DEF vars, env, history
<1>15. QED
  BY <1>1, <1>2, <1>3, <1>4, <1>5, <1>6, <1>7, <1>8, <1>9, <1>10, <1>11, <1>12, <1>13, <1>14
     DEF Next, CallerStep

\* updateState writes the file before the memory; a write that fails leaves both or
\* destroys the file; a restart reads what was written.
LEMMA DiskStep == RootInv /\ [Next]_vars => DiskIsMemory'
<1> SUFFICES ASSUME RootInv, [Next]_vars PROVE DiskIsMemory'
  OBVIOUS
<1> USE UnreadableAssumption DEF RootInv, DiskIsMemory, env, history, load, TypeOK
<1>1. ASSUME NEW p \in Profiles, ChangeDesired(p) PROVE DiskIsMemory'
  BY <1>1 DEF ChangeDesired
<1>2. ASSUME NEW c \in Callers, Deliver(c) PROVE DiskIsMemory'
  BY <1>2 DEF Deliver
<1>3. ASSUME NEW c \in Callers, Skip(c) PROVE DiskIsMemory'
  BY <1>3 DEF Skip
<1>4. ASSUME NEW c \in Callers, Apply(c) PROVE DiskIsMemory'
  BY <1>4 DEF Apply, Overlap, Applying
<1>5. ASSUME NEW c \in Callers, HelperSucceeds(c) PROVE DiskIsMemory'
  BY <1>5 DEF HelperSucceeds, Installed
<1>6. ASSUME NEW c \in Callers, HelperFails(c) PROVE DiskIsMemory'
  BY <1>6 DEF HelperFails, Installed, Fault
<1>7. ASSUME NEW c \in Callers, updateState(c) PROVE DiskIsMemory'
  BY <1>7 DEF updateState, NextState
<1>8. ASSUME NEW c \in Callers, WriteFails(c) PROVE DiskIsMemory'
  BY <1>8 DEF WriteFails, Fault
<1>9. ASSUME Crash PROVE DiskIsMemory'
  BY <1>9 DEF Crash, Fault, Installed
<1>10. ASSUME Restart PROVE DiskIsMemory'
  BY <1>10 DEF Restart, load, DefaultState
<1>11. ASSUME UpdateReads PROVE DiskIsMemory'
  BY <1>11 DEF UpdateReads, Overlap, Applying
<1>12. ASSUME UpdateApplies \/ UpdateFails PROVE DiskIsMemory'
  BY <1>12 DEF UpdateApplies, UpdateFails, Fault
<1>13. ASSUME Reinstall PROVE DiskIsMemory'
  BY <1>13 DEF Reinstall, Overlap, Applying
<1>14. ASSUME UNCHANGED vars PROVE DiskIsMemory'
  BY <1>14 DEF vars, env, history
<1>15. QED
  BY <1>1, <1>2, <1>3, <1>4, <1>5, <1>6, <1>7, <1>8, <1>9, <1>10, <1>11, <1>12, <1>13, <1>14
     DEF Next, CallerStep

\* Only the helper writes the sudoers file, and it stays once it is installed.
LEMMA HelperStep == RootInv /\ [Next]_vars => HelperSound'
<1> SUFFICES ASSUME RootInv, [Next]_vars PROVE HelperSound'
  OBVIOUS
<1> USE ProfileAssumption, FaultAssumption, CallerAssumption, BoundAssumption,
        UnreadableAssumption DEF RootInv, TypeOK, HelperSound, Points, env, history
<1>1. ASSUME NEW p \in Profiles, ChangeDesired(p) PROVE HelperSound'
  BY <1>1 DEF ChangeDesired
<1>2. ASSUME NEW c \in Callers, Deliver(c) PROVE HelperSound'
  BY <1>2 DEF Deliver
<1>3. ASSUME NEW c \in Callers, Skip(c) PROVE HelperSound'
  BY <1>3 DEF Skip
<1>4. ASSUME NEW c \in Callers, Apply(c) PROVE HelperSound'
  BY <1>4 DEF Apply, Overlap, Applying
<1>5. ASSUME NEW c \in Callers, HelperSucceeds(c) PROVE HelperSound'
  BY <1>5 DEF HelperSucceeds, Installed
<1>6. ASSUME NEW c \in Callers, HelperFails(c) PROVE HelperSound'
  BY <1>6 DEF HelperFails, Installed, Fault
<1>7. ASSUME NEW c \in Callers, updateState(c) PROVE HelperSound'
  BY <1>7 DEF updateState, NextState
<1>8. ASSUME NEW c \in Callers, WriteFails(c) PROVE HelperSound'
  BY <1>8 DEF WriteFails, Fault
<1>9. ASSUME Crash PROVE HelperSound'
  BY <1>9 DEF Crash, Fault, Installed
<1>10. ASSUME Restart PROVE HelperSound'
  BY <1>10 DEF Restart, load, DefaultState
<1>11. ASSUME UpdateReads PROVE HelperSound'
  BY <1>11 DEF UpdateReads, Overlap, Applying
<1>12. ASSUME UpdateApplies \/ UpdateFails PROVE HelperSound'
  BY <1>12 DEF UpdateApplies, UpdateFails, Fault
<1>13. ASSUME Reinstall PROVE HelperSound'
  BY <1>13 DEF Reinstall, Overlap, Applying
<1>14. ASSUME UNCHANGED vars PROVE HelperSound'
  BY <1>14 DEF vars, env, history
<1>15. QED
  BY <1>1, <1>2, <1>3, <1>4, <1>5, <1>6, <1>7, <1>8, <1>9, <1>10, <1>11, <1>12, <1>13, <1>14
     DEF Next, CallerStep

\* Whoever begins while another applies marks both.
LEMMA OverlapStep == RootInv /\ [Next]_vars => OverlapsComplete'
<1> SUFFICES ASSUME RootInv, [Next]_vars PROVE OverlapsComplete'
  OBVIOUS
<1> USE CallerAssumption DEF RootInv, TypeOK, OverlapsComplete, Applying, Overlap, Points, env,
        history
<1>1. ASSUME NEW p \in Profiles, ChangeDesired(p) PROVE OverlapsComplete'
  BY <1>1 DEF ChangeDesired
<1>2. ASSUME NEW c \in Callers, Deliver(c) PROVE OverlapsComplete'
  BY <1>2 DEF Deliver
<1>3. ASSUME NEW c \in Callers, Skip(c) PROVE OverlapsComplete'
  BY <1>3 DEF Skip
<1>4. ASSUME NEW c \in Callers, Apply(c) PROVE OverlapsComplete'
  BY <1>4 DEF Apply, Overlap, Applying
<1>5. ASSUME NEW c \in Callers, HelperSucceeds(c) PROVE OverlapsComplete'
  BY <1>5 DEF HelperSucceeds, Installed
<1>6. ASSUME NEW c \in Callers, HelperFails(c) PROVE OverlapsComplete'
  BY <1>6 DEF HelperFails, Installed, Fault
<1>7. ASSUME NEW c \in Callers, updateState(c) PROVE OverlapsComplete'
  BY <1>7 DEF updateState, NextState
<1>8. ASSUME NEW c \in Callers, WriteFails(c) PROVE OverlapsComplete'
  BY <1>8 DEF WriteFails, Fault
<1>9. ASSUME Crash PROVE OverlapsComplete'
  BY <1>9 DEF Crash, Fault, Installed
<1>10. ASSUME Restart PROVE OverlapsComplete'
  BY <1>10 DEF Restart, load, DefaultState
<1>11. ASSUME UpdateReads PROVE OverlapsComplete'
  BY <1>11 DEF UpdateReads, Overlap, Applying
<1>12. ASSUME UpdateApplies \/ UpdateFails PROVE OverlapsComplete'
  BY <1>12 DEF UpdateApplies, UpdateFails, Fault
<1>13. ASSUME Reinstall PROVE OverlapsComplete'
  BY <1>13 DEF Reinstall, Overlap, Applying
<1>14. ASSUME UNCHANGED vars PROVE OverlapsComplete'
  BY <1>14 DEF vars, env, history
<1>15. QED
  BY <1>1, <1>2, <1>3, <1>4, <1>5, <1>6, <1>7, <1>8, <1>9, <1>10, <1>11, <1>12, <1>13, <1>14
     DEF Next, CallerStep

\* The sudoers file changes under an application only through one that overlaps it.
LEMMA AloneStep == RootInv /\ [Next]_vars => AloneSound'
<1> SUFFICES ASSUME RootInv, [Next]_vars PROVE AloneSound'
  OBVIOUS
<1> USE CallerAssumption DEF RootInv, TypeOK, AloneSound, OverlapsComplete, HelperSound, Applying,
        Overlap, Installed, Points, env, history
<1>1. ASSUME NEW p \in Profiles, ChangeDesired(p) PROVE AloneSound'
  BY <1>1 DEF ChangeDesired
<1>2. ASSUME NEW c \in Callers, Deliver(c) PROVE AloneSound'
  BY <1>2 DEF Deliver
<1>3. ASSUME NEW c \in Callers, Skip(c) PROVE AloneSound'
  BY <1>3 DEF Skip
<1>4. ASSUME NEW c \in Callers, Apply(c) PROVE AloneSound'
  BY <1>4 DEF Apply, Overlap, Applying
<1>5. ASSUME NEW c \in Callers, HelperSucceeds(c) PROVE AloneSound'
  BY <1>5 DEF HelperSucceeds, Installed
<1>6. ASSUME NEW c \in Callers, HelperFails(c) PROVE AloneSound'
  BY <1>6 DEF HelperFails, Installed, Fault
<1>7. ASSUME NEW c \in Callers, updateState(c) PROVE AloneSound'
  BY <1>7 DEF updateState, NextState
<1>8. ASSUME NEW c \in Callers, WriteFails(c) PROVE AloneSound'
  BY <1>8 DEF WriteFails, Fault
<1>9. ASSUME Crash PROVE AloneSound'
  BY <1>9 DEF Crash, Fault, Installed
<1>10. ASSUME Restart PROVE AloneSound'
  BY <1>10 DEF Restart, load, DefaultState
<1>11. ASSUME UpdateReads PROVE AloneSound'
  BY <1>11 DEF UpdateReads, Overlap, Applying
<1>12. ASSUME UpdateApplies \/ UpdateFails PROVE AloneSound'
  BY <1>12 DEF UpdateApplies, UpdateFails, Fault
<1>13. ASSUME Reinstall PROVE AloneSound'
  BY <1>13 DEF Reinstall, Overlap, Applying
<1>14. ASSUME UNCHANGED vars PROVE AloneSound'
  BY <1>14 DEF vars, env, history
<1>15. QED
  BY <1>1, <1>2, <1>3, <1>4, <1>5, <1>6, <1>7, <1>8, <1>9, <1>10, <1>11, <1>12, <1>13, <1>14
     DEF Next, CallerStep

\* The state file changes between a self-update's read and its application only
\* through a caller that overlaps it.
LEMMA UpdateStep == RootInv /\ [Next]_vars => UpdateSound'
<1> SUFFICES ASSUME RootInv, [Next]_vars PROVE UpdateSound'
  OBVIOUS
<1> USE CallerAssumption DEF RootInv, TypeOK, UpdateSound, OverlapsComplete, Applying, Overlap,
        Points, env, history
<1>1. ASSUME NEW p \in Profiles, ChangeDesired(p) PROVE UpdateSound'
  BY <1>1 DEF ChangeDesired
<1>2. ASSUME NEW c \in Callers, Deliver(c) PROVE UpdateSound'
  BY <1>2 DEF Deliver
<1>3. ASSUME NEW c \in Callers, Skip(c) PROVE UpdateSound'
  BY <1>3 DEF Skip
<1>4. ASSUME NEW c \in Callers, Apply(c) PROVE UpdateSound'
  BY <1>4 DEF Apply, Overlap, Applying
<1>5. ASSUME NEW c \in Callers, HelperSucceeds(c) PROVE UpdateSound'
  BY <1>5 DEF HelperSucceeds, Installed
<1>6. ASSUME NEW c \in Callers, HelperFails(c) PROVE UpdateSound'
  BY <1>6 DEF HelperFails, Installed, Fault
<1>7. ASSUME NEW c \in Callers, updateState(c) PROVE UpdateSound'
  BY <1>7 DEF updateState, NextState
<1>8. ASSUME NEW c \in Callers, WriteFails(c) PROVE UpdateSound'
  BY <1>8 DEF WriteFails, Fault
<1>9. ASSUME Crash PROVE UpdateSound'
  BY <1>9 DEF Crash, Fault, Installed
<1>10. ASSUME Restart PROVE UpdateSound'
  BY <1>10 DEF Restart, load, DefaultState
<1>11. ASSUME UpdateReads PROVE UpdateSound'
  BY <1>11 DEF UpdateReads, Overlap, Applying
<1>12. ASSUME UpdateApplies \/ UpdateFails PROVE UpdateSound'
  BY <1>12 DEF UpdateApplies, UpdateFails, Fault
<1>13. ASSUME Reinstall PROVE UpdateSound'
  BY <1>13 DEF Reinstall, Overlap, Applying
<1>14. ASSUME UNCHANGED vars PROVE UpdateSound'
  BY <1>14 DEF vars, env, history
<1>15. QED
  BY <1>1, <1>2, <1>3, <1>4, <1>5, <1>6, <1>7, <1>8, <1>9, <1>10, <1>11, <1>12, <1>13, <1>14
     DEF Next, CallerStep

\* A file that cannot be read puts the report in doubt until it is written again.
LEMMA UnreadableStep == RootInv /\ [Next]_vars => UnreadableInDoubt'
<1> SUFFICES ASSUME RootInv, [Next]_vars PROVE UnreadableInDoubt'
  OBVIOUS
<1> USE UnreadableAssumption DEF RootInv, TypeOK, State, Points, Revisions, Revision, UpdateSound,
        UnreadableInDoubt, OverlapsComplete, NextState, Applying, env, history
<1>1. ASSUME NEW p \in Profiles, ChangeDesired(p) PROVE UnreadableInDoubt'
  BY <1>1 DEF ChangeDesired
<1>2. ASSUME NEW c \in Callers, Deliver(c) PROVE UnreadableInDoubt'
  BY <1>2 DEF Deliver
<1>3. ASSUME NEW c \in Callers, Skip(c) PROVE UnreadableInDoubt'
  BY <1>3 DEF Skip
<1>4. ASSUME NEW c \in Callers, Apply(c) PROVE UnreadableInDoubt'
  BY <1>4 DEF Apply, Overlap, Applying
<1>5. ASSUME NEW c \in Callers, HelperSucceeds(c) PROVE UnreadableInDoubt'
  BY <1>5 DEF HelperSucceeds, Installed
<1>6. ASSUME NEW c \in Callers, HelperFails(c) PROVE UnreadableInDoubt'
  BY <1>6 DEF HelperFails, Installed, Fault
<1>7. ASSUME NEW c \in Callers, updateState(c) PROVE UnreadableInDoubt'
  <2>1. disk' \in State
    BY <1>7 DEF updateState, NextState, TypeOK, State, Revisions, Revision
  <2>2. QED
    BY <2>1
<1>8. ASSUME NEW c \in Callers, WriteFails(c) PROVE UnreadableInDoubt'
  BY <1>8 DEF WriteFails, Fault
<1>9. ASSUME Crash PROVE UnreadableInDoubt'
  <2>1. CASE disk' = disk
    BY <1>9, <2>1 DEF Crash
  <2>2. CASE \E c \in Callers : pc[c] \in {"applied", "failed"}
    <3>1. PICK c \in Callers : pc[c] \in {"applied", "failed"}
      BY <2>2
    <3>2. c \in Applying /\ c # "update"
      BY <3>1, CallerAssumption DEF Applying
    <3>3. QED
      BY <1>9, <3>2 DEF Crash
  <2>3. QED
    BY <1>9, <2>1, <2>2 DEF Crash
<1>10. ASSUME Restart PROVE UnreadableInDoubt'
  BY <1>10 DEF Restart, load, DefaultState
<1>11. ASSUME UpdateReads PROVE UnreadableInDoubt'
  BY <1>11 DEF UpdateReads, Overlap, Applying
<1>12. ASSUME UpdateApplies \/ UpdateFails PROVE UnreadableInDoubt'
  BY <1>12 DEF UpdateApplies, UpdateFails, Fault
<1>13. ASSUME Reinstall PROVE UnreadableInDoubt'
  BY <1>13 DEF Reinstall, Overlap, Applying
<1>14. ASSUME UNCHANGED vars PROVE UnreadableInDoubt'
  BY <1>14 DEF vars, env, history
<1>15. QED
  BY <1>1, <1>2, <1>3, <1>4, <1>5, <1>6, <1>7, <1>8, <1>9, <1>10, <1>11, <1>12, <1>13, <1>14
     DEF Next, CallerStep

\* A report that is not in doubt was recorded by an application that ran alone, and
\* a crash that cuts nothing off changes nothing of it.
LEMMA ReportStep == RootInv /\ [Next]_vars => ReportSound'
<1> SUFFICES ASSUME RootInv, [Next]_vars PROVE ReportSound'
  OBVIOUS
<1> USE UnreadableAssumption DEF RootInv, TypeOK, ReportSound, Reported, load, AloneSound,
        DiskIsMemory, UpdateSound, UnreadableInDoubt, OverlapsComplete, NextState, Applying,
        Points, env, history
<1>1. ASSUME NEW p \in Profiles, ChangeDesired(p) PROVE ReportSound'
  BY <1>1 DEF ChangeDesired
<1>2. ASSUME NEW c \in Callers, Deliver(c) PROVE ReportSound'
  BY <1>2 DEF Deliver
<1>3. ASSUME NEW c \in Callers, Skip(c) PROVE ReportSound'
  BY <1>3 DEF Skip
<1>4. ASSUME NEW c \in Callers, Apply(c) PROVE ReportSound'
  BY <1>4 DEF Apply, Overlap, Applying
<1>5. ASSUME NEW c \in Callers, HelperSucceeds(c) PROVE ReportSound'
  BY <1>5 DEF HelperSucceeds, Installed
<1>6. ASSUME NEW c \in Callers, HelperFails(c) PROVE ReportSound'
  BY <1>6 DEF HelperFails, Installed, Fault
<1>7. ASSUME NEW c \in Callers, updateState(c) PROVE ReportSound'
  BY <1>7 DEF updateState, NextState
<1>8. ASSUME NEW c \in Callers, WriteFails(c) PROVE ReportSound'
  BY <1>8 DEF WriteFails, Fault
<1>9. ASSUME Crash PROVE ReportSound'
  <2> SUFFICES ASSUME ~doubt', ~Reported'.error PROVE host'.profile = Reported'.profile
    BY DEF ReportSound
  <2>1. ~doubt /\ \A c \in Callers : pc[c] \notin {"applying", "applied", "failed"}
    BY <1>9, CallerAssumption DEF Crash, Applying
  <2>2. disk' = disk /\ host' = host
    BY <1>9, <2>1 DEF Crash
  <2>3. up /\ disk = mem
    BY <1>9, <2>1 DEF Crash, RootInv, DiskIsMemory, UnreadableInDoubt
  <2>4. Reported' = Reported
    BY <1>9, <2>1, <2>2, <2>3 DEF Crash, Reported, load, RootInv, UnreadableInDoubt
  <2>5. QED
    BY <2>1, <2>2, <2>4 DEF RootInv, ReportSound
<1>10. ASSUME Restart PROVE ReportSound'
  BY <1>10 DEF Restart, load, DefaultState
<1>11. ASSUME UpdateReads PROVE ReportSound'
  BY <1>11 DEF UpdateReads, Overlap, Applying
<1>12. ASSUME UpdateApplies \/ UpdateFails PROVE ReportSound'
  <2> SUFFICES ASSUME ~doubt', ~Reported'.error,
                      \A c \in Callers : pc'[c] \notin {"applied", "failed"}
               PROVE  host'.profile = Reported'.profile
    BY DEF ReportSound
  <2>1. PICK p \in updating :
          \/ host' = [profile |-> p, revision |-> Revision]
          \/ host' = host /\ ~doubt
    BY <1>12 DEF UpdateApplies, UpdateFails
  <2>2. disk # Unreadable /\ disk.profile = p
    BY <1>12, <2>1 DEF UpdateApplies, UpdateFails, RootInv, UpdateSound
  <2>3. Reported' = Reported /\ Reported = disk
    BY <1>12, <2>2 DEF UpdateApplies, UpdateFails, Reported, load, RootInv, DiskIsMemory
  <2>4. CASE host' = [profile |-> p, revision |-> Revision]
    BY <2>2, <2>3, <2>4
  <2>5. CASE host' = host /\ ~doubt
    <3>1. pc' = pc
      BY <1>12 DEF UpdateApplies, UpdateFails
    <3>2. QED
      BY <2>3, <2>5, <3>1 DEF ReportSound
  <2>6. QED
    BY <2>1, <2>4, <2>5
<1>13. ASSUME Reinstall PROVE ReportSound'
  BY <1>13 DEF Reinstall, Overlap, Applying
<1>14. ASSUME UNCHANGED vars PROVE ReportSound'
  BY <1>14 DEF vars, env, history
<1>15. QED
  BY <1>1, <1>2, <1>3, <1>4, <1>5, <1>6, <1>7, <1>8, <1>9, <1>10, <1>11, <1>12, <1>13, <1>14
     DEF Next, CallerStep

-------------------------------------------------------------------------------
\* The starting agent knows what an earlier one applied.
LEMMA RootStarts == Init => RootInv
<1> SUFFICES ASSUME Init PROVE RootInv
  OBVIOUS
<1> USE ProfileAssumption, BoundAssumption, UnreadableAssumption DEF Init
<1>1. TypeOK
  <2>1. mem \in State /\ disk \in State /\ host \in [profile : Profiles, revision : Revisions]
    BY DEF State, Revisions
  <2>2. desired \in Profiles /\ snapshot \in [Callers -> Profiles]
    OBVIOUS
  <2>3. pc \in [Callers -> Points]
    BY DEF Points
  <2>4. changes \in 0..MaxChanges /\ faults \in 0..MaxFaults /\ commands \in 0..MaxCommands
    OBVIOUS
  <2>5. helper \in BOOLEAN /\ updating \in {{}} \cup {{p} : p \in Profiles}
    OBVIOUS
  <2>6. QED
    BY <2>1, <2>2, <2>3, <2>4, <2>5 DEF TypeOK
<1>2. Applying = {}
  BY DEF Applying
<1>3. DiskIsMemory /\ UpdateSound /\ HelperSound /\ AloneSound
  BY DEF DiskIsMemory, UpdateSound, HelperSound, AloneSound
<1>4. OverlapsComplete
  BY <1>2 DEF OverlapsComplete
<1>5. UnreadableInDoubt
  BY <1>1, <1>3 DEF TypeOK, DiskIsMemory, UnreadableInDoubt
<1>6. ReportSound
  BY DEF ReportSound, Reported
<1>7. QED
  BY <1>1, <1>3, <1>4, <1>5, <1>6 DEF RootInv

\* RootInv always holds: what the agent reports is tied to the host through the history
\* of who applied beside whom, which AppliedMatchesHost alone does not carry over a
\* step.
THEOREM RootInvariance == Spec => []RootInv
<1>1. RootInv /\ [Next]_vars => RootInv'
  BY RootTypeStep, DiskStep, HelperStep, OverlapStep, AloneStep, UpdateStep, UnreadableStep,
     ReportStep DEF RootInv
<1>2. QED
  BY RootStarts, <1>1, PTL DEF Spec

\* The variables keep their types (rootaccess/manager.go:22, the state and its file).
THEOREM RootTypeCorrect == Spec => []TypeOK
<1>1. RootInv => TypeOK
  BY DEF RootInv
<1>2. QED
  BY RootInvariance, <1>1, PTL

\* A report without an error names the profile the host has, save in doubt
\* (README.md:169 of what HandleDesiredSnapshot persists and reports back).
THEOREM ReportMatchesHost == Spec => []AppliedMatchesHost
<1>1. RootInv => AppliedMatchesHost
  BY DEF RootInv, ReportSound, Reported, AppliedMatchesHost, Quiescent
<1>2. QED
  BY RootInvariance, <1>1, PTL

\* The state file, while it can be read, says what the memory says: updateState
\* writes it first and gives up when the write fails.
THEOREM FileMatchesMemory == Spec => []DiskIsMemory
<1>1. RootInv => DiskIsMemory
  BY DEF RootInv
<1>2. QED
  BY RootInvariance, <1>1, PTL

-------------------------------------------------------------------------------
(* === LogScan === *)

(* The inductive invariant *)

\* A cursor with an inode: the platform has one.
Known(c) == c.inode # ""

\* A cursor and a size that was looked at are of a content the path has had; of the
\* present one they are no more than what it holds, for a content only grows; and
\* the size is at least the cursor's while the file is not another one.
Cursors ==
  /\ cursor.generation <= generation
  /\ ~Known(cursor) => cursor = NoCursor
  /\ Known(cursor) /\ cursor.generation = generation
       => cursor.inode = inode /\ cursor.offset <= Len(log)
  /\ phase = "stat" =>
       /\ source = "file" /\ Known(stat)
       /\ stat.generation <= generation /\ cursor.generation <= stat.generation
       /\ stat.generation = generation => stat.inode = inode /\ stat.offset <= Len(log)
       /\ Known(cursor) /\ cursor.generation = stat.generation
            => cursor.inode = stat.inode /\ cursor.offset <= stat.offset

\* The journal keeps its content and grows by whole entries; its cursor is an entry's.
Entries ==
  source = "journal" =>
    /\ generation = 0
    /\ log # <<>> => log[Len(log)] # "text"
    /\ cursor.offset \in Starts

\* What was reported and is not ahead is covered by the cursor.
Covered ==
  \A p \in seen \ ahead :
    Known(cursor) /\ cursor.generation = generation /\ p <= cursor.offset

\* Gapless, for the two sources: only the journal has entries that do not parse.
Filled ==
  Known(cursor) /\ cursor.generation = generation =>
    \A p \in base + 1..cursor.offset : p \in seen \/ (source = "journal" /\ p \in BadBytes)

\* The parts, with the type invariant.
ScanInv == ScanTypeOK /\ Cursors /\ Entries /\ Covered /\ Filled /\ RepeatsWereAhead
-------------------------------------------------------------------------------
(* Least and greatest numbers *)

\* A set of numbers has a least one ...
LEMMA Least ==
  ASSUME NEW S \in SUBSET Nat, S # {}
  PROVE  Min(S) \in S /\ \A y \in S : Min(S) <= y
<1> DEFINE Less == OpToRel(<, Nat)
<1>1. \A m, n \in Nat : m < n => <<m, n>> \in Less
  BY Zenon DEF OpToRel
<1>2. IsWellFoundedOn(Less, Nat)
  BY NatLessThanWellFounded, Zenon
<1> HIDE DEF Less
<1>3. PICK x \in S : \A y \in S : <<y, x>> \notin Less
  BY <1>2, WFMin
<1>4. \A y \in S : x <= y
  <2> SUFFICES ASSUME NEW y \in S, ~(x <= y) PROVE FALSE
    OBVIOUS
  <2>1. x \in Nat /\ y \in Nat
    OBVIOUS
  <2>2. y < x
    BY <2>1
  <2>3. QED
    BY <1>1, <1>3, <2>1, <2>2
<1>5. QED
  BY <1>4 DEF Min

\* ... and a bounded one has a greatest.
LEMMA Greatest ==
  ASSUME NEW n \in Nat, NEW S \in SUBSET (0..n), S # {}
  PROVE  Max(S) \in S /\ \A y \in S : y <= Max(S)
<1> DEFINE T == {n - x : x \in S}
<1>1. T \in SUBSET Nat /\ T # {}
  <2>1. \A x \in S : n - x \in Nat
    OBVIOUS
  <2>2. QED
    BY <2>1
<1>2. PICK x \in S : Min(T) = n - x
  BY <1>1, Least
<1>3. \A y \in S : n - x <= n - y
  BY <1>1, <1>2, Least
<1>4. \A y \in S : y <= x
  BY <1>3
<1>5. QED
  BY <1>4 DEF Max

-------------------------------------------------------------------------------
(* Types *)

\* The bounds are numbers.
LEMMA Bounds ==
  /\ MaxLog \in Nat /\ MaxTurns \in Nat /\ MaxLost \in Nat /\ MaxLine \in Nat
  /\ BackfillLines \in Nat \ {0} /\ MaxLines \in Nat \ {0} /\ MaxBytes \in Nat \ {0}
  BY LogAssumption, LimitAssumption

\* A cursor's fields.
LEMMA CursorFields ==
  /\ \A c \in Cursor : /\ c.inode \in Inodes \cup {""} /\ c.offset \in 0..MaxLog
                       /\ c.generation \in 0..MaxTurns
  /\ NoCursor \in Cursor /\ NoCursor.inode = "" /\ NoCursor.offset = 0
  /\ NoCursor.generation = 0
<1>1. \A c \in Cursor : /\ c.inode \in Inodes \cup {""} /\ c.offset \in 0..MaxLog
                       /\ c.generation \in 0..MaxTurns
  BY DEF Cursor
<1>2. NoCursor \in Cursor
  <2>1. 0 \in 0..MaxLog /\ 0 \in 0..MaxTurns /\ "" \in Inodes \cup {""}
    BY Bounds
  <2>2. QED
    BY <2>1 DEF Cursor, NoCursor
<1>3. NoCursor.inode = "" /\ NoCursor.offset = 0 /\ NoCursor.generation = 0
  BY DEF NoCursor
<1>4. QED
  BY <1>1, <1>2, <1>3

\* The type invariant, set by set.
Typed ==
  /\ source \in Sources
  /\ log \in Seq(Bytes) /\ Len(log) \in 0..MaxLog
  /\ inode \in Inodes
  /\ generation \in 0..MaxTurns
  /\ cursor \in Cursor
  /\ phase \in {"idle", "stat"}
  /\ stat \in Cursor
  /\ lost \in 0..MaxLost
  /\ seen \subseteq 1..MaxLog /\ again \subseteq 1..MaxLog /\ ahead \subseteq 1..MaxLog
  /\ base \in 0..MaxLog

LEMMA TypedSets == ScanTypeOK <=> Typed
  BY DEF ScanTypeOK, Typed

\* Offsets and generations are numbers.
LEMMA Numbers ==
  ASSUME Typed
  PROVE  /\ generation \in Nat /\ generation <= MaxTurns /\ Len(log) \in Nat /\ base \in Nat
         /\ cursor.generation \in Nat /\ cursor.offset \in Nat
         /\ stat.generation \in Nat /\ stat.offset \in Nat
         /\ NoCursor.offset = 0 /\ NoCursor.generation = 0 /\ ~Known(NoCursor)
<1>1. cursor \in Cursor /\ stat \in Cursor
  BY DEF Typed
<1>2. cursor.generation \in 0..MaxTurns /\ cursor.offset \in 0..MaxLog
  BY <1>1, CursorFields
<1>3. stat.generation \in 0..MaxTurns /\ stat.offset \in 0..MaxLog
  BY <1>1, CursorFields
<1>4. NoCursor.offset = 0 /\ NoCursor.generation = 0 /\ ~Known(NoCursor)
  BY CursorFields DEF Known
<1>5. generation \in Nat /\ generation <= MaxTurns /\ Len(log) \in Nat /\ base \in Nat
  BY Bounds DEF Typed
<1>6. /\ cursor.generation \in Nat /\ cursor.offset \in Nat
      /\ stat.generation \in Nat /\ stat.offset \in Nat
  BY <1>2, <1>3, Bounds
<1>7. QED
  BY <1>4, <1>5, <1>6

-------------------------------------------------------------------------------
(* Lines *)

\* Lines end and begin within the log.
LEMMA LineBounds ==
  ASSUME Typed
  PROVE  /\ Len(log) \in Nat /\ DOMAIN log = 1..Len(log)
         /\ 0 \in Starts /\ Starts \subseteq 0..Len(log)
         /\ \A o \in Nat : Ends(o) \subseteq o + 1..Len(log)
         /\ \A o \in Nat : Ends(o) \subseteq Ends(0)
         /\ \A p \in Starts \ {0} : p \in Ends(0)
  BY DEF Typed, Starts, Ends

\* A line begins after the last start before its end.
LEMMA LineStart ==
  ASSUME Typed, NEW e \in Ends(0)
  PROVE  \E s \in Starts : /\ s < e /\ \A r \in Starts : r < e => r <= s
                           /\ Line(e) = s + 1..e
<1> DEFINE before == {s \in Starts : s < e}
<1>1. before \in SUBSET (0..Len(log)) /\ 0 \in before /\ Len(log) \in Nat /\ e \in Nat
  BY LineBounds
<1>2. Max(before) \in before /\ \A r \in before : r <= Max(before)
  BY <1>1, Greatest
<1>3. PICK s \in before : s = Max(before) /\ \A r \in before : r <= s
  BY <1>2
<1>4. Size(e) = e - s
  BY <1>3 DEF Size
<1>5. s \in Nat /\ e - Size(e) = s
  BY <1>1, <1>3, <1>4, LineBounds
<1>6. Line(e) = s + 1..e
  BY <1>5 DEF Line
<1>7. QED
  BY <1>3, <1>6

\* The byte after an offset is on the line that ends next; that line is not begun
\* before an offset that is a start.
LEMMA NextLine ==
  ASSUME Typed, NEW o \in Starts, NEW e \in Ends(o), NEW p \in o + 1..e
  PROVE  \E f \in Ends(o) : f <= e /\ p \in Line(f)
<1> DEFINE after == {f \in Ends(o) : p <= f}
<1>1. /\ o \in Nat /\ e \in Nat /\ p \in Nat /\ Ends(o) \subseteq Nat /\ Ends(o) \subseteq Ends(0)
      /\ after \in SUBSET Nat /\ e \in after
  BY LineBounds
<1>2. Min(after) \in after /\ \A f \in after : Min(after) <= f
  BY <1>1, Least
<1>3. PICK f \in Ends(o) : f = Min(after) /\ p <= f /\ f <= e
  BY <1>1, <1>2
<1>4. PICK s \in Starts : s < f /\ Line(f) = s + 1..f
  BY <1>1, LineStart
<1>5. s < p
  <2> SUFFICES ASSUME p <= s PROVE FALSE
    BY <1>1, <1>4, LineBounds
  <2>1. s \in Nat /\ s > o /\ s # 0
    BY <1>1, LineBounds
  <2>2. s \in Ends(0)
    BY <2>1, LineBounds
  <2>3. s \in Ends(o)
    BY <1>1, <2>1, <2>2 DEF Ends
  <2>4. s \in after
    BY <2>3
  <2>5. QED
    BY <1>1, <1>2, <1>3, <1>4, <2>1, <2>4
<1>6. p \in Line(f)
  BY <1>1, <1>3, <1>4, <1>5, LineBounds
<1>7. QED
  BY <1>3, <1>6

\* A line that ends after a start begins after it.
LEMMA LineAfter ==
  ASSUME Typed, NEW o \in Starts, NEW e \in Ends(o)
  PROVE  Line(e) \subseteq o + 1..e
<1>1. o \in Nat /\ e \in Nat /\ o < e /\ e \in Ends(0) /\ Starts \subseteq Nat
  BY LineBounds
<1>2. PICK s \in Starts : o <= s /\ Line(e) = s + 1..e
  BY <1>1, LineStart
<1>3. QED
  BY <1>1, <1>2

-------------------------------------------------------------------------------
(* What a scan does *)

\* readFileFromOffset stops no earlier than where it began and within the file.
LEMMA Offsets ==
  ASSUME Typed, NEW o \in 0..MaxLog
  PROVE  /\ NextOffset(o) \in 0..MaxLog /\ o <= NextOffset(o)
         /\ NextOffset(o) = o \/ NextOffset(o) <= Len(log)
<1>1. /\ MaxLog \in Nat /\ o \in Nat /\ Len(log) \in 0..MaxLog
      /\ Ends(o) \subseteq o + 1..Len(log) /\ Fitting(o) \subseteq Ends(o)
  BY Bounds, LineBounds DEF Fitting, Typed
<1>2. {o} \cup Fitting(o) \in SUBSET (0..MaxLog)
  BY <1>1
<1>3. /\ NextOffset(o) \in {o} \cup Fitting(o)
      /\ \A e \in {o} \cup Fitting(o) : e <= NextOffset(o)
  BY <1>1, <1>2, Greatest DEF NextOffset
<1>4. QED
  BY <1>1, <1>2, <1>3

\* Of what a tail reports from a start on, the bytes its cursor does not cover.
Uncovered(s) == {p \in s + 1..Len(log) : stat.generation # generation \/ p > stat.offset}

\* A scan without a cursor that holds reports the file from some start on.
LEMMA TailRead ==
  ASSUME Typed, Read, Restarts
  PROVE  \E s \in 0..Len(log) :
           /\ phase = "stat" /\ phase' = "idle" /\ stat' = NoCursor
           /\ cursor' = stat /\ base' = s
           /\ seen' = seen \cup (s + 1..Len(log))
           /\ again' = again \cup (seen \cap (s + 1..Len(log)))
           /\ ahead' = ahead \cup Uncovered(s)
           /\ UNCHANGED <<source, log, inode, generation, lost>>
<1>1. /\ {Len(log)} \cup {s \in Starts : /\ Cardinality(Ends(s)) <= Min({BackfillLines, MaxLines})
                                         /\ TailSize(s) <= MaxBytes} \in SUBSET (0..Len(log))
      /\ 0..Len(log) \subseteq Nat
  BY LineBounds
<1>2. TailStart \in 0..Len(log)
  BY <1>1, Least DEF TailStart
<1>3. PICK from \in 0..Len(log) : from = TailStart
  BY <1>2
<1>4. /\ phase = "stat" /\ phase' = "idle" /\ stat' = NoCursor
      /\ cursor' = stat /\ base' = from
      /\ seen' = seen \cup (from + 1..Len(log))
      /\ again' = again \cup (seen \cap (from + 1..Len(log)))
      /\ UNCHANGED <<source, log, inode, generation, lost>>
  BY <1>3 DEF Read, ScanTail, Report, content
<1>5. ahead' = ahead \cup Uncovered(from)
  BY <1>3 DEF Read, ScanTail, Report, Uncovered
<1>6. QED
  BY <1>4, <1>5

\* A scan from a cursor reports what follows, up to the cursor that it returns.
LEMMA OnwardRead ==
  ASSUME Typed, Read, ~Restarts
  PROVE  \E n \in 0..MaxLog :
           /\ phase = "stat" /\ phase' = "idle" /\ stat' = NoCursor
           /\ cursor.inode = stat.inode /\ cursor.offset <= stat.offset
           /\ (Known(cursor) <=> Known(stat)) /\ (Known(cursor') <=> Known(stat))
           /\ cursor.offset <= n /\ (n = cursor.offset \/ n <= Len(log))
           /\ cursor' \in Cursor /\ cursor'.inode = stat.inode
           /\ cursor'.generation = stat.generation /\ cursor'.offset = n
           /\ base' = IF cursor.generation # generation THEN cursor.offset ELSE base
           /\ seen' = seen \cup (cursor.offset + 1..n)
           /\ again' = again \cup (seen \cap (cursor.offset + 1..n))
           /\ ahead' = ahead \cup (IF stat.generation # generation
                                   THEN cursor.offset + 1..n ELSE {})
           /\ UNCHANGED <<source, log, inode, generation, lost>>
<1> DEFINE n == NextOffset(cursor.offset)
<1>1. cursor.offset \in 0..MaxLog /\ stat \in Cursor /\ stat.offset \in 0..MaxLog
  BY CursorFields DEF Typed
<1>2. n \in 0..MaxLog /\ cursor.offset <= n /\ (n = cursor.offset \/ n <= Len(log))
  BY <1>1, Offsets
<1>3. cursor.inode = stat.inode /\ cursor.offset <= stat.offset
  BY <1>1, Bounds DEF Restarts
<1>4. /\ phase = "stat" /\ phase' = "idle" /\ stat' = NoCursor
      /\ cursor' = [stat EXCEPT !.offset = n]
      /\ base' = IF cursor.generation # generation THEN cursor.offset ELSE base
      /\ seen' = seen \cup (cursor.offset + 1..n)
      /\ again' = again \cup (seen \cap (cursor.offset + 1..n))
      /\ ahead' = ahead \cup (IF stat.generation # generation
                              THEN cursor.offset + 1..n ELSE {})
      /\ UNCHANGED <<source, log, inode, generation, lost>>
  BY DEF Read, ScanOn, Report, content, NextOffset
<1> HIDE DEF n
<1>5. /\ cursor' \in Cursor /\ cursor'.inode = stat.inode
      /\ cursor'.generation = stat.generation /\ cursor'.offset = n
  BY <1>1, <1>2, <1>4 DEF Cursor
<1>6. (Known(cursor) <=> Known(stat)) /\ (Known(cursor') <=> Known(stat))
  BY <1>3, <1>5 DEF Known
<1>7. QED
  BY <1>2, <1>3, <1>4, <1>5, <1>6

\* journalctl begins at an entry's end.
LEMMA JournalBegins ==
  ASSUME Typed, Entries, source = "journal"
  PROVE  /\ JournalStart \in Starts
         /\ cursor # NoCursor => JournalStart = cursor.offset
<1> DEFINE few == {s \in Starts : Cardinality(Ends(s)) <= BackfillLines}
<1>1. Len(log) \in few
  <2>1. Len(log) \in Starts
    <3>1. CASE Len(log) = 0
      BY <3>1, LineBounds
    <3>2. CASE Len(log) # 0
      <4>1. Len(log) \in 0 + 1..Len(log)
        BY <3>2, LineBounds
      <4>2. QED
        BY <4>1 DEF Starts, Ends
    <3>3. QED
      BY <3>1, <3>2
  <2>2. Ends(Len(log)) = {}
    BY LineBounds
  <2>3. Cardinality(Ends(Len(log))) = 0
    BY <2>2, FS_EmptySet
  <2>4. QED
    BY <2>1, <2>3, Bounds
<1>2. few \in SUBSET Nat
  BY LineBounds
<1>3. Min(few) \in few
  BY <1>1, <1>2, Least
<1>4. QED
  BY <1>3 DEF JournalStart, Entries

\* A scan of the journal reports the entries up to its cursor that parse, from where it
\* begins; without one, what was reported before is ahead of it.
LEMMA JournalRead ==
  ASSUME Typed, Entries, Cursors, ScanJournal
  PROVE  \E o \in Starts, ends \in SUBSET Ends(0) :
           /\ source = "journal"
           /\ cursor # NoCursor => o = cursor.offset
           /\ ends \subseteq Ends(o)
           /\ base' = IF cursor = NoCursor THEN o ELSE base
           /\ seen' = seen \cup UNION {Line(e) : e \in ends}
           /\ again' = again \cup (seen \cap UNION {Line(e) : e \in ends})
           /\ ahead' = ahead \cup (IF ends = {} THEN seen ELSE {})
           /\ ends = {} => cursor' = NoCursor
           /\ ends # {} =>
                \E m \in ends :
                  /\ \A e \in ends : e <= m
                  /\ \A e \in Ends(o) : e <= m /\ log[e] = "newline" => e \in ends
                  /\ cursor' = [inode |-> inode, offset |-> m, generation |-> generation]
           /\ UNCHANGED <<source, log, inode, generation, phase, stat, lost>>
<1> DEFINE o == JournalStart
           ends == Accepted(o)
<1>1. /\ source = "journal" /\ o \in Starts /\ (cursor # NoCursor => o = cursor.offset)
  BY JournalBegins DEF ScanJournal
<1>2. ends \subseteq Ends(o) /\ o \in Nat /\ Ends(o) \subseteq Ends(0)
  BY <1>1, LineBounds DEF Accepted, Parsed
<1>3. /\ base' = IF cursor = NoCursor THEN o ELSE base
      /\ seen' = seen \cup UNION {Line(e) : e \in ends}
      /\ again' = again \cup (seen \cap UNION {Line(e) : e \in ends})
      /\ ahead' = ahead \cup (IF ends = {} THEN seen ELSE {})
      /\ cursor' = LastCursor(ends)
      /\ UNCHANGED <<source, log, inode, generation, phase, stat, lost>>
  BY DEF ScanJournal, Report, content
<1>4. ASSUME ends # {}
      PROVE  \E m \in ends :
               /\ \A e \in ends : e <= m
               /\ \A e \in Ends(o) : e <= m /\ log[e] = "newline" => e \in ends
               /\ cursor' = [inode |-> inode, offset |-> m, generation |-> generation]
  <2>1. ends \in SUBSET (0..Len(log)) /\ Len(log) \in Nat
    BY <1>2, LineBounds
  <2>2. PICK m \in ends : m = Max(ends) /\ \A e \in ends : e <= m
    BY <1>4, <2>1, Greatest
  <2>3. ASSUME NEW e \in Ends(o), e <= m, log[e] = "newline"
        PROVE  e \in ends
    <3>1. e \in Parsed(o)
      BY <2>3 DEF Parsed
    <3>2. \A f \in Stops(o) : m < f /\ f \in Nat
      <4>1. \A f \in Stops(o) : m < f
        BY <2>2 DEF Accepted
      <4>2. Stops(o) \subseteq Ends(o)
        BY Zenon DEF Stops
      <4>3. QED
        BY <1>2, <4>1, <4>2, LineBounds
    <3>3. e \in Nat /\ m \in Nat
      BY <1>2, <2>1, LineBounds
    <3>4. \A f \in Stops(o) : e < f
      BY <2>3, <3>2, <3>3
    <3>5. QED
      BY <3>1, <3>4 DEF Accepted
  <2>4. cursor' = [inode |-> inode, offset |-> m, generation |-> generation]
    BY <1>3, <1>4, <2>2 DEF LastCursor
  <2>5. QED
    BY <2>2, <2>3, <2>4
<1>5. ends = {} => cursor' = NoCursor
  BY <1>3 DEF LastCursor
<1> HIDE DEF o, ends
<1>6. QED
  BY <1>1, <1>2, <1>3, <1>4, <1>5

-------------------------------------------------------------------------------
(* The journal only grows *)

\* The log gets an entry of so many bytes at its end.
LEMMA Entry ==
  ASSUME Typed, NEW n \in 1..MaxLine, NEW b \in {"newline", "bad"}, Log(n, b)
  PROVE  /\ source = "journal" /\ log' \in Seq(Bytes)
         /\ Len(log) + n <= MaxLog /\ Len(log') = Len(log) + n
         /\ \A p \in 1..Len(log) : log'[p] = log[p]
         /\ log'[Len(log')] = b
         /\ UNCHANGED <<source, inode, generation, cursor, phase, stat, lost, seen, again,
                        ahead, base>>
<1> DEFINE entry == [i \in 1..n |-> IF i = n THEN b ELSE "text"]
<1>1. n \in Nat \ {0} /\ log \in Seq(Bytes)
  BY Bounds DEF Typed
<1>2. entry \in Seq(Bytes) /\ Len(entry) = n /\ entry[n] = b
  <2>1. entry \in [1..n -> Bytes]
    BY DEF Bytes
  <2>2. QED
    BY <1>1, <2>1
<1>3. log' = log \o entry
  BY DEF Log
<1> HIDE DEF entry
<1>4. log' \in Seq(Bytes) /\ Len(log') = Len(log) + n
  <2>1. log \o entry \in Seq(Bytes)
    BY <1>1, <1>2
  <2>2. Len(log \o entry) = Len(log) + Len(entry)
    BY <1>1, <1>2
  <2>3. QED
    BY <1>2, <1>3, <2>1, <2>2
<1>5. \A p \in 1..Len(log) : log'[p] = log[p]
  BY <1>1, <1>2, <1>3
<1>6. log'[Len(log')] = b
  BY <1>1, <1>2, <1>3, <1>4
<1>7. QED
  BY <1>4, <1>5, <1>6 DEF Log, reports

\* Its lines stay what they are.
LEMMA LinesStay ==
  ASSUME Typed, Typed', Entries, source = "journal",
         Len(log) <= Len(log'), \A p \in 1..Len(log) : log'[p] = log[p]
  PROVE  /\ Starts \subseteq Starts'
         /\ \A e \in Ends(0) : e \in Ends(0)' /\ Line(e)' = Line(e)
         /\ BadBytes \subseteq BadBytes'
<1>1. Len(log) \in Nat /\ Len(log') \in Nat
  BY DEF Typed
<1>2. Len(log) # 0 => log[Len(log)] # "text"
  BY <1>1 DEF Entries, Typed
<1>3. \A p \in 1..Len(log) : p \in Ends(0) <=> log[p] # "text"
  BY <1>1, <1>2 DEF Ends
<1>4. \A p \in 1..Len(log) : p \in Ends(0)' <=> (log[p] # "text" \/ p = Len(log'))
  BY <1>1 DEF Ends
<1>5. \A p \in 1..Len(log) : p \in Ends(0)' <=> p \in Ends(0)
  BY <1>1, <1>2, <1>3, <1>4
<1>6. Ends(0) \subseteq 1..Len(log) /\ Starts \subseteq 0..Len(log)
  BY LineBounds
<1>7. Ends(0)' \subseteq 1..Len(log') /\ Starts' \subseteq 0..Len(log')
  BY <1>1 DEF Starts, Ends
<1>8. \A p \in 0..Len(log) : p \in Starts' <=> p \in Starts
  BY <1>1, <1>5 DEF Starts
<1>9. ASSUME NEW e \in Ends(0) PROVE e \in Ends(0)' /\ Line(e)' = Line(e)
  <2>1. e \in 1..Len(log)
    BY <1>6
  <2>2. {s \in Starts : s < e}' = {s \in Starts : s < e}
    <3>1. \A s \in Starts : s < e => s \in Starts'
      BY <1>6, <1>8
    <3>2. \A s \in Starts' : s < e => s \in Starts
      BY <1>1, <1>7, <1>8, <2>1
    <3>3. QED
      BY <3>1, <3>2
  <2>3. Size(e)' = Size(e)
    BY <2>2 DEF Size
  <2>4. QED
    BY <1>5, <2>1, <2>3 DEF Line
<1>10. ASSUME NEW p \in BadBytes PROVE p \in BadBytes'
  <2>1. PICK e \in Ends(0) : log[e] = "bad" /\ p \in Line(e)
    BY DEF BadBytes
  <2>2. log'[e] = "bad" /\ e \in Ends(0)' /\ p \in Line(e)'
    BY <1>6, <1>9, <2>1
  <2>3. QED
    BY <2>2 DEF BadBytes
<1>11. QED
  BY <1>1, <1>6, <1>8, <1>9, <1>10

-------------------------------------------------------------------------------
(* Every step *)

\* Every step keeps the state well typed.
LEMMA TypedStep == Typed /\ Entries /\ Cursors /\ [ScanNext]_scanVars => Typed'
<1> SUFFICES ASSUME Typed, Entries, Cursors, [ScanNext]_scanVars PROVE Typed'
  OBVIOUS
<1>1. ASSUME NEW b \in {"text", "newline"}, Write(b) PROVE Typed'
  <2>1. log' \in Seq(Bytes) /\ Len(log') = Len(log) + 1
    BY <1>1 DEF Write, Typed, Bytes
  <2>2. Len(log') \in 0..MaxLog
    BY <1>1, <2>1, Bounds DEF Write, Typed
  <2>3. QED
    BY <1>1, <2>1, <2>2 DEF Write, Typed, reports
<1>2. ASSUME NEW n \in 1..MaxLine, NEW b \in {"newline", "bad"}, Log(n, b) PROVE Typed'
  <2>1. Len(log') \in 0..MaxLog
    BY <1>2, Entry, Bounds DEF Typed
  <2>2. QED
    BY <1>2, <2>1, Entry DEF Typed
<1>3. ASSUME NEW i \in Inodes, Turn(i) PROVE Typed'
  BY <1>3, Bounds DEF Turn, Typed
<1>4. ASSUME Stat PROVE Typed'
  <2>1. stat' \in Cursor
    BY <1>4 DEF Stat, Typed, Cursor
  <2>2. QED
    BY <1>4, <2>1 DEF Stat, Typed, content, reports
<1>5. ASSUME Read, Restarts PROVE Typed'
  <2>1. PICK s \in 0..Len(log) :
          /\ phase' = "idle" /\ stat' = NoCursor /\ cursor' = stat /\ base' = s
          /\ seen' = seen \cup (s + 1..Len(log))
          /\ again' = again \cup (seen \cap (s + 1..Len(log)))
          /\ ahead' = ahead \cup Uncovered(s)
          /\ UNCHANGED <<source, log, inode, generation, lost>>
    BY <1>5, TailRead
  <2>2. s + 1..Len(log) \subseteq 1..MaxLog /\ s \in 0..MaxLog
    BY Bounds DEF Typed
  <2>3. Uncovered(s) \subseteq s + 1..Len(log)
    BY DEF Uncovered
  <2>4. QED
    BY <2>1, <2>2, <2>3, CursorFields DEF Typed
<1>6. ASSUME Read, ~Restarts PROVE Typed'
  <2>1. PICK n \in 0..MaxLog :
          /\ phase' = "idle" /\ stat' = NoCursor /\ cursor' \in Cursor
          /\ base' = IF cursor.generation # generation THEN cursor.offset ELSE base
          /\ seen' = seen \cup (cursor.offset + 1..n)
          /\ again' = again \cup (seen \cap (cursor.offset + 1..n))
          /\ ahead' = ahead \cup (IF stat.generation # generation
                                  THEN cursor.offset + 1..n ELSE {})
          /\ UNCHANGED <<source, log, inode, generation, lost>>
    BY <1>6, OnwardRead
  <2>2. cursor.offset \in 0..MaxLog
    BY CursorFields DEF Typed
  <2>3. cursor.offset + 1..n \subseteq 1..MaxLog
    BY <2>2, Bounds
  <2>4. QED
    BY <2>1, <2>2, <2>3, CursorFields DEF Typed
<1>7. ASSUME Lose \/ Fail PROVE Typed'
  <2>1. lost' \in 0..MaxLost
    BY <1>7, Bounds DEF Lose, Fail, Typed
  <2>2. QED
    BY <1>7, <2>1, CursorFields DEF Lose, Fail, Typed, content, reports
<1>8. ASSUME ScanJournal PROVE Typed'
  <2>1. PICK o \in Starts, ends \in SUBSET Ends(0) :
          /\ base' = IF cursor = NoCursor THEN o ELSE base
          /\ seen' = seen \cup UNION {Line(e) : e \in ends}
          /\ again' = again \cup (seen \cap UNION {Line(e) : e \in ends})
          /\ ahead' = ahead \cup (IF ends = {} THEN seen ELSE {})
          /\ ends = {} => cursor' = NoCursor
          /\ ends # {} => \E m \in ends :
               cursor' = [inode |-> inode, offset |-> m, generation |-> generation]
          /\ UNCHANGED <<source, log, inode, generation, phase, stat, lost>>
    BY <1>8, JournalRead
  <2>2. o \in 0..MaxLog /\ \A e \in Ends(0) : e \in 1..MaxLog
    BY Bounds, LineBounds DEF Typed
  <2>3. UNION {Line(e) : e \in ends} \subseteq 1..MaxLog
    <3>1. ASSUME NEW e \in ends PROVE Line(e) \subseteq 1..MaxLog
      <4>1. Line(e) \subseteq 0 + 1..e
        BY LineBounds, LineAfter
      <4>2. QED
        BY <2>2, <4>1, Bounds
    <3>2. QED
      BY <3>1
  <2>4. cursor' \in Cursor
    <3>1. ASSUME NEW m \in ends,
                 cursor' = [inode |-> inode, offset |-> m, generation |-> generation]
          PROVE  cursor' \in Cursor
      <4>1. m \in 0..MaxLog
        BY <2>2, Bounds
      <4>2. QED
        BY <3>1, <4>1 DEF Cursor, Typed
    <3>2. QED
      BY <2>1, <3>1, CursorFields
  <2>5. QED
    BY <2>1, <2>2, <2>3, <2>4 DEF Typed
<1>9. ASSUME UNCHANGED scanVars PROVE Typed'
  BY <1>9 DEF scanVars, content, reports, Typed
<1>10. QED
  BY <1>1, <1>2, <1>3, <1>4, <1>5, <1>6, <1>7, <1>8, <1>9 DEF ScanNext

\* A cursor and a size stay of contents that the path has had.
LEMMA CursorsStep ==
  Typed /\ Cursors /\ Entries /\ [ScanNext]_scanVars => Cursors'
<1> SUFFICES ASSUME Typed, Cursors, Entries, [ScanNext]_scanVars
             PROVE  Cursors'
  OBVIOUS
<1>0. /\ generation \in Nat /\ Len(log) \in Nat /\ base \in Nat
      /\ cursor.generation \in Nat /\ cursor.offset \in Nat
      /\ stat.generation \in Nat /\ stat.offset \in Nat
      /\ NoCursor.offset = 0 /\ NoCursor.generation = 0 /\ ~Known(NoCursor)
  BY Numbers
<1>1. ASSUME NEW b \in {"text", "newline"}, Write(b) PROVE Cursors'
  <2>1. Len(log') = Len(log) + 1
    BY <1>1 DEF Write, Typed
  <2>2. QED
    BY <1>1, <2>1, <1>0 DEF Write, Cursors, reports
<1>2. ASSUME NEW n \in 1..MaxLine, NEW b \in {"newline", "bad"}, Log(n, b) PROVE Cursors'
  <2>1. Len(log') = Len(log) + n /\ n \in Nat
    BY <1>2, Entry, Bounds
  <2>2. UNCHANGED <<source, inode, generation, cursor, phase, stat>>
    BY <1>2, Entry
  <2>3. QED
    BY <2>1, <2>2, <1>0 DEF Cursors
<1>3. ASSUME NEW i \in Inodes, Turn(i) PROVE Cursors'
  <2>1. generation' = generation + 1
    BY <1>3 DEF Turn
  <2>2. UNCHANGED <<source, cursor, phase, stat>>
    BY <1>3 DEF Turn
  <2>3. QED
    BY <2>1, <2>2, <1>0 DEF Cursors
<1>4. ASSUME Stat PROVE Cursors'
  <2>1. stat' = [inode |-> inode, offset |-> Len(log), generation |-> generation]
    BY <1>4 DEF Stat
  <2>2. Known(stat')
    BY <2>1, InodeAssumption DEF Known, Typed
  <2>3. stat'.inode = inode /\ stat'.offset = Len(log) /\ stat'.generation = generation
    BY <2>1
  <2>4. source = "file" /\ UNCHANGED <<source, log, inode, generation, cursor>>
    BY <1>4 DEF Stat, content
  <2>5. QED
    BY <2>2, <2>3, <2>4, <1>0 DEF Cursors
<1>5. ASSUME Read, Restarts PROVE Cursors'
  <2>1. PICK s \in 0..Len(log) :
          /\ phase = "stat" /\ phase' = "idle" /\ stat' = NoCursor /\ cursor' = stat /\ base' = s
          /\ seen' = seen \cup (s + 1..Len(log))
          /\ again' = again \cup (seen \cap (s + 1..Len(log)))
          /\ ahead' = ahead \cup Uncovered(s)
          /\ UNCHANGED <<source, log, inode, generation, lost>>
    BY <1>5, TailRead
  <2>2. QED
    BY <2>1, <1>0 DEF Cursors
<1>6. ASSUME Read, ~Restarts PROVE Cursors'
  <2>1. PICK n \in 0..MaxLog :
          /\ phase = "stat" /\ phase' = "idle"
          /\ cursor.inode = stat.inode /\ cursor.offset <= stat.offset
          /\ (Known(cursor) <=> Known(stat)) /\ (Known(cursor') <=> Known(stat))
          /\ cursor.offset <= n /\ (n = cursor.offset \/ n <= Len(log))
          /\ cursor' \in Cursor /\ cursor'.inode = stat.inode
          /\ cursor'.generation = stat.generation /\ cursor'.offset = n
          /\ base' = IF cursor.generation # generation THEN cursor.offset ELSE base
          /\ seen' = seen \cup (cursor.offset + 1..n)
          /\ again' = again \cup (seen \cap (cursor.offset + 1..n))
          /\ ahead' = ahead \cup (IF stat.generation # generation
                                  THEN cursor.offset + 1..n ELSE {})
          /\ UNCHANGED <<source, log, inode, generation, lost>>
    BY <1>6, OnwardRead
  <2>2. stat.generation <= generation /\ Known(stat)
    BY <2>1 DEF Cursors
  <2>3. stat.generation = generation => stat.inode = inode /\ n <= Len(log)
    BY <2>1, <1>0 DEF Cursors
  <2>4. QED
    BY <2>1, <2>2, <2>3 DEF Cursors
<1>7. ASSUME Lose \/ Fail PROVE Cursors'
  <2>1. phase' = "idle" /\ UNCHANGED <<source, log, inode, generation, cursor>>
    BY <1>7 DEF Lose, Fail, content
  <2>2. QED
    BY <2>1 DEF Cursors
<1>8. ASSUME ScanJournal PROVE Cursors'
  <2>1. PICK o \in Starts, ends \in SUBSET Ends(0) :
          /\ source = "journal" /\ (cursor # NoCursor => o = cursor.offset)
          /\ ends \subseteq Ends(o)
          /\ base' = IF cursor = NoCursor THEN o ELSE base
          /\ seen' = seen \cup UNION {Line(e) : e \in ends}
          /\ again' = again \cup (seen \cap UNION {Line(e) : e \in ends})
          /\ ahead' = ahead \cup (IF ends = {} THEN seen ELSE {})
          /\ ends = {} => cursor' = NoCursor
          /\ ends # {} =>
               \E m \in ends :
                 /\ \A e \in ends : e <= m
                 /\ \A e \in Ends(o) : e <= m /\ log[e] = "newline" => e \in ends
                 /\ cursor' = [inode |-> inode, offset |-> m, generation |-> generation]
          /\ UNCHANGED <<source, log, inode, generation, phase, stat, lost>>
    BY <1>8, JournalRead
  <2>2. phase' # "stat"
    BY <2>1 DEF Cursors
  <2>3. CASE ends = {}
    BY <2>1, <2>2, <2>3, <1>0 DEF Cursors
  <2>4. CASE ends # {}
    <3>1. PICK m \in ends :
            cursor' = [inode |-> inode, offset |-> m, generation |-> generation]
      BY <2>1, <2>4
    <3>2. cursor'.inode = inode /\ cursor'.offset = m /\ cursor'.generation = generation
      BY <3>1
    <3>3. Known(cursor') /\ 0 \in Nat
      BY <3>2, InodeAssumption DEF Known, Typed
    <3>4. m \in 0 + 1..Len(log)
      BY <3>3, LineBounds
    <3>5. UNCHANGED <<log, inode, generation>>
      BY <2>1
    <3>6. QED
      BY <2>2, <3>2, <3>3, <3>4, <3>5, <1>0 DEF Cursors
  <2>5. QED
    BY <2>3, <2>4
<1>9. ASSUME UNCHANGED scanVars PROVE Cursors'
  BY <1>9 DEF scanVars, content, reports, Cursors
<1>10. QED
  BY <1>1, <1>2, <1>3, <1>4, <1>5, <1>6, <1>7, <1>8, <1>9 DEF ScanNext

\* The journal's cursor stays an entry's.
LEMMA EntriesStep ==
  Typed /\ Typed' /\ Cursors /\ Entries /\ [ScanNext]_scanVars => Entries'
<1> SUFFICES ASSUME Typed, Typed', Cursors, Entries, [ScanNext]_scanVars
             PROVE  Entries'
  OBVIOUS
<1>1. ASSUME NEW b \in {"text", "newline"}, Write(b) PROVE Entries'
  BY <1>1 DEF Write, Entries
<1>2. ASSUME NEW n \in 1..MaxLine, NEW b \in {"newline", "bad"}, Log(n, b) PROVE Entries'
  <2>1. Starts \subseteq Starts' /\ log'[Len(log')] = b /\ cursor' = cursor
    <3>1. Len(log) <= Len(log')
      BY <1>2, Entry, Bounds DEF Typed
    <3>2. QED
      BY <1>2, <3>1, Entry, LinesStay
  <2>2. QED
    BY <1>2, <2>1, Entry DEF Entries
<1>3. ASSUME NEW i \in Inodes, Turn(i) PROVE Entries'
  BY <1>3 DEF Turn, Entries
<1>4. ASSUME Stat PROVE Entries'
  BY <1>4 DEF Stat, Entries
<1>5. ASSUME Read, Restarts PROVE Entries'
  BY <1>5 DEF Read, Entries, Cursors, content
<1>6. ASSUME Read, ~Restarts PROVE Entries'
  BY <1>6 DEF Read, Entries, Cursors, content
<1>7. ASSUME Lose \/ Fail PROVE Entries'
  <2>1. UNCHANGED <<source, log, generation, cursor>>
    BY <1>7 DEF Lose, Fail, content
  <2>2. QED
    BY <2>1 DEF Entries, Starts, Ends
<1>8. ASSUME ScanJournal PROVE Entries'
  <2>1. PICK o \in Starts, ends \in SUBSET Ends(0) :
          /\ source = "journal" /\ (cursor # NoCursor => o = cursor.offset)
          /\ ends \subseteq Ends(o)
          /\ base' = IF cursor = NoCursor THEN o ELSE base
          /\ seen' = seen \cup UNION {Line(e) : e \in ends}
          /\ again' = again \cup (seen \cap UNION {Line(e) : e \in ends})
          /\ ahead' = ahead \cup (IF ends = {} THEN seen ELSE {})
          /\ ends = {} => cursor' = NoCursor
          /\ ends # {} =>
               \E m \in ends :
                 /\ \A e \in ends : e <= m
                 /\ \A e \in Ends(o) : e <= m /\ log[e] = "newline" => e \in ends
                 /\ cursor' = [inode |-> inode, offset |-> m, generation |-> generation]
          /\ UNCHANGED <<source, log, inode, generation, phase, stat, lost>>
    BY <1>8, JournalRead
  <2>2. Starts' = Starts
    BY <2>1 DEF Starts, Ends
  <2>3. CASE ends = {}
    BY <2>1, <2>2, <2>3, Numbers, LineBounds DEF Entries
  <2>4. CASE ends # {}
    <3>1. PICK m \in ends :
            cursor' = [inode |-> inode, offset |-> m, generation |-> generation]
      BY <2>1, <2>4
    <3>2. cursor'.offset = m /\ m \in Starts
      BY <3>1 DEF Starts
    <3>3. QED
      BY <2>1, <2>2, <3>2 DEF Entries
  <2>5. QED
    BY <2>3, <2>4
<1>9. ASSUME UNCHANGED scanVars PROVE Entries'
  <2>1. Starts' = Starts
    BY <1>9 DEF scanVars, content, Starts, Ends
  <2>2. QED
    BY <1>9, <2>1 DEF scanVars, content, Entries
<1>10. QED
  BY <1>1, <1>2, <1>3, <1>4, <1>5, <1>6, <1>7, <1>8, <1>9 DEF ScanNext

\* A scan that begins again has nothing reported left that is not ahead: a cursor of
\* the present content would go on.
LEMMA Afresh ==
  ASSUME Typed, Cursors, Covered, phase = "stat", Restarts
  PROVE  seen \subseteq ahead
<1> SUFFICES ASSUME NEW p \in seen, p \notin ahead PROVE FALSE
  OBVIOUS
<1>0. /\ generation \in Nat /\ Len(log) \in Nat /\ base \in Nat
      /\ cursor.generation \in Nat /\ cursor.offset \in Nat
      /\ stat.generation \in Nat /\ stat.offset \in Nat
      /\ NoCursor.offset = 0 /\ NoCursor.generation = 0 /\ ~Known(NoCursor)
  BY Numbers
<1>1. Known(cursor) /\ cursor.generation = generation
  BY DEF Covered
<1>2. stat.generation <= generation /\ cursor.generation <= stat.generation
  BY DEF Cursors
<1>3. stat.generation = cursor.generation
  BY <1>0, <1>1, <1>2
<1>4. cursor.inode = stat.inode /\ cursor.offset <= stat.offset
  BY <1>1, <1>3 DEF Cursors
<1>5. QED
  BY <1>0, <1>4 DEF Restarts

\* What was reported is covered by the cursor or ahead of it.
LEMMA CoveredStep ==
  Typed /\ Typed' /\ Cursors /\ Entries /\ Covered /\ [ScanNext]_scanVars => Covered'
<1> SUFFICES ASSUME Typed, Typed', Cursors, Entries, Covered, [ScanNext]_scanVars
             PROVE  Covered'
  OBVIOUS
<1>0. /\ generation \in Nat /\ Len(log) \in Nat /\ base \in Nat
      /\ cursor.generation \in Nat /\ cursor.offset \in Nat
      /\ stat.generation \in Nat /\ stat.offset \in Nat
      /\ NoCursor.offset = 0 /\ NoCursor.generation = 0 /\ ~Known(NoCursor)
  BY Numbers
<1>1. ASSUME NEW b \in {"text", "newline"}, Write(b) PROVE Covered'
  BY <1>1 DEF Write, Covered, reports
<1>2. ASSUME NEW n \in 1..MaxLine, NEW b \in {"newline", "bad"}, Log(n, b) PROVE Covered'
  <2>1. UNCHANGED <<generation, cursor, seen, ahead>>
    BY <1>2, Entry
  <2>2. QED
    BY <2>1 DEF Covered
<1>3. ASSUME NEW i \in Inodes, Turn(i) PROVE Covered'
  BY <1>3 DEF Turn, Covered
<1>4. ASSUME Stat PROVE Covered'
  BY <1>4 DEF Stat, Covered, content, reports
<1>5. ASSUME Read, Restarts PROVE Covered'
  <2>1. PICK s \in 0..Len(log) :
          /\ phase = "stat" /\ phase' = "idle" /\ stat' = NoCursor /\ cursor' = stat /\ base' = s
          /\ seen' = seen \cup (s + 1..Len(log))
          /\ again' = again \cup (seen \cap (s + 1..Len(log)))
          /\ ahead' = ahead \cup Uncovered(s)
          /\ UNCHANGED <<source, log, inode, generation, lost>>
    BY <1>5, TailRead
  <2>2. seen \subseteq ahead /\ Known(stat)
    BY <1>5, <2>1, Afresh DEF Cursors
  <2>3. ASSUME NEW p \in seen', p \notin ahead'
        PROVE  Known(cursor') /\ cursor'.generation = generation' /\ p <= cursor'.offset
    <3>1. p \in s + 1..Len(log) /\ p \notin Uncovered(s)
      BY <2>1, <2>2, <2>3
    <3>2. stat.generation = generation /\ ~(p > stat.offset)
      BY <3>1 DEF Uncovered
    <3>3. QED
      BY <1>0, <2>1, <2>2, <3>1, <3>2
  <2>4. QED
    BY <2>3 DEF Covered
<1>6. ASSUME Read, ~Restarts PROVE Covered'
  <2>1. PICK n \in 0..MaxLog :
          /\ phase = "stat" /\ phase' = "idle"
          /\ cursor.inode = stat.inode /\ cursor.offset <= stat.offset
          /\ (Known(cursor) <=> Known(stat)) /\ (Known(cursor') <=> Known(stat))
          /\ cursor.offset <= n /\ (n = cursor.offset \/ n <= Len(log))
          /\ cursor' \in Cursor /\ cursor'.inode = stat.inode
          /\ cursor'.generation = stat.generation /\ cursor'.offset = n
          /\ base' = IF cursor.generation # generation THEN cursor.offset ELSE base
          /\ seen' = seen \cup (cursor.offset + 1..n)
          /\ again' = again \cup (seen \cap (cursor.offset + 1..n))
          /\ ahead' = ahead \cup (IF stat.generation # generation
                                  THEN cursor.offset + 1..n ELSE {})
          /\ UNCHANGED <<source, log, inode, generation, lost>>
    BY <1>6, OnwardRead
  <2>2. /\ stat.generation <= generation /\ cursor.generation <= stat.generation
        /\ Known(stat)
    BY <2>1 DEF Cursors
  <2>3. ASSUME NEW p \in seen', p \notin ahead'
        PROVE  Known(cursor') /\ cursor'.generation = generation' /\ p <= cursor'.offset
    <3>1. p \notin ahead /\ p \in Nat
      BY <2>1, <2>3, Bounds DEF Typed
    <3>2. CASE p \in seen
      <4>1. cursor.generation = generation /\ p <= cursor.offset
        BY <3>1, <3>2 DEF Covered
      <4>2. stat.generation = generation
        BY <1>0, <2>2, <4>1
      <4>3. QED
        BY <1>0, <2>1, <2>2, <3>1, <4>1, <4>2
    <3>3. CASE p \notin seen
      <4>1. p \in cursor.offset + 1..n
        BY <2>1, <2>3, <3>3
      <4>2. stat.generation = generation
        BY <2>1, <2>3, <4>1
      <4>3. QED
        BY <1>0, <2>1, <2>2, <4>1, <4>2
    <3>4. QED
      BY <3>2, <3>3
  <2>4. QED
    BY <2>3 DEF Covered
<1>7. ASSUME Lose \/ Fail PROVE Covered'
  BY <1>7 DEF Lose, Fail, Covered, content, reports
<1>8. ASSUME ScanJournal PROVE Covered'
  <2>1. PICK o \in Starts, ends \in SUBSET Ends(0) :
          /\ source = "journal" /\ (cursor # NoCursor => o = cursor.offset)
          /\ ends \subseteq Ends(o)
          /\ base' = IF cursor = NoCursor THEN o ELSE base
          /\ seen' = seen \cup UNION {Line(e) : e \in ends}
          /\ again' = again \cup (seen \cap UNION {Line(e) : e \in ends})
          /\ ahead' = ahead \cup (IF ends = {} THEN seen ELSE {})
          /\ ends = {} => cursor' = NoCursor
          /\ ends # {} =>
               \E m \in ends :
                 /\ \A e \in ends : e <= m
                 /\ \A e \in Ends(o) : e <= m /\ log[e] = "newline" => e \in ends
                 /\ cursor' = [inode |-> inode, offset |-> m, generation |-> generation]
          /\ UNCHANGED <<source, log, inode, generation, phase, stat, lost>>
    BY <1>8, JournalRead
  <2>2. ASSUME NEW p \in seen', p \notin ahead'
        PROVE  Known(cursor') /\ cursor'.generation = generation' /\ p <= cursor'.offset
    <3>1. ends # {} /\ p \notin ahead
      BY <2>1, <2>2
    <3>2. PICK m \in ends :
            /\ \A e \in ends : e <= m
            /\ cursor' = [inode |-> inode, offset |-> m, generation |-> generation]
      BY <2>1, <3>1
    <3>3. /\ cursor'.inode = inode /\ cursor'.offset = m
          /\ cursor'.generation = generation
      BY <3>2
    <3>4. Known(cursor')
      BY <3>3, InodeAssumption DEF Known, Typed
    <3>5. o \in Nat /\ \A e \in ends : e \in Nat /\ e \in Ends(o) /\ o < e
      BY <2>1, LineBounds
    <3>6. p <= m
      <4>1. CASE p \in seen
        <5>1. Known(cursor) /\ p <= cursor.offset
          BY <3>1, <4>1 DEF Covered
        <5>2. p <= o /\ p \in Nat
          BY <1>0, <2>1, <4>1, <5>1 DEF Typed
        <5>3. QED
          BY <3>5, <5>2
      <4>2. CASE p \notin seen
        <5>1. PICK e \in ends : p \in Line(e)
          BY <2>1, <2>2, <4>2
        <5>2. p \in o + 1..e
          BY <3>5, <5>1, LineAfter
        <5>3. e <= m /\ e \in Nat
          BY <3>2, <3>5
        <5>4. QED
          BY <3>5, <5>2, <5>3
      <4>3. QED
        BY <4>1, <4>2
    <3>7. QED
      BY <2>1, <3>3, <3>4, <3>6
  <2>3. QED
    BY <2>2 DEF Covered
<1>9. ASSUME UNCHANGED scanVars PROVE Covered'
  BY <1>9 DEF scanVars, content, reports, Covered
<1>10. QED
  BY <1>1, <1>2, <1>3, <1>4, <1>5, <1>6, <1>7, <1>8, <1>9 DEF ScanNext

\* Between where a run of scans began and the cursor, everything is reported.
LEMMA FilledStep ==
  Typed /\ Typed' /\ Cursors /\ Entries /\ Filled /\ [ScanNext]_scanVars => Filled'
<1> SUFFICES ASSUME Typed, Typed', Cursors, Entries, Filled, [ScanNext]_scanVars
             PROVE  Filled'
  OBVIOUS
<1>0. /\ generation \in Nat /\ Len(log) \in Nat /\ base \in Nat
      /\ cursor.generation \in Nat /\ cursor.offset \in Nat
      /\ stat.generation \in Nat /\ stat.offset \in Nat
      /\ NoCursor.offset = 0 /\ NoCursor.generation = 0 /\ ~Known(NoCursor)
  BY Numbers
<1>1. ASSUME NEW b \in {"text", "newline"}, Write(b) PROVE Filled'
  <2>1. source = "file" /\ UNCHANGED <<source, generation, cursor, seen, base>>
    BY <1>1 DEF Write, reports
  <2>2. source # "journal"
    BY <2>1
  <2>3. QED
    BY <2>1, <2>2 DEF Filled
<1>2. ASSUME NEW n \in 1..MaxLine, NEW b \in {"newline", "bad"}, Log(n, b) PROVE Filled'
  <2>1. /\ source = "journal" /\ Len(log) <= Len(log') /\ \A p \in 1..Len(log) : log'[p] = log[p]
        /\ UNCHANGED <<source, generation, cursor, seen, base>>
    <3>1. Len(log') = Len(log) + n /\ n \in Nat
      BY <1>2, Entry, Bounds
    <3>2. QED
      BY <1>0, <1>2, <3>1, Entry
  <2>2. BadBytes \subseteq BadBytes'
    BY <2>1, LinesStay
  <2>3. QED
    BY <2>1, <2>2 DEF Filled
<1>3. ASSUME NEW i \in Inodes, Turn(i) PROVE Filled'
  <2>1. generation' = generation + 1 /\ cursor' = cursor
    BY <1>3 DEF Turn
  <2>2. cursor.generation <= generation
    BY DEF Cursors
  <2>3. cursor'.generation # generation'
    BY <1>0, <2>1, <2>2
  <2>4. QED
    BY <2>3 DEF Filled
<1>4. ASSUME Stat PROVE Filled'
  <2>1. BadBytes' = BadBytes /\ UNCHANGED <<source, generation, cursor, seen, base>>
    BY <1>4 DEF Stat, content, reports, BadBytes, Ends, Line, Size, Starts
  <2>2. QED
    BY <2>1 DEF Filled
<1>5. ASSUME Read, Restarts PROVE Filled'
  <2>1. PICK s \in 0..Len(log) :
          /\ phase = "stat" /\ phase' = "idle" /\ stat' = NoCursor /\ cursor' = stat /\ base' = s
          /\ seen' = seen \cup (s + 1..Len(log))
          /\ again' = again \cup (seen \cap (s + 1..Len(log)))
          /\ ahead' = ahead \cup Uncovered(s)
          /\ UNCHANGED <<source, log, inode, generation, lost>>
    BY <1>5, TailRead
  <2>2. ASSUME Known(cursor'), cursor'.generation = generation',
               NEW p \in base' + 1..cursor'.offset
        PROVE  p \in seen'
    <3>1. stat.offset <= Len(log)
      BY <2>1, <2>2 DEF Cursors
    <3>2. p \in s + 1..Len(log)
      BY <1>0, <2>1, <2>2, <3>1
    <3>3. QED
      BY <2>1, <3>2
  <2>3. QED
    BY <2>2 DEF Filled
<1>6. ASSUME Read, ~Restarts PROVE Filled'
  <2>1. PICK n \in 0..MaxLog :
          /\ phase = "stat" /\ phase' = "idle"
          /\ cursor.inode = stat.inode /\ cursor.offset <= stat.offset
          /\ (Known(cursor) <=> Known(stat)) /\ (Known(cursor') <=> Known(stat))
          /\ cursor.offset <= n /\ (n = cursor.offset \/ n <= Len(log))
          /\ cursor' \in Cursor /\ cursor'.inode = stat.inode
          /\ cursor'.generation = stat.generation /\ cursor'.offset = n
          /\ base' = IF cursor.generation # generation THEN cursor.offset ELSE base
          /\ seen' = seen \cup (cursor.offset + 1..n)
          /\ again' = again \cup (seen \cap (cursor.offset + 1..n))
          /\ ahead' = ahead \cup (IF stat.generation # generation
                                  THEN cursor.offset + 1..n ELSE {})
          /\ UNCHANGED <<source, log, inode, generation, lost>>
    BY <1>6, OnwardRead
  <2>2. source # "journal" /\ Known(stat)
    BY <2>1 DEF Cursors
  <2>3. ASSUME Known(cursor'), cursor'.generation = generation',
               NEW p \in base' + 1..cursor'.offset
        PROVE  p \in seen'
    <3>1. CASE cursor.generation # generation \/ cursor.offset < p
      <4>1. base' \in Nat
        BY <1>0, <2>1
      <4>2. p \in cursor.offset + 1..n
        BY <1>0, <2>1, <2>3, <3>1, <4>1
      <4>3. QED
        BY <2>1, <4>2
    <3>2. CASE cursor.generation = generation /\ ~(cursor.offset < p)
      <4>1. p \in base + 1..cursor.offset
        BY <1>0, <2>1, <2>3, <3>2
      <4>2. QED
        BY <2>1, <2>2, <3>2, <4>1 DEF Filled
    <3>3. QED
      BY <3>1, <3>2
  <2>4. QED
    BY <2>3 DEF Filled
<1>7. ASSUME Lose \/ Fail PROVE Filled'
  <2>1. BadBytes' = BadBytes /\ UNCHANGED <<source, generation, cursor, seen, base>>
    BY <1>7 DEF Lose, Fail, content, reports, BadBytes, Ends, Line, Size, Starts
  <2>2. QED
    BY <2>1 DEF Filled
<1>8. ASSUME ScanJournal PROVE Filled'
  <2>1. PICK o \in Starts, ends \in SUBSET Ends(0) :
          /\ source = "journal" /\ (cursor # NoCursor => o = cursor.offset)
          /\ ends \subseteq Ends(o)
          /\ base' = IF cursor = NoCursor THEN o ELSE base
          /\ seen' = seen \cup UNION {Line(e) : e \in ends}
          /\ again' = again \cup (seen \cap UNION {Line(e) : e \in ends})
          /\ ahead' = ahead \cup (IF ends = {} THEN seen ELSE {})
          /\ ends = {} => cursor' = NoCursor
          /\ ends # {} =>
               \E m \in ends :
                 /\ \A e \in ends : e <= m
                 /\ \A e \in Ends(o) : e <= m /\ log[e] = "newline" => e \in ends
                 /\ cursor' = [inode |-> inode, offset |-> m, generation |-> generation]
          /\ UNCHANGED <<source, log, inode, generation, phase, stat, lost>>
    BY <1>8, JournalRead
  <2>2. BadBytes' = BadBytes
    BY <2>1 DEF BadBytes, Ends, Line, Size, Starts
  <2>3. ASSUME Known(cursor'), NEW p \in base' + 1..cursor'.offset
        PROVE  p \in seen' \/ p \in BadBytes
    <3>1. ends # {}
      BY <1>0, <2>1, <2>3
    <3>2. PICK m \in ends :
            /\ \A e \in Ends(o) : e <= m /\ log[e] = "newline" => e \in ends
            /\ cursor' = [inode |-> inode, offset |-> m, generation |-> generation]
      BY <2>1, <3>1
    <3>3. cursor'.offset = m
      BY <3>2
    <3>4. o \in Nat /\ m \in Nat /\ m \in Ends(o) /\ Ends(o) \subseteq o + 1..Len(log)
      BY <2>1, LineBounds
    <3>5. CASE cursor # NoCursor /\ p <= o
      <4>1. generation = 0 /\ cursor.generation <= generation /\ Known(cursor)
        BY <2>1, <3>5 DEF Cursors, Entries
      <4>2. cursor.generation = generation
        BY <1>0, <4>1
      <4>3. p \in base + 1..cursor.offset
        BY <1>0, <2>1, <2>3, <3>3, <3>4, <3>5
      <4>4. p \in seen \/ p \in BadBytes
        BY <2>1, <4>1, <4>2, <4>3 DEF Filled
      <4>5. QED
        BY <2>1, <4>4
    <3>6. CASE ~(cursor # NoCursor /\ p <= o)
      <4>1. base' \in Nat
        BY <1>0, <2>1, <3>4
      <4>2. p \in o + 1..m
        BY <1>0, <2>1, <2>3, <3>3, <3>4, <3>6, <4>1
      <4>3. PICK f \in Ends(o) : f <= m /\ p \in Line(f)
        BY <3>4, <4>2, NextLine
      <4>4. f \in Ends(0) /\ f \in 1..Len(log) /\ (log[f] # "text" \/ f = Len(log))
        <5>1. f \in Ends(0)
          BY <3>4, LineBounds
        <5>2. f \in 1..Len(log)
          BY <1>0, <3>4
        <5>3. log[f] # "text" \/ f = Len(log)
          BY DEF Ends
        <5>4. QED
          BY <5>1, <5>2, <5>3
      <4>5. log[f] # "text"
        <5>1. log # <<>>
          BY <4>4
        <5>2. QED
          BY <2>1, <4>4, <5>1 DEF Entries
      <4>6. log[f] \in Bytes
        BY <4>4 DEF Typed
      <4>7. CASE log[f] = "newline"
        BY <2>1, <3>2, <4>3, <4>7
      <4>8. CASE log[f] = "bad"
        BY <4>3, <4>4, <4>8 DEF BadBytes
      <4>9. QED
        BY <4>5, <4>6, <4>7, <4>8 DEF Bytes
    <3>7. QED
      BY <3>5, <3>6
  <2>4. QED
    BY <2>1, <2>2, <2>3 DEF Filled
<1>9. ASSUME UNCHANGED scanVars PROVE Filled'
  <2>1. BadBytes' = BadBytes /\ UNCHANGED <<source, generation, cursor, seen, base>>
    BY <1>9 DEF scanVars, content, reports, BadBytes, Ends, Line, Size, Starts
  <2>2. QED
    BY <2>1 DEF Filled
<1>10. QED
  BY <1>1, <1>2, <1>3, <1>4, <1>5, <1>6, <1>7, <1>8, <1>9 DEF ScanNext

\* A byte that is reported again was ahead of the cursor.
LEMMA RepeatsStep ==
  Typed /\ Cursors /\ Entries /\ Covered /\ RepeatsWereAhead /\ [ScanNext]_scanVars
    => RepeatsWereAhead'
<1> SUFFICES ASSUME Typed, Cursors, Entries, Covered, RepeatsWereAhead, [ScanNext]_scanVars
             PROVE  RepeatsWereAhead'
  OBVIOUS
<1>0. /\ generation \in Nat /\ Len(log) \in Nat /\ base \in Nat
      /\ cursor.generation \in Nat /\ cursor.offset \in Nat
      /\ stat.generation \in Nat /\ stat.offset \in Nat
      /\ NoCursor.offset = 0 /\ NoCursor.generation = 0 /\ ~Known(NoCursor)
  BY Numbers
<1>1. ASSUME NEW b \in {"text", "newline"}, Write(b) PROVE RepeatsWereAhead'
  BY <1>1 DEF Write, reports, RepeatsWereAhead
<1>2. ASSUME NEW n \in 1..MaxLine, NEW b \in {"newline", "bad"}, Log(n, b) PROVE RepeatsWereAhead'
  <2>1. UNCHANGED <<again, ahead>>
    BY <1>2, Entry
  <2>2. QED
    BY <2>1 DEF RepeatsWereAhead
<1>3. ASSUME NEW i \in Inodes, Turn(i) PROVE RepeatsWereAhead'
  BY <1>3 DEF Turn, RepeatsWereAhead
<1>4. ASSUME Stat PROVE RepeatsWereAhead'
  BY <1>4 DEF Stat, reports, RepeatsWereAhead
<1>5. ASSUME Read, Restarts PROVE RepeatsWereAhead'
  <2>1. PICK s \in 0..Len(log) :
          /\ phase = "stat" /\ phase' = "idle" /\ stat' = NoCursor /\ cursor' = stat /\ base' = s
          /\ seen' = seen \cup (s + 1..Len(log))
          /\ again' = again \cup (seen \cap (s + 1..Len(log)))
          /\ ahead' = ahead \cup Uncovered(s)
          /\ UNCHANGED <<source, log, inode, generation, lost>>
    BY <1>5, TailRead
  <2>2. seen \subseteq ahead
    BY <1>5, <2>1, Afresh
  <2>3. QED
    BY <2>1, <2>2 DEF RepeatsWereAhead
<1>6. ASSUME Read, ~Restarts PROVE RepeatsWereAhead'
  <2>1. PICK n \in 0..MaxLog :
          /\ phase = "stat" /\ phase' = "idle"
          /\ cursor.inode = stat.inode /\ cursor.offset <= stat.offset
          /\ (Known(cursor) <=> Known(stat)) /\ (Known(cursor') <=> Known(stat))
          /\ cursor.offset <= n /\ (n = cursor.offset \/ n <= Len(log))
          /\ cursor' \in Cursor /\ cursor'.inode = stat.inode
          /\ cursor'.generation = stat.generation /\ cursor'.offset = n
          /\ base' = IF cursor.generation # generation THEN cursor.offset ELSE base
          /\ seen' = seen \cup (cursor.offset + 1..n)
          /\ again' = again \cup (seen \cap (cursor.offset + 1..n))
          /\ ahead' = ahead \cup (IF stat.generation # generation
                                  THEN cursor.offset + 1..n ELSE {})
          /\ UNCHANGED <<source, log, inode, generation, lost>>
    BY <1>6, OnwardRead
  <2>2. ASSUME NEW p \in seen, p \in cursor.offset + 1..n PROVE p \in ahead
    BY <1>0, <2>1, <2>2 DEF Covered
  <2>3. QED
    BY <2>1, <2>2 DEF RepeatsWereAhead
<1>7. ASSUME Lose \/ Fail PROVE RepeatsWereAhead'
  BY <1>7 DEF Lose, Fail, reports, RepeatsWereAhead
<1>8. ASSUME ScanJournal PROVE RepeatsWereAhead'
  <2>1. PICK o \in Starts, ends \in SUBSET Ends(0) :
          /\ source = "journal" /\ (cursor # NoCursor => o = cursor.offset)
          /\ ends \subseteq Ends(o)
          /\ base' = IF cursor = NoCursor THEN o ELSE base
          /\ seen' = seen \cup UNION {Line(e) : e \in ends}
          /\ again' = again \cup (seen \cap UNION {Line(e) : e \in ends})
          /\ ahead' = ahead \cup (IF ends = {} THEN seen ELSE {})
          /\ ends = {} => cursor' = NoCursor
          /\ ends # {} =>
               \E m \in ends :
                 /\ \A e \in ends : e <= m
                 /\ \A e \in Ends(o) : e <= m /\ log[e] = "newline" => e \in ends
                 /\ cursor' = [inode |-> inode, offset |-> m, generation |-> generation]
          /\ UNCHANGED <<source, log, inode, generation, phase, stat, lost>>
    BY <1>8, JournalRead
  <2>2. ASSUME NEW p \in seen, NEW e \in ends, p \in Line(e) PROVE p \in ahead
    <3> SUFFICES ASSUME p \notin ahead PROVE FALSE
      OBVIOUS
    <3>1. Known(cursor) /\ p <= cursor.offset
      BY DEF Covered
    <3>2. p <= o /\ o \in Nat /\ e \in Ends(o)
      BY <1>0, <2>1, <3>1, LineBounds
    <3>3. p \in o + 1..e
      BY <2>2, <3>2, LineAfter
    <3>4. e \in Nat
      BY <3>2, LineBounds
    <3>5. QED
      BY <3>2, <3>3, <3>4
  <2>3. QED
    BY <2>1, <2>2 DEF RepeatsWereAhead
<1>9. ASSUME UNCHANGED scanVars PROVE RepeatsWereAhead'
  BY <1>9 DEF scanVars, reports, RepeatsWereAhead
<1>10. QED
  BY <1>1, <1>2, <1>3, <1>4, <1>5, <1>6, <1>7, <1>8, <1>9 DEF ScanNext

-------------------------------------------------------------------------------
(* The theorems *)

\* The first states, without a cursor and with nothing reported.
LEMMA ScanStarts == ScanInit => ScanInv
<1> SUFFICES ASSUME ScanInit PROVE ScanInv
  OBVIOUS
<1>1. Typed
  <2>1. log \in Seq(Bytes) /\ Len(log) = 0
    BY DEF ScanInit
  <2>2. 0 \in 0..MaxLog /\ 0 \in 0..MaxTurns /\ 0 \in 0..MaxLost
    BY Bounds
  <2>3. cursor \in Cursor /\ stat \in Cursor
    BY CursorFields DEF ScanInit
  <2>4. QED
    BY <2>1, <2>2, <2>3 DEF ScanInit, Typed
<1>2. ScanTypeOK
  BY <1>1, TypedSets
<1>3. ~Known(NoCursor) /\ NoCursor.generation = 0 /\ NoCursor.offset = 0
  BY <1>1, Numbers
<1>4. Cursors
  BY <1>3 DEF ScanInit, Cursors
<1>5. Entries
  BY <1>1, <1>3, LineBounds DEF ScanInit, Entries
<1>6. Covered /\ RepeatsWereAhead
  BY DEF ScanInit, Covered, RepeatsWereAhead
<1>7. Filled
  BY <1>3 DEF ScanInit, Filled
<1>8. QED
  BY <1>2, <1>4, <1>5, <1>6, <1>7 DEF ScanInv

\* The inductive invariant.
LEMMA ScanInvariance == ScanSpec => []ScanInv
<1>1. ScanInv /\ [ScanNext]_scanVars => ScanInv'
  <2> SUFFICES ASSUME ScanInv, [ScanNext]_scanVars PROVE ScanInv'
    OBVIOUS
  <2>1. Typed /\ Cursors /\ Entries /\ Covered /\ Filled /\ RepeatsWereAhead
    BY TypedSets DEF ScanInv
  <2>2. Typed'
    BY <2>1, TypedStep
  <2>3. ScanTypeOK'
    BY <2>2 DEF ScanTypeOK, Typed
  <2>4. Cursors'
    BY <2>1, CursorsStep
  <2>5. Entries'
    BY <2>1, <2>2, EntriesStep
  <2>6. Covered'
    BY <2>1, <2>2, CoveredStep
  <2>7. Filled'
    BY <2>1, <2>2, FilledStep
  <2>8. RepeatsWereAhead'
    BY <2>1, RepeatsStep
  <2>9. QED
    BY <2>3, <2>4, <2>5, <2>6, <2>7, <2>8 DEF ScanInv
<1>2. QED
  BY ScanStarts, <1>1, PTL DEF ScanSpec

\* Every variable keeps its type: offsets stay within the log's bound, generations
\* within that of the turns.
THEOREM ScanTypeCorrect == ScanSpec => []ScanTypeOK
<1>1. ScanInv => ScanTypeOK
  BY DEF ScanInv
<1>2. QED
  BY ScanInvariance, <1>1, PTL

\* Scans that continue one another leave no gap: whatever the log's writers do beside
\* them, from where their run began every byte up to the cursor was reported, or is of
\* an entry that does not parse.
THEOREM NoGap == ScanSpec => []Gapless
<1>1. ScanInv => Gapless
  <2> SUFFICES ASSUME ScanInv, cursor # NoCursor, cursor.generation = generation,
                      NEW p \in base + 1..cursor.offset
               PROVE  p \in seen \cup BadBytes
    BY DEF Gapless
  <2>1. Known(cursor)
    BY DEF ScanInv, Cursors
  <2>2. QED
    BY <2>1 DEF ScanInv, Filled
<1>2. QED
  BY ScanInvariance, <1>1, PTL

\* What is reported twice was ahead of the cursor that its first result returned.
THEOREM RepeatsExplained == ScanSpec => []RepeatsWereAhead
<1>1. ScanInv => RepeatsWereAhead
  BY DEF ScanInv
<1>2. QED
  BY ScanInvariance, <1>1, PTL

===============================================================================
