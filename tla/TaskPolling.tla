------------------------------ MODULE TaskPolling ------------------------------
(***************************************************************************)
(* The claim loop of internal/tasks/service.go beside the token rotation of *)
(* internal/realtime/client.go and internal/agent/service.go.  Both write   *)
(* the token header of the one api.Client: the rotation handler when the    *)
(* platform stages a new token, the claim loop when a claim is rejected.    *)
(* Tokens are numbered in the order they are staged.  What the client sends *)
(* again for one claim carries the same header and counts as that claim.    *)
(***************************************************************************)
EXTENDS Naturals

CONSTANTS
  MaxRotations  \* bound: tokens the platform stages

ASSUME RotationAssumption == MaxRotations \in Nat

VARIABLES
  down,      \* the loop's context is done
  loop,      \* where pollTasks is: see LoopPoints
  request,   \* the token the claim under way carries
  read,      \* the token read from the identity for the refresh
  backoff,   \* networkBackoff in seconds
  claims,    \* an unhandled claim answer: "none", "empty", "task"
  rotation,  \* where the token.rotate handler is: see RotationPoints
  staged,    \* the newest token the platform has staged
  identity,  \* the agent's token in identity.Manager
  header,    \* the token header of api.Client
  valid      \* tokens the platform accepts (external)

loopVars == <<loop, request, read, backoff, claims>>
pollVars == <<down, loopVars, rotation, staged, identity, header, valid>>

Tokens == 0..MaxRotations
LoopPoints == {"top", "claiming", "refreshing", "setting", "again", "reclaiming",
               "handling", "sleeping", "stopped"}
RotationPoints == {"idle", "received", "persisted", "installed", "reauthenticating"}
Backoffs == {1, 2, 4, 8, 15}

PollTypeOK ==
  /\ down \in BOOLEAN
  /\ loop \in LoopPoints
  /\ {request, read, staged, identity, header} \subseteq Tokens
  /\ backoff \in Backoffs
  /\ claims \in {"none", "empty", "task"}
  /\ rotation \in RotationPoints
  /\ valid \subseteq Tokens

PollInit ==
  /\ down = FALSE
  /\ loop = "top"
  /\ request = 0
  /\ read = 0
  /\ backoff = 1
  /\ claims = "none"
  /\ rotation = "idle"
  /\ staged = 0
  /\ identity = 0
  /\ header = 0
  /\ valid = {0}

-------------------------------------------------------------------------------
(* pollTasks *)

LoopEnd ==
  /\ loop = "top"
  /\ down
  /\ loop' = "stopped"
  /\ UNCHANGED <<down, request, read, backoff, claims, rotation, staged, identity,
                 header, valid>>

\* A claim carries the header the client has when it is sent.
Claim(from, to) ==
  /\ loop = from
  /\ loop' = to
  /\ request' = header
  /\ UNCHANGED <<down, read, backoff, claims, rotation, staged, identity, header,
                 valid>>

FirstClaim == ~down /\ Claim("top", "claiming")
SecondClaim == Claim("again", "reclaiming")

Waiting == loop \in {"claiming", "reclaiming"}

\* 2xx: reset the backoff, then HandleDesiredSnapshot and dispatchTask.
Granted ==
  /\ Waiting
  /\ request \in valid
  /\ claims' \in {"empty", "task"}
  /\ backoff' = 1
  /\ loop' = "handling"
  /\ UNCHANGED <<down, request, read, rotation, staged, identity, header, valid>>

Handle ==
  /\ loop = "handling"
  /\ claims' = "none"
  /\ loop' = "top"
  /\ UNCHANGED <<down, request, read, backoff, rotation, staged, identity, header,
                 valid>>

\* Mutant: a rejected claim ends the loop.
Rejected_final ==
  /\ loop = "claiming"
  /\ request \notin valid
  /\ loop' = "stopped"
  /\ UNCHANGED <<down, request, read, backoff, claims, rotation, staged, identity,
                 header, valid>>

\* 401 or 403 to the first claim: refresh the headers and claim once more ...
Rejected ==
  /\ loop = "claiming"
  /\ request \notin valid
  /\ loop' = "refreshing"
  /\ UNCHANGED <<down, request, read, backoff, claims, rotation, staged, identity,
                 header, valid>>

\* Mutant: the token the agent started with.
RefreshRead_initial ==
  /\ loop = "refreshing"
  /\ read' = 0
  /\ loop' = "setting"
  /\ UNCHANGED <<down, request, backoff, claims, rotation, staged, identity, header,
                 valid>>

\* ... reading the identity ...
RefreshRead ==
  /\ loop = "refreshing"
  /\ read' = identity
  /\ loop' = "setting"
  /\ UNCHANGED <<down, request, backoff, claims, rotation, staged, identity, header,
                 valid>>

\* Mutant: refresh until the header is new, without a claim.
RefreshSet_looping ==
  /\ loop = "setting"
  /\ header' = read
  /\ loop' = IF read = request THEN "again" ELSE "refreshing"
  /\ UNCHANGED <<down, request, read, backoff, claims, rotation, staged, identity,
                 valid>>

\* ... and writing the client, under locks of their own.
RefreshSet ==
  /\ loop = "setting"
  /\ header' = read
  /\ loop' = "again"
  /\ UNCHANGED <<down, request, read, backoff, claims, rotation, staged, identity,
                 valid>>

\* 401 or 403 to the second claim: the loop ends for good.
Unauthorized ==
  /\ loop = "reclaiming"
  /\ request \notin valid
  /\ loop' = "stopped"
  /\ UNCHANGED <<down, request, read, backoff, claims, rotation, staged, identity,
                 header, valid>>

\* 404 or 409: claim again at once.
StateConflict ==
  /\ Waiting
  /\ request \in valid
  /\ loop' = "top"
  /\ UNCHANGED <<down, request, read, backoff, claims, rotation, staged, identity,
                 header, valid>>

\* No HTTP answer: the next wait is twice as long, up to 15 seconds.
NetworkError ==
  /\ Waiting
  /\ backoff' = IF backoff * 2 < 15 THEN backoff * 2 ELSE 15
  /\ loop' = "sleeping"
  /\ UNCHANGED <<down, request, read, claims, rotation, staged, identity, header,
                 valid>>

\* Any other status: a short pause, the backoff stays.
OtherError ==
  /\ Waiting
  /\ request \in valid
  /\ loop' = "sleeping"
  /\ UNCHANGED <<down, request, read, backoff, claims, rotation, staged, identity,
                 header, valid>>

Sleep ==
  /\ loop = "sleeping"
  /\ loop' = IF down THEN "stopped" ELSE "top"
  /\ UNCHANGED <<down, request, read, backoff, claims, rotation, staged, identity,
                 header, valid>>

-------------------------------------------------------------------------------
(* agent.token.rotate *)

\* The platform stages a token and sends it over the socket (external); the
\* previous one stays valid until the agent has authenticated with the new one.
\* The socket's event loop handles one event after the other.
Stage ==
  /\ staged < MaxRotations
  /\ rotation = "idle"
  /\ ~down
  /\ staged' = staged + 1
  /\ valid' = valid \cup {staged'}
  /\ rotation' = "received"
  /\ UNCHANGED <<down, loopVars, identity, header>>

\* persistIdentity, or its failure, which ends the handler.
Persist ==
  /\ rotation = "received"
  /\ rotation' \in {"persisted", "idle"}
  /\ UNCHANGED <<down, loopVars, staged, identity, header, valid>>

\* identity.Set ...
Install ==
  /\ rotation = "persisted"
  /\ identity' = staged
  /\ rotation' = "installed"
  /\ UNCHANGED <<down, loopVars, staged, header, valid>>

\* ... client.SetAgentToken ...
SetHeader ==
  /\ rotation = "installed"
  /\ header' = staged
  /\ rotation' = "reauthenticating"
  /\ UNCHANGED <<down, loopVars, staged, identity, valid>>

\* ... and agent.auth with the new token, which retires the others.
Reauthenticate ==
  /\ rotation = "reauthenticating"
  /\ valid' = {identity}
  /\ rotation' = "idle"
  /\ UNCHANGED <<down, loopVars, staged, identity, header>>

Shutdown ==
  /\ ~down
  /\ down' = TRUE
  /\ UNCHANGED <<loopVars, rotation, staged, identity, header, valid>>

-------------------------------------------------------------------------------
LoopStep ==
  \/ LoopEnd
  \/ FirstClaim
  \/ SecondClaim
  \/ Granted
  \/ Handle
  \/ Rejected
  \/ RefreshRead
  \/ RefreshSet
  \/ Unauthorized
  \/ StateConflict
  \/ NetworkError
  \/ OtherError
  \/ Sleep

RotationStep == Persist \/ Install \/ SetHeader \/ Reauthenticate

PollNext == LoopStep \/ RotationStep \/ Stage \/ Shutdown

PollSpec == PollInit /\ [][PollNext]_pollVars

\* A claim is answered or times out, a sleep ends, the handlers run.
PollFairSpec == PollSpec /\ WF_pollVars(LoopStep) /\ WF_pollVars(RotationStep)

-------------------------------------------------------------------------------
(* Properties *)

\* A second token is staged while the effects of the first one last.
Overtaken == staged > 1

\* Rotating the token does not end the claim loop: CHANGELOG.md:37, "an online
\* agent can persist a staged token and reauthenticate without manual
\* re-enrollment".  A second rotation while the refreshed claim is under way
\* does end it, for good: that claim is rejected, too.
PollingSurvivesRotation == loop = "stopped" => down \/ Overtaken

\* Every claim carries a token at least as new as the claim before it, even when
\* a rotation overtakes the refresh and the refresh puts an older header back.
ClaimsNeverOlder == [][request' >= request]_pollVars

\* The loop claims again and again, through errors and rejections, until the
\* agent is told to stop or a second rotation has ended it.
KeepsClaiming == []<>(down \/ loop = "claiming" \/ (loop = "stopped" /\ Overtaken))

===============================================================================
