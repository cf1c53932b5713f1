----------------------------- MODULE TaskContract -----------------------------
(***************************************************************************)
(* What the task service promises the platform, without goroutines,        *)
(* contexts or retries: a run of a task is claimed only while no other run  *)
(* of that task is unfinished, it executes at most once, it ends with one   *)
(* verdict that the facts justify, and the platform records each lifecycle  *)
(* report of a run at most once.                                           *)
(***************************************************************************)
EXTENDS TaskVocabulary

VARIABLES
  stage,     \* [Handlers -> Stages]: how far the run has come
  job,       \* [Handlers -> TaskIDs \cup {NoTask}]: the task of the run
  verdict,   \* [Handlers -> Verdicts \cup {NoVerdict}]
  reported,  \* [Handlers -> SUBSET Reports]: what the platform has recorded
  asked,     \* tasks the platform has asked to cancel
  down       \* the agent has been told to stop

vars == <<stage, job, verdict, reported, asked, down>>

Stages == {"free", "claimed", "executing", "finished", "released"}

Unfinished(h) == stage[h] \in {"claimed", "executing", "finished"}

Init ==
  /\ stage = [h \in Handlers |-> "free"]
  /\ job = [h \in Handlers |-> NoTask]
  /\ verdict = [h \in Handlers |-> NoVerdict]
  /\ reported = [h \in Handlers |-> {}]
  /\ asked = {}
  /\ down = FALSE

\* A run of t starts; never beside an unfinished run of the same task.
Claim(h, t) ==
  /\ stage[h] = "free"
  /\ \A g \in Handlers : Unfinished(g) => job[g] # t
  /\ stage' = [stage EXCEPT ![h] = "claimed"]
  /\ job' = [job EXCEPT ![h] = t]
  /\ UNCHANGED <<verdict, reported, asked, down>>

Execute(h) ==
  /\ stage[h] = "claimed"
  /\ stage' = [stage EXCEPT ![h] = "executing"]
  /\ UNCHANGED <<job, verdict, reported, asked, down>>

\* A verdict needs its cause: "cancelled" a request of the platform,
\* "canceled" the shutdown of the agent.
Justified(h, v) ==
  /\ v = "cancelled" => job[h] \in asked
  /\ v = "canceled" => down

Finish(h, v) ==
  /\ stage[h] = "executing"
  /\ Justified(h, v)
  /\ stage' = [stage EXCEPT ![h] = "finished"]
  /\ verdict' = [verdict EXCEPT ![h] = v]
  /\ UNCHANGED <<job, reported, asked, down>>

\* The platform records a report, possibly long after it was sent: accepted
\* and started once the run is claimed, a verdict once it is the run's.
Record(h, r) ==
  /\ stage[h] # "free"
  /\ r \notin reported[h]
  /\ r \in Verdicts => r = verdict[h]
  /\ reported' = [reported EXCEPT ![h] = @ \cup {r}]
  /\ UNCHANGED <<stage, job, verdict, asked, down>>

Release(h) ==
  /\ stage[h] = "finished"
  /\ stage' = [stage EXCEPT ![h] = "released"]
  /\ UNCHANGED <<job, verdict, reported, asked, down>>

AskCancel(t) ==
  /\ asked' = asked \cup {t}
  /\ UNCHANGED <<stage, job, verdict, reported, down>>

GoDown ==
  /\ down' = TRUE
  /\ UNCHANGED <<stage, job, verdict, reported, asked>>

Next ==
  \/ \E h \in Handlers, t \in TaskIDs : Claim(h, t)
  \/ \E h \in Handlers : Execute(h)
  \/ \E h \in Handlers, v \in Verdicts : Finish(h, v)
  \/ \E h \in Handlers, r \in Reports : Record(h, r)
  \/ \E h \in Handlers : Release(h)
  \/ \E t \in TaskIDs : AskCancel(t)
  \/ GoDown

Spec == Init /\ [][Next]_vars

===============================================================================
