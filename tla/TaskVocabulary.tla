---------------------------- MODULE TaskVocabulary ----------------------------
(***************************************************************************)
(* The names the task modules share: the runs of handleTask, the task       *)
(* identifiers, and the lifecycle reports an agent sends about a run        *)
(* (internal/tasks/http_events.go; a completion carries its status).        *)
(***************************************************************************)
EXTENDS Naturals, FiniteSets

CONSTANTS
  Handlers,  \* the goroutines of handleTask, each used for one dispatch
  TaskIDs    \* the task identifiers the platform can dispatch

NoTask == "none"
NoVerdict == "none"

\* The values taskStatus returns; "canceled" is a shutdown, "cancelled" a
\* request of the platform.
Verdicts == {"success", "cancelled", "timeout", "canceled", "failed"}

Reports == {"accepted", "started"} \cup Verdicts

===============================================================================
