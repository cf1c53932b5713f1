----------------------------- MODULE MCTaskService -----------------------------
(* Instances of TaskService for TLC. *)
EXTENDS TaskService, TLC

CONSTANTS h1, h2, t1, t2

HandlerSymmetry == Permutations({h1, h2})

===============================================================================
