---------------------------- MODULE MCTaskCommands ----------------------------
EXTENDS TaskCommands, TLC

MCCommand(type, valid, root, scope, text) ==
  [type |-> type, valid |-> valid, root |-> root, scope |-> scope, text |-> text]

MCCommands ==
  {MCCommand("agent.update", TRUE, FALSE, "", "other"),
   MCCommand("packageInstall", TRUE, FALSE, "", "other"),
   MCCommand("shell.exec", TRUE, TRUE, "operational", "update"),
   MCCommand("shell.exec", TRUE, TRUE, "task", "other"),
   MCCommand("log.scan", TRUE, TRUE, "", "other")}

MCHosts == {[linux |-> TRUE, helpers |-> Helpers, sudo |-> TRUE],
            [linux |-> TRUE, helpers |-> Helpers \ {"task-root"}, sudo |-> FALSE]}

MCProfiles == {{}, {"operational", "task"}}

MCSymmetry == Permutations(Tasks)
===============================================================================
