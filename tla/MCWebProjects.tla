--------------------------- MODULE MCWebProjects ---------------------------
EXTENDS WebProjects

\* A viewer, an operator with what these pages ask for, the terminal of an
\* administrator, and the super administrator who may do everything.
HoldersDef ==
  {{}, {"deploy", "edit_compose", "edit_env", "manage_projects", "container_ops"},
   {"terminal", "admin", "manage_files"}, {"superadmin"}}

\* One request of the operator at a time where the server acts by itself.
Alone == {"deploy", "deployModal", "confirm", "env", "envTab", "pipeline"}

MaxRequestsDef ==
  [p \in Alone |-> 1] @@
  [p \in {"tags", "schedules", "compose", "composeTab", "deploySettings", "project",
          "overview", "newProject", "logs", "exec", "dashboard", "fileBrowser",
          "session", "nav"} |-> 2]
=============================================================================
