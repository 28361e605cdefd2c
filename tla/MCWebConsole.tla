---------------------------- MODULE MCWebConsole ----------------------------
EXTENDS WebConsole

\* A viewer, an operator with what the lists ask for, and the super administrator
\* who may do everything.
HoldersDef ==
  {{}, {"container_ops", "manage_images", "manage_network", "manage_proxy",
        "manage_dns"}, {"superadmin"}}

\* Two requests of the operator at a time, but where two more lists or a
\* background process would multiply them.
Pairs == {"images", "volumes", "roles", "sessions", "backups", "files",
          "traces", "database", "trafficLogs", "traffic", "audit"}

MaxRequestsDef ==
  [p \in Pairs |-> 2] @@
  [p \in {"trace", "containers", "networks", "proxyHosts", "nginxConfigs", "dns",
          "users", "backupSchedule", "viewer"} |-> 1]

\* Two files of one directory; the other is empty.
PathsDef == [dir : {"d"}, name : {"f", "g"}]
=============================================================================
