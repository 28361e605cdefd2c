-------------------------------- MODULE Api --------------------------------
(***************************************************************************)
(* What the web client may ask of the server: the calls of api/client.ts,  *)
(* by area, each with whether it changes something (its HTTP method) and    *)
(* the permission that internal/api/router.go puts in front of its route.   *)
(* "any" is any signed-in user, "public" anybody; "superadmin" and "admin"  *)
(* are roles.                                                               *)
(***************************************************************************)
EXTENDS FiniteSets, TLC

Reads(calls, need)  == {[call |-> c, write |-> FALSE, need |-> need] : c \in calls}
Writes(calls, need) == {[call |-> c, write |-> TRUE,  need |-> need] : c \in calls}

SessionApi ==
  Reads({"setupStatus", "oauthStatus"}, "public") \cup Reads({"me"}, "any")
  \cup Writes({"login", "logout", "setupCreate"}, "public")

UserApi ==
  Reads({"listUsers"}, "any") \cup Reads({"userAudit"}, "superadmin")
  \cup Writes({"createUser", "updateUser", "deleteUser"}, "superadmin")

RoleApi ==
  Reads({"listPermissions", "listRoles", "listSessions"}, "any")
  \cup Writes({"createRole", "updateRole", "deleteRole"}, "superadmin")
  \cup Writes({"revokeSession"}, "any")

ProjectApi ==
  Reads({"listProjects", "getProject"}, "any")
  \cup Writes({"syncAllProjects"}, "any")
  \cup Writes({"createProject", "updateProject", "deleteProject", "cloneProject"},
            "manage_projects")

ComposeApi ==
  Reads({"getCompose", "composeHistory", "getComposeServices"}, "any")
  \cup Writes({"saveCompose", "deleteComposeVersion"}, "edit_compose")

EnvApi ==
  Reads({"getEnv", "envHistory"}, "any")
  \cup Writes({"saveEnv", "restoreEnv", "deleteEnvVersion"}, "edit_env")

NginxApi ==
  Reads({"getNginxSystemStatus", "getSelfNginxConfig", "listAllNginx", "getNginx",
         "previewNginx"}, "any")
  \cup Reads({"listNginxCustom", "listAllNginxConfigs"}, "manage_proxy")
  \cup Writes({"nginxSystemControl", "saveNginxCustom", "deleteNginxCustom",
             "applySelfNginxConfig", "removeNginx", "saveNginx", "applyNginx",
             "generateCert"}, "manage_proxy")

ProxyApi ==
  Reads({"listProxyHosts", "testProxyHost", "serverIP"}, "any")
  \cup Writes({"createProxyHost", "previewProxyHost", "updateProxyHost",
             "toggleProxyHost", "deleteProxyHost"}, "manage_proxy")

DockerApi ==
  Reads({"listAllDockerNetworks", "listVolumes"}, "any")
  \cup Writes({"createDockerNetwork", "deleteDockerNetwork", "dockerNetworkConnect",
             "dockerNetworkDisconnect", "createVolume", "deleteVolume",
             "pruneVolumes"}, "manage_network")

DeployApi ==
  Reads({"listAllDeployments", "listDeployments", "getDeployment",
         "getDeploySettings", "listDeployTags"}, "any")
  \cup Writes({"triggerDeploy", "cancelDeploy", "deleteDeployment",
             "createDeployTag", "deleteDeployTag", "saveDeploySettings"}, "deploy")

ReleaseApi ==
  Reads({"deployMetrics", "deployDiff", "listScheduledDeploys"}, "any")
  \cup Writes({"rollback", "toggleTagProtected", "createScheduledDeploy",
             "deleteScheduledDeploy"}, "deploy")

ContainerApi ==
  Reads({"listContainers", "listAllContainers", "containerStats"}, "any")
  \cup Writes({"syncProjectStatus", "containerAction", "deleteContainer",
             "globalContainerAction"}, "container_ops")

ImageApi ==
  Reads({"listImages", "imageUsage"}, "any")
  \cup Writes({"loadImage", "syncImages", "deleteImage", "removeImageByRef"},
            "manage_images")

TerminalApi == Writes({"execCommand", "otpRequest", "otpVerify"}, "terminal")

FileApi ==
  Reads({"fileBrowse", "fileRead", "fileSearch"}, "manage_files")
  \cup Writes({"fileWrite", "fileMkdir", "fileRename", "fileDelete"}, "manage_files")

TrafficApi ==
  Reads({"traffic", "trafficConnections", "trafficLogs", "trafficLog"}, "any")
  \cup Writes({"clearTrafficLogs"}, "admin")

DnsApi ==
  Reads({"listDNSTickets", "getSMTPSettings"}, "any")
  \cup Writes({"createDNSTicket", "updateDNSTicket", "deleteDNSTicket",
             "sendDNSTicket"}, "manage_dns")
  \cup Writes({"saveSMTPSettings", "testSMTPSettings"}, "superadmin")

TraceApi ==
  Reads({"getTraceStatus", "listTraceSessions", "getTraceSession"}, "any")
  \cup Writes({"enableTrace", "disableTrace", "deleteTraceSession"}, "terminal")

OtelApi ==
  Reads({"otelStatus", "otelServices", "otelServiceStats", "otelOperations",
         "otelTraces", "otelTrace", "otelDatabase"}, "any")
  \cup Writes({"otelDeleteTraces"}, "admin")

AuditApi == Reads({"listAuditEvents"}, "admin")

AppLogApi ==
  Reads({"getAppLogs"}, "admin") \cup Writes({"clearAppLogs"}, "superadmin")

SettingsApi ==
  Reads({"getRetentionSettings", "getOAuthSettings"}, "any")
  \cup Writes({"saveRetentionSettings", "saveOAuthSettings"}, "superadmin")

StorageApi ==
  Reads({"systemDf", "listUploads"}, "any") \cup Reads({"storageOverview"}, "manage_files")
  \cup Writes({"pruneImages"}, "manage_images")
  \cup Writes({"uploadFile", "fileImport"}, "manage_files")

MaintenanceApi == Writes({"reconcile", "optimize"}, "system_maint")

PolicyApi ==
  Reads({"getTerminalPolicy"}, "terminal")
  \cup Writes({"saveTerminalPolicy"}, "superadmin")

UpdateApi ==
  Reads({"getUpdateStatus"}, "any") \cup Reads({"getScheduledUpdate"}, "superadmin")
  \cup Writes({"systemUpdate", "scheduleSystemUpdate", "cancelScheduledUpdate",
             "compactDB", "pruneAll"}, "superadmin")

PackageApi ==
  Reads({"packageStatus"}, "manage_packages")
  \cup Writes({"ensurePackageHolds", "installPackages", "fixBroken"}, "manage_packages")

BackupApi ==
  Reads({"listBackups", "inspectBackup", "getBackupSchedule"}, "manage_backups")
  \cup Writes({"createBackup", "deleteBackup"}, "manage_backups")
  \cup Writes({"restoreBackup", "saveBackupSchedule"}, "superadmin")

\* The routes of all areas, and the one of each call.
Routes ==
  SessionApi \cup UserApi \cup RoleApi \cup ProjectApi \cup ComposeApi \cup EnvApi
  \cup NginxApi \cup ProxyApi \cup DockerApi \cup DeployApi \cup ReleaseApi
  \cup ContainerApi \cup ImageApi \cup TerminalApi \cup FileApi \cup TrafficApi \cup DnsApi
  \cup TraceApi \cup OtelApi \cup UpdateApi \cup PackageApi \cup BackupApi
  \cup AuditApi \cup AppLogApi \cup SettingsApi \cup StorageApi \cup MaintenanceApi
  \cup PolicyApi

Api == [c \in {r.call : r \in Routes} |-> CHOOSE r \in Routes : r.call = c]
=============================================================================
