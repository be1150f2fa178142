--------------------------- MODULE ClusterRequests ---------------------------
(* The requests about clusters, statistics, jobs, logs, alarms, reports and   *)
(* the controller (src/libs9s/s9srpcclient.cpp 571-3180, 6992-8200).  Each    *)
(* definition has the name of the function it models.                         *)
EXTENDS Composing

getCluster(o)        == Call(ForValidOrName(o), "getClusterInfo")
getSqlProcesses(o)   == Call(composeRequest(o), "getSqlProcesses")
getTopQueries(o)     == Call(composeRequest(o), "getTopQueries")
getClusters(o)       == IF GivenAny(o, {"cluster-id", "cluster-name"}) THEN getCluster(o)
                        ELSE Call(composeRequest(o), "getAllClusterInfo")
getDatabases(o)      == IF GivenAny(o, {"cluster-id", "cluster-name"})
                        THEN Call(ForIdOrName(o), "getClusterInfo")
                        ELSE Call(EmptyMap, "getAllClusterInfo")
getClusterInfoCacheStatistics(o) == Call(composeRequest(o), "getClusterInfoCacheStatistics")
getClusterConfig(o)  == Call(composeRequest(o), "getConfig")
setClusterConfig(o)  == Call(composeRequest(o), "setConfig")
pingCluster(o)       == Call(ForIdOrName(o), "ping")
pingController       == Call(EmptyMap, "ping")
getLdapConfig(o)     == Call(composeRequest(o), "getLdapConfig")
setLdapConfig(o)     == IF ~Given(o, "stdin:json") THEN RefuseBadOptions
                        ELSE Call(composeRequest(o), "setLdapConfig")

(* The configuration of one node.                                             *)
getConfig(o)   == IF Len(o.nodes) # 1 THEN RefuseQuietly ELSE Call(ForValid(o), "getConfig")
setConfig(o)   == IF Len(o.nodes) # 1 \/ ~Given(o, "opt-name") THEN RefuseBadOptions
                  ELSE Call(composeRequest(o), "setConfig")
unsetConfig(o) == IF Len(o.nodes) # 1 \/ ~Given(o, "opt-name") THEN RefuseBadOptions
                  ELSE Call(composeRequest(o), "unsetConfig")
setHostOf(o)   == IF Len(o.nodes) # 1 THEN RefuseQuietly ELSE Call(EmptyMap, "setHost")
setHost(o)     == IF o.nodes = << >> \/ ~Given(o, "properties") THEN RefuseBadOptions
                  ELSE setHostOf(o)

-----------------------------------------------------------------------------
(* Statistics, metatypes and processes.                                       *)
getCpuInfo(o)            == Call(ForCluster(o), "getCpuPhysicalInfo")
getInfo                  == Call(EmptyMap, "getInfo")
getStats(o)              == Call(ForIdOrName(o), "statByName")
getCpuStats(o)           == getStats(o)
getSqlStats(o)           == getStats(o)
getMemStats(o)           == getStats(o)
getMemoryStats(o)        == Call(ForCluster(o), "statByName")
getMetaTypes(o)          == Call(composeRequest(o), "getMetaTypes")
getMetaTypeProperties(o) == Call(composeRequest(o), "getMetaTypeInfo")
getRunningProcesses(o)   == Call(composeRequest(o), "getRunningProcesses")

-----------------------------------------------------------------------------
(* Jobs and their messages.  A job is named by its identifier alone.          *)
getJobInstances(o)    == Call([ForValidOrName(o) EXCEPT !.tags = Given(o, "with-tags")],
                              "getJobInstances")
getJobInstance        == Call(EmptyMap, "getJobInstance")
getJobInstanceForWait == Call(EmptyMap, "getJobInstance")
deleteJobInstance     == Call(EmptyMap, "deleteJobInstance")
killJobInstance       == Call(EmptyMap, "killJobInstance")
enableJobInstance     == Call(EmptyMap, "updateJobInstance")
disableJobInstance    == Call(EmptyMap, "updateJobInstance")
cloneJobInstance(o)   == Call(composeRequest(o), "cloneJobInstance")
getJobLog             == Call(EmptyMap, "getJobLog")
getLog(o)             == Call(composeRequest(o), IF Given(o, "message-id") THEN "getLogEntry"
                                                 ELSE "getLogEntries")
getLogStatistics      == Call(EmptyMap, "getLogStatistics")

-----------------------------------------------------------------------------
(* Alarms and reports.                                                        *)
getAlarms(o)          == Call([composeRequest(o) EXCEPT !.id = IF Given(o, "cluster-id")
                                                               THEN "own" ELSE @], "getAlarms")
getAlarm(o)           == Call(ForIdOrName(o), "getAlarm")
ignoreAlarm(o)        == IF ~Given(o, "alarm-id") THEN RefuseBadOptions
                         ELSE Call(ForIdOrName(o), "ignoreAlarm")
getAlarmStatistics(o) == Call(ForIdOrName(o), "getStatistics")
getReports(o)         == Call(ForIdOrName(o), "getReports")
getReportTemplates(o) == Call(ForIdOrName(o), "getReportTemplates")
generateReport(o)     == Call(ForIdOrName(o), "generateReport")
getReport(o)          == Call(ForIdOrName(o), "getReport")
deleteReport(o)       == Call(ForIdOrName(o), "deleteReport")

-----------------------------------------------------------------------------
(* Jobs of the controller and of a cluster.                                   *)
createSnapshotJob(o)      == Job(o, composeRequest(o), "cmon_ha_create_snapshot")
createFailJob(o)          == Job(o, composeRequest(o), "fail")
createSuccessJob(o)       == Job(o, composeRequest(o), "success")
executeSystemCommand(o)   == Job(o, ForValidOrName(o), "execute")
executeSystemScript(o)    == Job(o, ForValidOrName(o), "execute")
executeCdtEntryOf(o)      == Job(o, EmptyMap, "execute")
executeCdtEntry(o)        == IF o.extra # 1 THEN RefuseQuietly ELSE executeCdtEntryOf(o)
inspectHost(o)            == Job(o, EmptyMap, "inspect_host")
rollingRestart(o)         == Job(o, composeRequest(o), "rolling_restart")
setClusterReadOnly(o)     == BareJob(o, composeRequest(o), "enable_cluster_readonly")
disableClusterReadOnly(o) == BareJob(o, composeRequest(o), "disable_cluster_readonly")
importConfig(o) ==
    LET job == composeJob(o, composeRequest(o))
    IN  Send([job EXCEPT !.op = "createJobInstance", !.job = "import_config",
                         !.title = IF @ = "given" THEN @ ELSE "own"])
collectLogs(o)            == BareJob(o, composeRequest(o), "collect_logs")
enableSsl(o)              == Job(o, composeRequest(o), "setup_ssl")
disableSsl(o)             == Job(o, composeRequest(o), "setup_ssl")
saveCluster(o)            == Job(o, composeRequest(o), "save_cluster")
restoreCluster(o)         == Job(o, composeRequest(o), "restore_cluster")
saveController(o)         == Job(o, composeRequest(o), "save_controller")
restoreController(o)      == Job(o, composeRequest(o), "restore_controller")
setupAuditLogging(o)      == Job(o, ForCluster(o), "setup_audit_logging")
setupLogRotate(o)         == Job(o, ForCluster(o), "setup_logrotate")
createReport(o)           == Job(o, ForCluster(o), "error_report")
deployAgents(o)           == Job(o, ForCluster(o), "deploy_agents")
deployCmonAgents(o)       == Job(o, ForCluster(o), "deploy_cmonagents")
uninstallCmonAgents(o)    == IF Len(o.nodes) > 1 THEN RefuseQuietly
                             ELSE Job(o, ForCluster(o), "uninstall_cmonagents")
stopCluster(o)            == Job(o, composeRequest(o), "stop_cluster")
startCluster(o)           == Job(o, composeRequest(o), "start_cluster")
availableUpgrades(o)      == Call(composeRequest(o), "availableUpgrades")
upgradeCluster(o)         == Job(o, composeRequest(o), "upgrade_cluster")
checkPkgUpgrades(o)       == Job(o, composeRequest(o), "check_pkg_upgrades")
renewCert(o)              == Job(o, composeRequest(o), "renew_mssql_certificate")

(* The cluster to drop is in the data of the job: the job runs in cluster 0.  *)
dropCluster(o) ==
    LET job == composeJobData(o, composeJob(o, EmptyMap))
    IN  Send([job EXCEPT !.op = "createJobInstance", !.job = "remove_cluster",
                         !.title = IF Given(o, "title") THEN "own" ELSE @])

(* Without a node to check nothing is sent, and that is no error.             *)
checkHosts(o) == IF o.nodes = << >> THEN RefuseQuietly
                 ELSE Call(composeRequest(o), "checkHosts")
getSupportedClusterTypes == Call(EmptyMap, "getSupportedClusterTypes")
checkClusterName         == Call(EmptyMap, "checkClusterName")
getSshCredentials(o)     == IF o.nodes = << >> THEN RefuseQuietly
                            ELSE Call(composeRequest(o), "getSshCredentials")
syncClusters(o)          == BareJob(o, EmptyMap, "sync_clusters")
=============================================================================
