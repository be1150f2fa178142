------------------------------- MODULE Dispatch -------------------------------
(* S9sBusinessLogic::execute() (src/libs9s/s9sbusinesslogic.cpp): in every    *)
(* mode the first main option of a chain decides which requests are sent and  *)
(* what becomes of their outcome:                                             *)
(*   Reported    setExitStatus() takes the exit status from the last reply    *)
(*   Silent      the reply is printed, or an error, and that is all           *)
(*   Own         an exit status of its own when the reply is no "ok"          *)
(*   Registered  maybeJobRegistered(): as Reported, and the job may be        *)
(*               waited for                                                   *)
(*   Again       asks once, or for ever with --wait                           *)
(*   Screen      an interactive program takes over                            *)
(*   Waited      waits for a job that exists                                  *)
(*   Unknown, UnknownBad  no branch of the chain                              *)
EXTENDS ClusterRequests, CreateRequests, NodeRequests, ObjectRequests, BackupRequests

Branch(kind, result) == [kind |-> kind, sent |-> result.sent, status |-> result.status]
Reported(result)   == Branch("reported", result)
Silent(result)     == Branch("silent", result)
Own(result)        == Branch("own", result)
Registered(result) == Branch("job", result)
Again(result)      == Branch("again", result)
Screen(result)     == Branch("screen", result)
Waited             == Branch("waited", RefuseQuietly)
Unknown            == Branch("unknown", RefuseQuietly)
UnknownBad         == Branch("unknown", RefuseBadOptions)
Nothing            == Silent(RefuseQuietly)
(* Two requests of one branch: the outcome of the first is not looked at.     *)
Then(first, second) == Result(first.sent \o second.sent, second.status)

-----------------------------------------------------------------------------
executeClusterPing(o)     == Again(pingCluster(o))
executeControllerPing     == Again(pingController)
executeScriptTree(o)      == Silent(treeScripts(o))
executeClusterList(o)     == Silent(getClusters(o))
executeNodeGraph(o)       == IF Given(o, "graph:unknown") THEN Nothing ELSE Reported(getStats(o))
executeNodeList(o)        == Reported(getClusters(o))
executeConfigList(o)      == Reported(getConfig(o))
executePullConfig(o)      == IF ~Given(o, "output-dir") THEN Nothing ELSE Silent(getConfig(o))
executeMaintenanceList    == Silent(getMaintenance)
executeMetaTypeList(o)    == Silent(getMetaTypes(o))
executeMetaTypePropertyList(o) == Silent(getMetaTypeProperties(o))
executeExecute(o)         == IF o.extra > 1 \/ Given(o, "script:unreadable") THEN Nothing
                             ELSE Silent(executeExternalScript(o))
executeSystemCommandOf(o) ==
    IF o.extra > 1 \/ (~Given(o, "shell-command") /\ Given(o, "script:unreadable")) THEN Nothing
    ELSE Registered(IF Given(o, "shell-command") THEN executeSystemCommand(o)
                    ELSE executeSystemScript(o))
executeNodeSet(o)         == Reported(setHost(o))
executeTop                == Screen(RefuseQuietly)
executeProcessList(o)     == Silent(getRunningProcesses(o))
executePrintKeys(o)       == Silent(getKeys(o))
printBackupSchedules(o)   == Reported(getBackupSchedules(o))
printSnapshotRepositories(o) == Reported(getSnapshotRepositories(o))
executeDeleteSnapshotRepository(o) == Reported(deleteSnapshotRepository(o))
executeBackupList(o)      == Reported(getBackups(o))
executeBinlogBackupList(o) == Reported(getBinlogBackups(o))
executeUserList(o)        == Silent(getUsers(o))
executeAccountList(o)     == Reported(Then(getClusters(o), getAccounts(o)))
executeGroupList          == Silent(getGroups)
executeJobList(o)         == Silent(IF Given(o, "job-id") THEN getJobInstance
                                    ELSE getJobInstances(o))
executeLogList(o)         == Reported(getLog(o))
executeJobLog             == Silent(getJobLog)
executeMaintenanceCreate(o) == Silent(createMaintenance(o))

-----------------------------------------------------------------------------
(* The chain of a mode: its main options in the order execute() asks for them. *)
ClusterOrder ==
    <<"ping", "list", "stat", "list-databases", "list-config", "change-config", "check-hosts",
      "create", "sync", "register", "rolling-restart", "enable-recovery", "disable-recovery",
      "set-read-only", "set-read-write", "import-config", "collect-logs", "enable-ssl",
      "disable-ssl", "setup-audit-logging", "setup-logrotate", "create-report",
      "deploy-agents", "deploy-cmonagents", "uninstall-cmonagents", "add-node",
      "reinstall-node", "reconfigure-node", "remove-node", "stop", "promote-slave",
      "demote-node", "start", "drop", "create-account", "grant", "revoke", "delete-account",
      "create-database", "delete-database", "add-publication", "modify-publication",
      "drop-publication", "list-publications", "add-subscription", "modify-subscription",
      "drop-subscription", "list-subscriptions", "available-upgrades", "upgrade-cluster",
      "check-pkg-upgrades", "renew-cert">>

RegisteredJob(o, b) ==
    CASE b = "create" -> createCluster(o)
      [] b = "sync" -> syncClusters(o)
      [] b = "register" -> registerCluster(o)
      [] b = "rolling-restart" -> rollingRestart(o)
      [] b = "enable-recovery" -> enableRecoveryWithJob(o)
      [] b = "disable-recovery" -> disableRecoveryWithJob(o)
      [] b = "set-read-only" -> setClusterReadOnly(o)
      [] b = "set-read-write" -> disableClusterReadOnly(o)
      [] b = "import-config" -> importConfig(o)
      [] b = "collect-logs" -> collectLogs(o)
      [] b = "enable-ssl" -> enableSsl(o)
      [] b = "disable-ssl" -> disableSsl(o)
      [] b = "setup-audit-logging" -> setupAuditLogging(o)
      [] b = "setup-logrotate" -> setupLogRotate(o)
      [] b = "create-report" -> createReport(o)
      [] b = "deploy-agents" -> deployAgents(o)
      [] b = "deploy-cmonagents" -> deployCmonAgents(o)
      [] b = "uninstall-cmonagents" -> uninstallCmonAgents(o)
      [] b = "add-node" -> createNode(o)
      [] b = "reinstall-node" -> reinstallNode(o)
      [] b = "reconfigure-node" -> reconfigureNode(o)
      [] b = "remove-node" -> removeNode(o)
      [] b = "stop" -> stopCluster(o)
      [] b = "promote-slave" -> promoteSlave(o)
      [] b = "demote-node" -> demoteNode(o)
      [] b = "start" -> startCluster(o)
      [] b = "drop" -> dropCluster(o)
      [] b = "delete-database" -> createDeleteDatabaseJob(o)
      [] b = "upgrade-cluster" -> upgradeCluster(o)
      [] b = "check-pkg-upgrades" -> checkPkgUpgrades(o)
      [] b = "renew-cert" -> renewCert(o)

DirectCall(o, b) ==
    CASE b = "list-databases" -> getDatabases(o)
      [] b = "list-config" -> getClusterConfig(o)
      [] b = "change-config" -> setClusterConfig(o)
      [] b = "create-account" -> createAccount(o)
      [] b = "grant" -> grantPrivileges(o)
      [] b = "revoke" -> revokePrivileges(o)
      [] b = "delete-account" -> deleteAccount(o)
      [] b = "create-database" -> createDatabase(o)
      [] b = "add-publication" -> addPublication(o)
      [] b = "modify-publication" -> modifyPublication(o)
      [] b = "drop-publication" -> dropPublication(o)
      [] b = "list-publications" -> listPublications(o)
      [] b = "add-subscription" -> addSubscription(o)
      [] b = "modify-subscription" -> modifySubscription(o)
      [] b = "drop-subscription" -> dropSubscription(o)
      [] b = "list-subscriptions" -> listSubscriptions(o)
      [] b = "available-upgrades" -> availableUpgrades(o)

DirectCalls == {"list-databases", "list-config", "change-config", "create-account", "grant",
                 "revoke", "delete-account", "create-database", "add-publication",
                 "modify-publication", "drop-publication", "list-publications",
                 "add-subscription", "modify-subscription", "drop-subscription",
                 "list-subscriptions", "available-upgrades"}
ClusterBranch(o, b) ==
    CASE b = "ping" -> executeClusterPing(o)
      [] b \in {"list", "stat"} -> executeClusterList(o)
      [] b = "check-hosts" -> Silent(checkHosts(o))
      [] b \in DirectCalls -> Reported(DirectCall(o, b))
      [] OTHER -> Registered(RegisteredJob(o, b))

-----------------------------------------------------------------------------
NodeOrder ==
    <<"stat", "list", "set", "list-config", "change-config", "unset-config", "pull-config",
      "start", "stop", "restart", "reboot", "register", "unregister", "inspect",
      "set-read-only", "enable-binary-logging", "configure-wal", "set-read-write">>
NodeBranch(o, b) ==
    CASE b = "stat" /\ Given(o, "graph") -> executeNodeGraph(o)
      [] b = "list" \/ (b = "stat" /\ ~Given(o, "graph")) -> executeNodeList(o)
      [] b = "set" -> executeNodeSet(o)
      [] b = "list-config" -> executeConfigList(o)
      [] b = "change-config" -> Reported(setConfig(o))
      [] b = "unset-config" -> Reported(unsetConfig(o))
      [] b = "pull-config" -> executePullConfig(o)
      [] b = "start" -> Registered(startNode(o))
      [] b = "stop" -> Registered(stopNode(o))
      [] b = "restart" -> Registered(restartNode(o))
      [] b = "reboot" -> Registered(rebootHost(o))
      [] b = "register" -> Registered(registerHost(o))
      [] b = "unregister" -> Reported(unregisterHost(o))
      [] b = "inspect" -> Registered(inspectHost(o))
      [] b = "set-read-only" -> Registered(setNodeReadOnly(o))
      [] b = "enable-binary-logging" -> Registered(enableBinaryLogging(o))
      [] b = "configure-wal" -> Registered(configureWal(o))
      [] b = "set-read-write" -> Registered(setNodeReadWrite(o))

TreeOrder ==
    <<"list", "tree", "access", "cat", "stat", "watch", "get-acl", "add-acl", "add-tag",
      "remove-tag", "remove-acl", "chown", "mkdir", "save", "rmdir", "touch", "delete", "move">>
TreeBranch(o, b) ==
    CASE b \in {"list", "tree"} -> Silent(getTree)
      [] b = "access" -> Reported(checkAccess(o))
      [] b = "cat" -> Reported(cat(o))
      [] b = "stat" -> Reported(getObject(o))
      [] b = "watch" -> Screen(RefuseQuietly)
      [] b = "get-acl" -> Reported(getAcl(o))
      [] b = "add-acl" -> Reported(addAcl(o))
      [] b = "add-tag" -> Reported(addTag(o))
      [] b = "remove-tag" -> Reported(removeTag(o))
      [] b = "remove-acl" -> Reported(removeAcl(o))
      [] b = "chown" -> Reported(chOwn(o))
      [] b = "mkdir" -> Reported(mkdir(o))
      [] b = "save" -> Reported(setContent(o))
      [] b = "rmdir" -> Reported(rmdir(o))
      [] b = "touch" -> Reported(mkfile(o))
      [] b = "delete" -> Reported(deleteFromTree(o))
      [] b = "move" -> Reported(renameOrMove(o))

ControllerOrder == <<"ping", "create-snapshot", "enable-cmon-ha", "list", "stat",
                     "get-cluster-info-cache-statistics", "get-ldap-config", "set-ldap-config">>
ControllerBranch(o, b) ==
    CASE b = "ping" -> executeControllerPing
      [] b = "create-snapshot" -> Registered(createSnapshotJob(o))
      [] b = "enable-cmon-ha" -> Reported(enableCmonHa)
      [] b \in {"list", "stat"} -> Reported(getControllers)
      [] b = "get-cluster-info-cache-statistics" -> Reported(getClusterInfoCacheStatistics(o))
      [] b = "get-ldap-config" -> Reported(getLdapConfig(o))
      [] b = "set-ldap-config" -> Reported(setLdapConfig(o))

ServerOrder ==
    <<"create", "get-acl", "add-acl", "start", "stop", "register", "unregister", "delete",
      "list", "stat", "list-partitions", "list-memory", "list-subnets", "list-templates",
      "list-images", "list-regions", "list-processors", "list-nics", "list-disks",
      "list-containers">>
ServerBranch(o, b) ==
    CASE b = "create" -> Registered(createServer(o))
      [] b = "get-acl" -> Reported(getAcl(o))
      [] b = "add-acl" -> Reported(addAcl(o))
      [] b = "start" -> Reported(startServers)
      [] b = "stop" -> Reported(stopServers)
      [] b = "register" -> Reported(registerServers)
      [] b = "unregister" -> Reported(unregisterServers)
      [] b = "delete" -> Reported(deleteFromTree(o))
      [] b = "list-containers" -> Reported(getContainers)
      [] OTHER -> Reported(getServers)

ContainerOrder == <<"list", "stat", "create", "delete", "stop", "start">>
ContainerBranch(o, b) ==
    CASE b \in {"list", "stat"} -> Reported(getContainers)
      [] b = "create" -> Registered(createContainerWithJob(o))
      [] b = "delete" -> Registered(deleteContainerWithJob(o))
      [] b = "stop" -> Registered(stopContainerWithJob(o))
      [] b = "start" -> Registered(startContainerWithJob(o))

JobOrder == <<"list", "fail", "success", "clone", "log", "wait", "follow", "delete", "enable",
              "disable", "kill">>
JobBranch(o, b) ==
    CASE b = "list" -> executeJobList(o)
      [] b = "fail" -> Registered(createFailJob(o))
      [] b = "success" -> Registered(createSuccessJob(o))
      [] b = "clone" -> Registered(cloneJobInstance(o))
      [] b = "log" -> executeJobLog
      [] b \in {"wait", "follow"} -> Waited
      [] b = "delete" -> Reported(deleteJobInstance)
      [] b = "enable" -> Own(enableJobInstance)
      [] b = "disable" -> Own(disableJobInstance)
      [] b = "kill" -> Reported(killJobInstance)

BackupOrder ==
    <<"list", "list-files", "list-databases", "list-binlog-backups", "create-schedule",
      "list-schedules", "delete-schedules", "create-snapshot-repository",
      "list-snapshot-repository", "delete-snapshot-repository", "create", "verify",
      "delete-old", "delete-all", "restore", "delete", "save-cluster-info",
      "restore-cluster-info", "save-controller", "restore-controller">>
BackupBranch(o, b) ==
    CASE b \in {"list", "list-files", "list-databases"} -> executeBackupList(o)
      [] b = "list-binlog-backups" -> executeBinlogBackupList(o)
      [] b = "create-schedule" -> Reported(createBackupSchedule(o))
      [] b = "list-schedules" -> printBackupSchedules(o)
      [] b = "delete-schedules" -> Silent(deleteBackupSchedule(o))
      [] b = "create-snapshot-repository" -> Reported(createSnapshotRepository(o))
      [] b = "list-snapshot-repository" -> printSnapshotRepositories(o)
      [] b = "delete-snapshot-repository" -> executeDeleteSnapshotRepository(o)
      [] b = "create" -> Registered(createBackup(o))
      [] b = "verify" -> Registered(verifyBackup(o))
      [] b = "delete-old" -> Registered(deleteOldBackups(o))
      [] b = "delete-all" -> Registered(deleteAllBackups(o))
      [] b = "restore" -> Registered(restoreBackup(o))
      [] b = "delete" -> Reported(deleteBackupRecord(o))
      [] b = "save-cluster-info" -> Registered(saveCluster(o))
      [] b = "restore-cluster-info" -> Registered(restoreCluster(o))
      [] b = "save-controller" -> Registered(saveController(o))
      [] b = "restore-controller" -> Registered(restoreController(o))

-----------------------------------------------------------------------------
LogBranch(o, b)   == executeLogList(o)
SheetOrder        == <<"list", "stat", "create", "edit">>
SheetBranch(o, b) ==
    CASE b = "list" -> Silent(getSpreadsheets(o))
      [] b = "stat" -> Silent(getSpreadsheet(o))
      [] b = "create" -> Reported(createSpreadsheet(o))
      [] b = "edit" -> IF o.extra # 1 THEN Nothing ELSE Screen(RefuseQuietly)
EventBranch(o, b) == Screen(RefuseQuietly)
ScriptOrder       == <<"tree", "execute", "run", "system">>
ScriptBranch(o, b) ==
    CASE b = "tree" -> executeScriptTree(o)
      [] b = "execute" -> executeExecute(o)
      [] b = "run" -> Registered(executeCdtEntry(o))
      [] b = "system" -> executeSystemCommandOf(o)
AlarmOrder        == <<"list", "stat", "delete">>
AlarmBranch(o, b) ==
    CASE b = "list" -> Reported(getAlarms(o))
      [] b = "stat" -> Reported(getAlarmStatistics(o))
      [] b = "delete" -> Reported(ignoreAlarm(o))
ProcessOrder      == <<"list", "top", "top-queries", "list-queries", "list-digests">>
ProcessBranch(o, b) ==
    CASE b = "list" -> executeProcessList(o)
      [] b \in {"top", "top-queries"} -> executeTop
      [] b = "list-queries" -> Reported(getSqlProcesses(o))
      [] b = "list-digests" -> Reported(getTopQueries(o))

UserOrder ==
    <<"whoami", "list", "stat", "list-groups", "set", "delete", "disable", "enable",
      "change-password", "list-keys", "add-key", "add-to-group", "remove-from-group",
      "set-group", "password-reset", "preferences-to-set", "get-preferences",
      "preferences-to-delete", "create">>
UserBranch(o, b) ==
    CASE b = "whoami" -> Silent(whoAmI)
      [] b \in {"list", "stat"} -> executeUserList(o)
      [] b = "list-groups" -> executeGroupList
      [] b = "set" -> Reported(setUser(o))
      [] b = "delete" -> Reported(deleteUser(o))
      [] b = "disable" -> Reported(disableUser(o))
      [] b = "enable" -> Reported(enableUser(o))
      [] b = "change-password" -> Reported(setPassword(o))
      [] b = "list-keys" -> executePrintKeys(o)
      [] b = "add-key" -> Reported(addKey(o))
      [] b = "add-to-group" -> Reported(addToGroup(o))
      [] b = "remove-from-group" -> Reported(removeFromGroup(o))
      [] b = "set-group" -> Reported(setGroup(o))
      [] b = "password-reset" -> Reported(resetPassword)
      [] b = "preferences-to-set" -> Reported(setUserPreferences(o))
      [] b = "get-preferences" -> Reported(getUserPreferences)
      [] b = "preferences-to-delete" -> Reported(deleteUserPreferences(o))
      [] b = "create" -> Reported(createUser)

GroupOrder        == <<"list", "create", "delete">>
GroupBranch(o, b) ==
    CASE b = "list" -> executeGroupList
      [] b = "create" -> Reported(createGroup(o))
      [] b = "delete" -> Reported(deleteGroup(o))
AccountOrder      == <<"list", "create", "grant", "revoke", "delete">>
AccountBranch(o, b) ==
    CASE b = "list" -> executeAccountList(o)
      [] b = "create" -> Reported(createAccount(o))
      [] b = "grant" -> Reported(grantPrivileges(o))
      [] b = "revoke" -> Reported(revokePrivileges(o))
      [] b = "delete" -> Reported(deleteAccount(o))
MaintenanceOrder  == <<"current", "next", "list", "create", "delete", "create-with-job">>
MaintenanceBranch(o, b) ==
    CASE b = "current" -> Silent(getCurrentMaintenance(o))
      [] b = "next" -> Silent(getNextMaintenance(o))
      [] b = "list" -> executeMaintenanceList
      [] b = "create" -> executeMaintenanceCreate(o)
      [] b = "delete" -> Reported(deleteMaintenance(o))
      [] b = "create-with-job" -> Registered(createMaintenanceWithJob(o))
MetaTypeOrder     == <<"list", "list-properties", "list-cluster-types">>
MetaTypeBranch(o, b) ==
    CASE b = "list" -> executeMetaTypeList(o)
      [] b = "list-properties" -> executeMetaTypePropertyList(o)
      [] b = "list-cluster-types" -> Silent(getSupportedClusterTypes)
ReportOrder       == <<"list", "list-templates", "create", "cat", "delete">>
ReportBranch(o, b) ==
    CASE b = "list" -> Reported(getReports(o))
      [] b = "list-templates" -> Reported(getReportTemplates(o))
      [] b = "create" -> Reported(generateReport(o))
      [] b = "cat" -> Reported(getReport(o))
      [] b = "delete" -> Reported(deleteReport(o))
ReplicationOrder  == <<"list", "stop", "start", "failover", "stage", "toggle-sync",
                       "promote-slave", "reset">>
ReplicationBranch(o, b) ==
    CASE b = "list" -> Silent(getClusters(o))
      [] b = "stop" -> Registered(stopSlave(o))
      [] b = "start" -> Registered(startSlave(o))
      [] b = "failover" -> Registered(failoverMaster(o))
      [] b = "stage" -> Registered(stageSlave(o))
      [] b = "toggle-sync" -> Registered(toggleSync(o))
      [] b = "promote-slave" -> Registered(promoteReplicationSlave(o))
      [] b = "reset" -> Registered(resetSlave(o))
DbSchemaOrder     == <<"calculate-dbgrowth", "dbgrowth">>
DbSchemaBranch(o, b) ==
    IF b = "dbgrowth" THEN Silent(getDbGrowth(o)) ELSE Registered(calculateDbGrowth(o))
DbVersionsOrder   == <<"list-versions", "cluster-types", "vendors">>
DbVersionsBranch(o, b) ==
    CASE b = "list-versions" -> Silent(getDbVersions)
      [] b = "cluster-types" -> Silent(getClusterTypes)
      [] b = "vendors" -> Silent(getVendors)
CloudCredentialsOrder == <<"create", "list", "delete">>
CloudCredentialsBranch(o, b) ==
    CASE b = "create" -> Silent(createCloudCredentials)
      [] b = "list" -> Silent(listCloudCredentials)
      [] b = "delete" -> Silent(deleteCloudCredentials)
WatchlistsOrder   == <<"create", "update", "list", "delete">>
WatchlistsBranch(o, b) ==
    CASE b = "create" -> Silent(createWatchlist)
      [] b = "update" -> Silent(updateWatchlist)
      [] b = "list" -> Silent(listWatchlists)
      [] b = "delete" -> Silent(deleteWatchlist)
ControllersOrder  ==
    <<"list", "assignment", "set-pool-mode", "unset-pool-mode", "add-controller", "start",
      "stop", "remove-controller", "update-cmon", "set-max-clusters-capacity">>
ControllersBranch(o, b) ==
    CASE b = "list" -> Silent(listControllers)
      [] b = "assignment" -> Silent(assignedController(o))
      [] b \in {"set-pool-mode", "unset-pool-mode"} -> Own(setPoolMode)
      [] b = "add-controller" -> Registered(addNewController(o))
      [] b = "start" -> Own(startController(o))
      [] b = "stop" -> Own(stopController(o))
      [] b = "remove-controller" -> Registered(removeController(o))
      [] b = "update-cmon" -> Registered(updateCmon(o))
      [] b = "set-max-clusters-capacity" -> Own(setMaxClustersCapacity(o))

-----------------------------------------------------------------------------
Order(mode) ==
    CASE mode = "account" -> AccountOrder
      [] mode = "alarm" -> AlarmOrder
      [] mode = "backup" -> BackupOrder
      [] mode = "cloud-credentials" -> CloudCredentialsOrder
      [] mode = "cluster" -> ClusterOrder
      [] mode = "container" -> ContainerOrder
      [] mode = "controller" -> ControllerOrder
      [] mode = "pool-controllers" -> ControllersOrder
      [] mode = "dbschema" -> DbSchemaOrder
      [] mode = "dbversions" -> DbVersionsOrder
      [] mode = "event" -> <<"list", "watch">>
      [] mode = "group" -> GroupOrder
      [] mode = "job" -> JobOrder
      [] mode = "log" -> <<"list">>
      [] mode = "maintenance" -> MaintenanceOrder
      [] mode = "metatype" -> MetaTypeOrder
      [] mode = "node" -> NodeOrder
      [] mode = "process" -> ProcessOrder
      [] mode = "replication" -> ReplicationOrder
      [] mode = "report" -> ReportOrder
      [] mode = "script" -> ScriptOrder
      [] mode = "server" -> ServerOrder
      [] mode = "sheet" -> SheetOrder
      [] mode = "tree" -> TreeOrder
      [] mode = "user" -> UserOrder
      [] mode = "watchlists" -> WatchlistsOrder
      [] mode = "none" -> << >>

(* The main option whose branch is taken, "none" when the chain has none.     *)
MainOption(o) ==
    LET order == Order(o.mode)
        given == {i \in DOMAIN order : Given(o, order[i])}
    IN  IF given = {} THEN "none" ELSE order[CHOOSE i \in given : \A j \in given : i <= j]

BranchOf(o, b) ==
    CASE b = "none" -> IF o.mode \in {"backup", "account"} THEN UnknownBad
                       ELSE IF o.mode = "user" THEN Reported(createUser) ELSE Unknown
      [] b # "none" ->
    CASE o.mode = "account" -> AccountBranch(o, b)
      [] o.mode = "alarm" -> AlarmBranch(o, b)
      [] o.mode = "backup" -> BackupBranch(o, b)
      [] o.mode = "cloud-credentials" -> CloudCredentialsBranch(o, b)
      [] o.mode = "cluster" -> ClusterBranch(o, b)
      [] o.mode = "container" -> ContainerBranch(o, b)
      [] o.mode = "controller" -> ControllerBranch(o, b)
      [] o.mode = "pool-controllers" -> ControllersBranch(o, b)
      [] o.mode = "dbschema" -> DbSchemaBranch(o, b)
      [] o.mode = "dbversions" -> DbVersionsBranch(o, b)
      [] o.mode = "event" -> EventBranch(o, b)
      [] o.mode = "group" -> GroupBranch(o, b)
      [] o.mode = "job" -> JobBranch(o, b)
      [] o.mode = "log" -> LogBranch(o, b)
      [] o.mode = "maintenance" -> MaintenanceBranch(o, b)
      [] o.mode = "metatype" -> MetaTypeBranch(o, b)
      [] o.mode = "node" -> NodeBranch(o, b)
      [] o.mode = "process" -> ProcessBranch(o, b)
      [] o.mode = "replication" -> ReplicationBranch(o, b)
      [] o.mode = "report" -> ReportBranch(o, b)
      [] o.mode = "script" -> ScriptBranch(o, b)
      [] o.mode = "server" -> ServerBranch(o, b)
      [] o.mode = "sheet" -> SheetBranch(o, b)
      [] o.mode = "tree" -> TreeBranch(o, b)
      [] o.mode = "user" -> UserBranch(o, b)
      [] o.mode = "watchlists" -> WatchlistsBranch(o, b)
=============================================================================
