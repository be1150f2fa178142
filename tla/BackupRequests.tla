---------------------------- MODULE BackupRequests ----------------------------
(* The requests about backups, maintenance periods, recovery, the growth of   *)
(* databases, versions, cloud credentials, watchlists, the pool of            *)
(* controllers and logical replication (src/libs9s/s9srpcclient.cpp           *)
(* 9244-9840, 10918-12143 and 12174-12423).                                   *)
EXTENDS Composing

NamesCluster(o) == GivenAny(o, {"cluster-id", "cluster-name"})

(* composeBackupJob() gives up on a cloud backup it does not understand and   *)
(* returns a map without a job; its callers do not look.                      *)
CloudBackup(o)   == GivenAny(o, {"cloud-only", "cloud-provider", "s3-bucket"})
CloudComplete(o) == /\ {"cloud-provider", "credential-id", "s3-bucket"} \subseteq o.given
                    /\ ~Given(o, "cloud-provider:other")
composeBackupJob(o, map) ==
    IF CloudBackup(o) /\ ~CloudComplete(o) THEN map
    ELSE [composeJob(o, composeJobData(o, map)) EXCEPT !.job = "backup", !.title = "own"]

(* The recurrence belongs to the schedule, not to the backup.                 *)
createBackup(o) ==
    IF ~NamesCluster(o) \/ Len(o.nodes) > 1 THEN RefuseQuietly
    ELSE LET request == Op(composeBackupJob(o, composeRequest(o)), "createJobInstance")
         IN  Send([request EXCEPT !.scheduled = request.job # "none" /\ Given(o, "schedule")])
createBackupSchedule(o) ==
    IF ~NamesCluster(o) \/ ~Given(o, "recurrence") THEN RefuseQuietly
    ELSE Send([composeBackupJob(o, composeRequest(o)) EXCEPT
                   !.op = "scheduleBackup", !.scheduled = TRUE, !.title = "none"])
deleteBackupSchedule(o) == IF ~Given(o, "job-id") THEN RefuseQuietly
                           ELSE Call(EmptyMap, "deleteJobInstance")
createSnapshotRepository(o) ==
    IF NamesCluster(o)
       /\ {"snapshot-repository-type", "credential-id", "s3-bucket", "s3-region"} \subseteq o.given
    THEN Call(composeRequest(o), "snapshotRepository") ELSE RefuseQuietly
deleteSnapshotRepository(o) ==
    IF {"cluster-id", "snapshot-repository"} \subseteq o.given
    THEN Call(composeRequest(o), "deleteSnapshotRepository") ELSE RefuseQuietly
verifyBackup(o) ==
    IF {"backup-id", "test-server"} \subseteq o.given THEN JobOf(o, "verify_backup")
    ELSE RefuseQuietly
restoreBackup(o) ==
    IF Given(o, "pitr-stop-time:malformed") THEN RefuseQuietly ELSE JobOf(o, "restore_backup")
getBackups(o)         == Call(ForValid(o), "getBackups")
getBinlogBackups(o)   == Call(ForValid(o), "getBinlogBackups")
getBackupSchedules(o) == Call(ForValid(o), "getBackupSchedules")
getSnapshotRepositories(o) ==
    Call(ForValid(o), IF ForValid(o).id = "none" THEN "getAllSnapshotRepositories"
                      ELSE "getSnapshotRepositories")
deleteBackupRecord(o) ==
    IF {"backup-id", "backup-list"} \subseteq o.given \/ ~GivenAny(o, {"backup-id", "backup-list"})
    THEN RefuseQuietly
    ELSE Call(EmptyMap, IF Given(o, "backup-id") THEN "deleteBackupRecord" ELSE "deleteBackupList")
deleteOldBackups(o) == IF ~NamesCluster(o) THEN RefuseQuietly ELSE JobOf(o, "delete_old_backups")
deleteAllBackups(o) == IF ~Given(o, "db-cluster-id") THEN RefuseQuietly
                       ELSE JobOf(o, "delete_all_backups")

-----------------------------------------------------------------------------
(* Maintenance periods and automatic recovery.                                *)
createMaintenanceOfNodes(o)   == IF Len(o.nodes) # 1 THEN RefuseQuietly
                                 ELSE Call(EmptyMap, "addMaintenance")
createMaintenanceOfCluster(o) == Call(ForCluster(o), "addMaintenance")
createMaintenance(o)          == IF Given(o, "cluster-id") THEN createMaintenanceOfCluster(o)
                                 ELSE createMaintenanceOfNodes(o)
createMaintenanceWithJob(o)   == JobOf(o, "create_maintenance")
disableRecoveryWithJob(o)     == JobOf(o, "disable_recovery")
enableRecoveryWithJob(o)      == JobOf(o, "enable_recovery")
deleteMaintenanceOf(o)        == IF ~Given(o, "uuid") THEN RefuseQuietly
                                 ELSE Call(EmptyMap, "removeMaintenance")
deleteMaintenance(o)          == deleteMaintenanceOf(o)
getMaintenance                == Call(EmptyMap, "getMaintenance")
OfAtMostOneNode(o, op)        == IF Len(o.nodes) > 1 THEN RefuseBadOptions
                                 ELSE Call(ForCluster(o), op)
getCurrentMaintenance(o)      == OfAtMostOneNode(o, "getCurrentMaintenance")
getNextMaintenance(o)         == OfAtMostOneNode(o, "getNextMaintenance")

-----------------------------------------------------------------------------
(* The growth of databases, versions, cloud credentials and watchlists.       *)
calculateDbGrowth(o) == BareJob(o, IF Given(o, "cluster-id") THEN ForOption(o) ELSE ForZero,
                                "calculate_db_growth")
getDbGrowth(o)         == Call(ForOption(o), "getdbgrowth")
getDbVersions          == Call(EmptyMap, "getDbVersions")
getClusterTypes        == Call(EmptyMap, "getClusterTypes")
getVendors             == Call(EmptyMap, "getVendors")
listCloudCredentials   == Call(EmptyMap, "listCredentials")
createCloudCredentials == Call(EmptyMap, "addCredentials")
deleteCloudCredentials == Call(EmptyMap, "removeCredentials")
createWatchlist        == Call(EmptyMap, "createWatchlist")
updateWatchlist        == Call(EmptyMap, "updateWatchlist")
listWatchlists         == Call(EmptyMap, "listWatchlists")
deleteWatchlist        == Call(EmptyMap, "deleteWatchlist")

-----------------------------------------------------------------------------
(* The pool of controllers.                                                   *)
OfController(o, result) == IF ~Given(o, "controller-id") THEN RefuseBadOptions ELSE result
listControllers       == Call(EmptyMap, "listControllers")
assignedController(o) == IF clusterId(o) = "invalid" THEN RefuseBadOptions
                         ELSE Call(ForCluster(o), "assignedController")
setPoolMode           == Call(EmptyMap, "setPoolMode")
addNewController(o)   == IF Len(o.nodes) # 1 THEN RefuseBadOptions
                         ELSE Job(o, EmptyMap, "addController")
startController(o)    == OfController(o, Call(EmptyMap, "startController"))
stopController(o)     == OfController(o, Call(EmptyMap, "stopController"))
(* The error for a missing --controller-id does not keep the job from being   *)
(* registered.                                                                *)
removeController(o)   == Job(o, EmptyMap, "removeController")
updateCmon(o)         == OfController(o, Job(o, EmptyMap, "updateCmonVersion"))
setMaxClustersCapacity(o) == IF Given(o, "capacity:below-2") THEN RefuseBadOptions
                             ELSE Call(EmptyMap, "setmaxclusterscapacity")

-----------------------------------------------------------------------------
(* Logical replication: what each request needs on the command line.          *)
validateSubClusterRequestParams(o)  == GivenAny(o, {"subcluster-id", "subcluster-name"})
validatePublicationRequestParams(o) == /\ GivenAny(o, {"pub-db-name", "db-name"})
                                       /\ Given(o, "pub-name")
validateSubscriptionRequestParams(o, withPublication) ==
    /\ GivenAny(o, {"sub-db-name", "db-name"}) /\ Given(o, "sub-name")
    /\ withPublication => validatePublicationRequestParams(o)
Require(o, ok, op) == IF ok THEN Call(composeRequest(o), op) ELSE RefuseBadOptions

addPublication(o)    == Require(o, /\ validatePublicationRequestParams(o)
                                   /\ validateSubClusterRequestParams(o)
                                   /\ GivenAny(o, {"include-all-tables", "db-tables"}),
                                "createPublication")
modifyPublication(o) == Require(o, /\ validatePublicationRequestParams(o)
                                   /\ validateSubClusterRequestParams(o)
                                   /\ GivenAny(o, {"include-all-tables", "db-tables",
                                                   "new-pub-name"}),
                                "modifyPublication")
dropPublication(o)   == Require(o, /\ validatePublicationRequestParams(o)
                                   /\ validateSubClusterRequestParams(o), "dropPublication")
listPublications(o)  == Require(o, validateSubClusterRequestParams(o), "getPublications")
addSubscription(o)   == Require(o, /\ validateSubscriptionRequestParams(o, TRUE)
                                   /\ validateSubClusterRequestParams(o), "createSubscription")
modifySubscription(o) == Require(o, /\ validateSubscriptionRequestParams(o, FALSE)
                                    /\ validateSubClusterRequestParams(o)
                                    /\ GivenAny(o, {"new-sub-name", "enable", "disable"}),
                                 "modifySubscription")
dropSubscription(o)  == Require(o, /\ validateSubscriptionRequestParams(o, FALSE)
                                   /\ validateSubClusterRequestParams(o), "dropSubscription")
listSubscriptions(o) == Require(o, validateSubClusterRequestParams(o), "getSubscriptions")
=============================================================================
