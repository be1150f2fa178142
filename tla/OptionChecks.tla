----------------------------- MODULE OptionChecks -----------------------------
(* Reading the command line: S9sOptions::readOptions() and the check of every *)
(* mode (src/libs9s/s9soptions.cpp).  A command line is a record              *)
(*   mode    the first argument that is not an option                         *)
(*   words   the long options in it                                           *)
(*   facts   what the checks and the requests ask of the arguments, in the    *)
(*           form "option:fact"                                               *)
(*   nodes, extra, type  as in Composing                                      *)
(* Reading it yields the exit status, whether to go on, and the record o the  *)
(* requests are composed from.                                                *)
EXTENDS OptionTables, Naturals

Modes == {"account", "alarm", "backup", "cloud-credentials", "cluster", "container",
          "controller", "pool-controllers", "dbschema", "dbversions", "event", "group", "job",
          "log", "maintenance", "metatype", "node", "process", "replication", "report",
          "script", "server", "sheet", "tree", "user", "watchlists", "none"}

(* The names of the modes.  Most have a plural that means the same; the one of *)
(* "controller" is taken for the servers.                                     *)
Plural == [accounts |-> "account", alarms |-> "alarm", backups |-> "backup",
           clusters |-> "cluster", containers |-> "container", controllers |-> "server",
           events |-> "event", groups |-> "group", jobs |-> "job", logs |-> "log",
           maint |-> "maintenance", maintenances |-> "maintenance", metatypes |-> "metatype",
           nodes |-> "node", processes |-> "process", replications |-> "replication",
           reports |-> "report", scripts |-> "script", servers |-> "server",
           sheets |-> "sheet", users |-> "user"]
setMode(name) == IF name \in DOMAIN Plural THEN Plural[name] ELSE name

(* The options that have both an entry in the table and a case in the switch. *)
Handled(mode) ==
    CASE mode = "account" -> AccountMain \cup AccountClient
      [] mode = "alarm" -> AlarmWords
      [] mode = "backup" -> BackupTable
      [] mode = "cloud-credentials" -> CloudCredentialsTable
      [] mode = "cluster" -> ClusterTable \ {"extended"}
      [] mode = "container" -> ContainerClient \cup ContainerMain
      [] mode = "controller" -> ControllerClient \cup ControllerMain
      [] mode = "pool-controllers" -> ControllersClient \cup ControllersMain \cup ControllersData
      [] mode = "dbschema" -> DbSchemaTable
      [] mode = "dbversions" -> DbVersionsTable
      [] mode = "event" -> EventClient \cup EventFilter
      [] mode = "group" -> GroupTable
      [] mode = "job" -> JobTable
      [] mode = "log" -> LogWords
      [] mode = "maintenance" -> MaintenanceClient \cup MaintenanceMain
      [] mode = "metatype" -> MetaTypeWords
      [] mode = "node" -> NodeTable
      [] mode = "process" -> ProcessTable
      [] mode = "replication" -> ReplicationTable
      [] mode = "report" -> ReportTable
      [] mode = "script" -> ScriptTable
      [] mode = "server" -> ServerTable
      [] mode = "sheet" -> SheetTable
      [] mode = "tree" -> TreeTable
      [] mode = "user" -> UserTable
      [] mode = "watchlists" -> WatchlistsTable
      [] mode = "none" -> NoModeTable

(* The key of m_options a word is stored under, where it is not its own name: *)
(* the last of them is never read.                                            *)
Key(mode, word) ==
    CASE word = "replication-slave" -> "slave"
      [] word = "replication-master" -> "master"
      [] word = "promote" -> "promote-slave"
      [] word = "forced" -> "force"
      [] word = "maintenance-minutes" -> "minutes"
      [] word = "snapshot-repo-type" -> "snapshot-repository-type"
      [] word \in {"redis-port", "valkey-port"} /\ mode = "cluster" ->
            IF word = "redis-port" THEN "redis-sharded-port" ELSE "valkey-sharded-port"
      [] word \in {"redis-bus-port", "valkey-bus-port"} ->
            IF word = "redis-bus-port" THEN "redis-sharded-bus-port" ELSE "valkey-sharded-bus-port"
      [] word = "config-file" /\ mode \notin {"cluster", "container", "job"} -> "config-file:unread"
      [] OTHER -> word

-----------------------------------------------------------------------------
(* The checks.  One(given, main): exactly one of the main options is given.  *)
OnlyOne(S)       == \E x \in S : S = {x}
One(given, main) == OnlyOne(given \cap main)

LogChecked(given)    == One(given, {"list", "create"})
EventChecked(given)  == One(given, {"list", "watch"})
AlarmChecked(given)  == One(given, {"list", "delete", "stat"})
ReportChecked(given) == One(given, {"list", "delete", "create", "cat", "list-templates"})
ReplicationChecked(given) ==
    One(given, {"list", "promote-slave", "stage", "toggle-sync", "start", "stop", "failover", "reset"})
DbSchemaChecked(given) ==
    One(given, {"calculate-dbgrowth", "dbgrowth"}) /\ "cluster-id" \in given
DbVersionsChecked(given) ==
    /\ One(given, {"list-versions", "cluster-types", "vendors"})
    /\ "list-versions" \in given => {"cluster-type", "vendor"} \subseteq given
CloudCredentialsChecked(given) ==
    /\ One(given, {"list", "delete", "create"})
    /\ "delete" \in given => {"credential-id", "cloud-provider"} \subseteq given
    /\ "create" \in given =>
          /\ {"name", "cloud-provider", "s3-access-key-id", "s3-secret-key", "s3-region"} \subseteq given
          /\ "cloud-provider:other" \notin given
          /\ "cloud-provider:s3" \in given => "endpoint" \in given
BackupChecked(given) ==
    /\ One(given, {"list", "list-databases", "list-files", "list-binlog-backups", "create",
                   "restore", "verify", "delete-old", "delete-all", "delete",
                   "save-cluster-info", "restore-cluster-info", "save-controller",
                   "restore-controller", "list-schedules", "delete-schedules",
                   "create-schedule", "create-snapshot-repository",
                   "list-snapshot-repository", "delete-snapshot-repository"})
    /\ "memory" \in given => "memory:none" \notin given
ContainerChecked(given) == One(given, {"list", "stat", "create", "delete", "stop", "start"})
NodeChecked(given) ==
    /\ One(given, {"list", "pull-config", "push-config", "set", "stat", "list-config",
                   "change-config", "unset-config", "start", "stop", "restart", "reboot",
                   "unregister", "inspect", "register", "set-read-only", "set-read-write",
                   "enable-binary-logging", "configure-wal"})
    /\ "configure-wal" \in given => /\ {"cluster-id", "nodes"} \subseteq given
                                    /\ given \cap {"summarize-wal", "archive-mode"} # {}
MaintenanceChecked(given) ==
    One(given, {"list", "current", "next", "create", "delete", "create-with-job"})
(* Preferences are set and deleted by two options together.                   *)
Preferences(given) == IF "preferences" \in given THEN given
                      ELSE given \ {"preferences-to-set", "preferences-to-delete"}
UserChecked(given) ==
    One(Preferences(given), {"list", "list-groups", "create", "delete", "set",
        "change-password", "whoami", "list-keys", "add-key", "stat", "enable", "set-group",
        "add-to-group", "remove-from-group", "password-reset", "preferences-to-set",
        "get-preferences", "preferences-to-delete", "disable"})
GroupChecked(given)   == One(given, {"list", "create", "delete"})
AccountChecked(given) ==
    One(given, {"list", "list-groups", "create", "grant", "revoke", "delete", "set",
                "change-password", "whoami", "list-keys", "add-key"})
ProcessChecked(given) ==
    One(given, {"list", "top", "list-queries", "top-queries", "list-digests", "top-digests"})
MetaTypeChecked(given) == One(given, {"list", "list-properties", "list-cluster-types"})
ScriptChecked(given)   == One(given, {"tree", "execute", "run", "system"})
(* The main options of a sheet are counted in an else-if chain: two of them   *)
(* count as one.                                                              *)
SheetChecked(given)    == given \cap {"list", "stat", "create", "edit"} # {}
(* Mistake: a new main option is forgotten here.                              *)
ServerCountedShort(given) ==
    One(given, {"delete", "create", "move", "register", "unregister", "list-containers",
                "list-partitions", "list-images", "list-regions", "list-memory", "get-acl",
                "add-acl", "list-processors", "list-subnets", "list-templates", "list-nics",
                "list-disks", "list", "stat", "start"})
ServerChecked(given) ==
    One(given, {"delete", "create", "move", "register", "unregister", "list-containers",
                "list-partitions", "list-images", "list-regions", "list-memory", "get-acl",
                "add-acl", "list-processors", "list-subnets", "list-templates", "list-nics",
                "list-disks", "list", "stat", "start", "stop"})
ControllerChecked(given) ==
    One(given, {"create-snapshot", "enable-cmon-ha", "list", "ping", "stat", "get-ldap-config",
                "get-cluster-info-cache-statistics", "set-ldap-config"})
TreeChecked(given, extra) ==
    /\ One(given, {"tree", "move", "get-acl", "cat", "access", "add-acl", "chown", "mkdir",
                   "touch", "rmdir", "save", "remove-acl", "list", "delete", "watch", "stat",
                   "add-tag", "remove-tag"})
    /\ "tree" \in given => extra <= 1
WatchlistsChecked(given) ==
    /\ One(given, {"list", "delete", "create", "update"})
    /\ given \cap {"delete", "update"} # {} => "watchlist-id" \in given
    /\ given \cap {"create", "update"} # {} => {"name", "clusters", "topics"} \subseteq given
ControllersChecked(given) ==
    /\ One(given, {"list", "assignment", "set-pool-mode", "unset-pool-mode", "add-controller",
                   "start", "stop", "remove-controller", "update-cmon",
                   "set-max-clusters-capacity"})
    /\ "conf-storage" \in given => "set-pool-mode" \in given
    /\ given \cap {"start", "stop", "remove-controller", "update-cmon"} # {} =>
          "controller-id" \in given

(* --revoke is not counted.                                                   *)
ClusterCounted ==
    {"list", "stat", "create", "sync", "ping", "promote-slave", "demote-node", "rolling-restart",
     "collect-logs", "import-config", "enable-ssl", "disable-ssl", "setup-audit-logging",
     "create-report", "deploy-agents", "setup-logrotate", "add-node", "reinstall-node",
     "reconfigure-node", "change-config", "remove-node", "drop", "stop", "start",
     "create-account", "grant", "check-hosts", "delete-account", "create-database",
     "delete-database", "available-upgrades", "upgrade-cluster", "check-pkg-upgrades",
     "list-databases", "list-config", "register", "set-read-only", "set-read-write",
     "enable-recovery", "disable-recovery", "usr1", "deploy-cmonagents",
     "uninstall-cmonagents", "add-publication", "modify-publication", "drop-publication",
     "list-publications", "add-subscription", "modify-subscription", "drop-subscription",
     "list-subscriptions", "renew-cert"}
ClusterChecked(given) == One(given, ClusterCounted) /\ "os-elevation:unknown" \notin given

(* --success and --fail hide what comes after them, --clone and --delete want *)
(* a job.  The first of these refusals sets no exit status.                   *)
JobFirst(given)  == given \cap {"list", "kill", "enable", "disable"}
JobLater(given)  ==
    IF "fail" \in given THEN {"fail"}
    ELSE IF "success" \in given THEN {"success"}
    ELSE IF "clone" \in given THEN {"clone"}
    ELSE given \cap {"log", "wait", "follow"}
JobQuiet(given)  ==
    /\ "job-id" \notin given
    /\ \/ "delete" \in given
       \/ "clone" \in given /\ JobLater(given) = {"clone"}
JobChecked(given) ==
    OnlyOne(JobFirst(given) \cup JobLater(given) \cup (given \cap {"delete"}))

-----------------------------------------------------------------------------
Checked(mode, given, extra) ==
    CASE mode = "account" -> AccountChecked(given)
      [] mode = "alarm" -> AlarmChecked(given)
      [] mode = "backup" -> BackupChecked(given)
      [] mode = "cloud-credentials" -> CloudCredentialsChecked(given)
      [] mode = "cluster" -> ClusterChecked(given)
      [] mode = "container" -> ContainerChecked(given)
      [] mode = "controller" -> ControllerChecked(given)
      [] mode = "pool-controllers" -> ControllersChecked(given)
      [] mode = "dbschema" -> DbSchemaChecked(given)
      [] mode = "dbversions" -> DbVersionsChecked(given)
      [] mode = "event" -> EventChecked(given)
      [] mode = "group" -> GroupChecked(given)
      [] mode = "job" -> JobChecked(given)
      [] mode = "log" -> LogChecked(given)
      [] mode = "maintenance" -> MaintenanceChecked(given)
      [] mode = "metatype" -> MetaTypeChecked(given)
      [] mode = "node" -> NodeChecked(given)
      [] mode = "process" -> ProcessChecked(given)
      [] mode = "replication" -> ReplicationChecked(given)
      [] mode = "report" -> ReportChecked(given)
      [] mode = "script" -> ScriptChecked(given)
      [] mode = "server" -> ServerChecked(given)
      [] mode = "sheet" -> SheetChecked(given)
      [] mode = "tree" -> TreeChecked(given, extra)
      [] mode = "user" -> UserChecked(given)
      [] mode = "watchlists" -> WatchlistsChecked(given)
      [] mode = "none" -> TRUE

(* readOptions(): the mode, its options, its checks (none with --help).       *)
GivenBy(line) == {Key(line.mode, w) : w \in line.words} \cup line.facts
readOptions(line) ==
    IF line.mode \notin Modes \/ ~(line.words \subseteq Handled(line.mode)) THEN "BadOptions"
    ELSE IF "help" \in line.words \/ line.mode = "none" THEN "go"
    ELSE IF line.mode = "job" /\ JobQuiet(GivenBy(line)) THEN "Ok"
    ELSE IF Checked(line.mode, GivenBy(line), line.extra) THEN "go"
    ELSE "BadOptions"
=============================================================================
