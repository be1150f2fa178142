----------------------------- MODULE OptionTables -----------------------------
(* The options every mode of the program understands                          *)
(* (src/libs9s/s9soptions.cpp, the readOptions functions).  Each of those     *)
(* functions has a table for getopt_long() and a switch with a case for every *)
(* option.  The sets below follow the switch: they name the options of a part *)
(* of it that are in the table as well.  What the table adds to them has no   *)
(* case: getopt_long() takes it and the switch refuses it.  The arguments are *)
(* well formed, and long options are written in full.                         *)

(* The options of every mode.                                                 *)
Usual == {"batch", "cmon-user", "color", "controller", "debug", "help", "long", "password",
          "print-json", "print-request", "verbose", "version"}

NodeClient ==
    {"help", "debug", "verbose", "version", "cmon-user", "password", "private-key-file",
     "controller", "long"}
NodeMain ==
    {"list", "stat", "set", "set-read-only", "set-read-write", "start", "stop", "restart",
     "reboot", "list-config", "change-config", "unset-config", "enable-binary-logging",
     "configure-wal", "archive-mode", "summarize-wal", "inspect", "pull-config",
     "push-config", "register", "unregister"}
NodeJob ==
    {"config-file", "wait", "log", "batch", "no-header", "only-ascii", "density",
     "schedule", "recurrence", "refresh", "job-tags", "timeout", "color", "print-json",
     "print-request", "rpc-tls"}
NodeData ==
    {"cluster-id", "cluster-name", "properties", "nodes", "opt-group", "opt-name",
     "opt-value", "output-dir", "force", "bootstrap", "initial-start", "node-format",
     "graph", "begin", "end", "virtual-ip", "eth-interface", "virtual-router-id",
     "admin-user", "admin-password", "monitor-user", "monitor-password",
     "dont-import-accounts", "master-delay"}
NodeTable == NodeClient \cup NodeMain \cup NodeJob \cup NodeData

BackupClient ==
    {"help", "debug", "dry", "verbose", "version", "cmon-user", "password",
     "private-key-file", "controller", "long"}
BackupMain ==
    {"list", "list-files", "list-binlog-backups", "list-schedules", "delete-schedules",
     "job-id", "list-databases", "wait", "job-tags", "log", "batch", "no-header",
     "create", "create-schedule", "restore-cluster-info", "restore-controller", "restore",
     "save-cluster-info", "save-controller", "verify", "delete", "delete-old",
     "delete-all", "db-cluster-id", "forced"}
BackupJob ==
    {"config-file", "date-format", "color", "human-readable", "time-style", "print-json",
     "print-request", "rpc-tls", "cluster-id", "cluster-name", "nodes", "schedule",
     "recurrence", "timeout"}
BackupData ==
    {"backup-id", "backup-list", "backup-datadir", "backup-method", "backup-path",
     "backup-source-address", "backup-directory", "backup-retention", "cloud-retention",
     "safety-copies", "backup-user", "backup-password", "encrypt-backup",
     "no-compression", "compression-level", "use-pigz", "no-install", "no-terminate",
     "on-node", "on-controller", "databases", "exclude-tables", "include-tables",
     "schemas", "exclude-schemas", "schema-only", "data-only", "no-owner", "no-privileges"}
BackupStorage ==
    {"parallellism", "pitr-compatible", "keep-temp-dir", "temp-dir-path", "datadir",
     "snapshot-repository", "snapshot-repo-type", "snapshot-location", "storage-host"}
BackupCloud ==
    {"create-snapshot-repository", "list-snapshot-repository",
     "delete-snapshot-repository", "credential-id", "s3-bucket", "s3-region",
     "cloud-only", "delete-after-upload", "cloud-provider", "subdirectory", "full-path",
     "memory", "backup-format", "title", "to-individual-files", "test-server",
     "output-file", "input-file", "pitr-stop-time", "cluster-decryption-key", "db-admin",
     "db-admin-passwd"}
BackupTable == BackupClient \cup BackupMain \cup BackupJob \cup BackupData \cup
    BackupStorage \cup BackupCloud

LogWords == Usual \cup
    {"warning", "private-key-file", "list", "config-file", "wait", "no-header", "rpc-tls",
     "cluster-id", "cluster-name", "from", "until", "limit", "offset", "log-format-file",
     "log-format", "message-id"}
LogTable == LogWords \cup {"nodes", "log"}

EventClient == Usual \cup
    {"private-key-file", "list", "watch", "config-file", "output-file", "input-file",
     "no-header", "human-readable", "rpc-tls", "cluster-id", "cluster-name"}
EventFilter ==
    {"with-event-cluster", "with-event-job", "with-event-host", "with-event-maintenance",
     "with-event-alarm", "with-event-file", "with-event-debug", "with-event-log",
     "with-no-name-events", "with-created-events", "with-destroyed-events",
     "with-changed-events", "with-started-events", "with-ended-events",
     "with-state-changed-events", "with-user-message-events", "with-log-message-events",
     "with-measurements-events", "no-no-name-events", "no-created-events",
     "no-destroyed-events", "no-changed-events", "no-started-events", "no-ended-events",
     "no-state-changed-events", "no-user-message-events", "no-log-message-events",
     "no-measurements-events"}
EventTable == EventClient \cup EventFilter \cup {"nodes"}

AlarmWords == Usual \cup
    {"private-key-file", "config-file", "no-header", "human-readable", "rpc-tls",
     "cluster-id", "cluster-name", "list", "delete", "stat", "alarm-id"}
AlarmTable == AlarmWords \cup {"nodes", "output-file", "input-file"}

ReportWords == Usual \cup
    {"private-key-file", "config-file", "no-header", "human-readable", "rpc-tls",
     "cluster-id", "cluster-name", "report-id", "cat", "create", "delete", "list",
     "list-templates", "type"}
ReportTable == ReportWords

ReplicationClient == Usual \cup
    {"private-key-file", "config-file", "no-header", "human-readable", "rpc-tls",
     "cluster-id", "cluster-name", "remote-cluster-id", "backup-id"}
ReplicationMain ==
    {"failover", "list", "promote", "reset", "stage", "synchronous", "toggle-sync",
     "start", "stop", "force", "job-tags", "log", "recurrence", "refresh", "schedule",
     "timeout", "wait", "link-format", "master", "replication-master",
     "replication-slave", "slave", "fail-stop-slave"}
ReplicationTable == ReplicationClient \cup ReplicationMain

DbSchemaClient == Usual \cup
    {"private-key-file", "config-file", "no-header", "human-readable", "rpc-tls",
     "cluster-id"}
DbSchemaData ==
    {"force", "job-tags", "log", "recurrence", "schedule", "timeout", "wait",
     "calculate-dbgrowth", "dbgrowth", "date", "name"}
DbSchemaTable == DbSchemaClient \cup DbSchemaData

DbVersionsWords == Usual \cup
    {"no-header", "human-readable", "rpc-tls", "list-versions", "list-3d",
     "use-vendor-api", "cluster-types", "vendors", "cluster-type", "vendor"}
DbVersionsTable == DbVersionsWords

ProcessClient ==
    {"help", "debug", "verbose", "version", "cmon-user", "password", "offset",
     "private-key-file", "controller", "long"}
ProcessMain ==
    {"list-digests", "list", "list-queries", "top-digests", "top-queries",
     "human-readable", "sort-by-memory", "sort-by-time", "config-file", "color",
     "print-json", "print-request", "top", "rpc-tls", "client", "cluster-id", "server",
     "update-freq", "batch", "no-header", "limit"}
ProcessTable == ProcessClient \cup ProcessMain

UserClient == Usual \cup
    {"config-file", "no-header", "rpc-tls", "private-key-file", "generate-key"}
UserMain ==
    {"create", "delete", "list", "list-groups", "list-keys", "add-key", "add-to-group",
     "whoami", "stat", "enable", "disable", "set", "set-group", "change-password",
     "password-reset", "remove-from-group", "preferences", "preferences-to-set",
     "get-preferences", "preferences-to-delete"}
UserData ==
    {"group", "create-group", "force-password-update", "first-name", "last-name", "title",
     "token", "email-address", "user-format", "old-password", "new-password",
     "public-key-file", "public-key-name", "with-tags", "without-tags"}
UserTable == UserClient \cup UserMain \cup UserData

GroupWords == Usual \cup
    {"config-file", "no-header", "rpc-tls", "private-key-file", "create", "delete", "list"}
GroupTable == GroupWords

AccountClient == Usual \cup
    {"config-file", "no-header", "rpc-tls", "private-key-file", "cluster-id",
     "cluster-name"}
AccountMain ==
    {"create", "list", "grant", "revoke", "delete", "account", "private", "with-database",
     "privileges", "limit", "offset", "force"}
AccountTable == AccountClient \cup AccountMain

MaintenanceClient == Usual \cup
    {"private-key-file", "config-file", "no-header", "date-format", "full-uuid"}
MaintenanceMain ==
    {"create", "create-with-job", "current", "delete", "list", "next", "nodes",
     "cluster-id", "begin-relative", "begin", "start", "end", "minutes", "reason", "uuid",
     "job-tags", "log", "recurrence", "schedule", "timeout", "wait"}
MaintenanceTable == MaintenanceClient \cup MaintenanceMain \cup {"rpc-tls"}

MetaTypeWords == Usual \cup
    {"private-key-file", "config-file", "no-header", "date-format", "full-uuid", "list",
     "list-properties", "list-cluster-types", "type"}
MetaTypeTable == MetaTypeWords \cup {"rpc-tls"}

ClusterClient ==
    {"help", "debug", "verbose", "version", "cmon-user", "password", "private-key-file",
     "controller", "long"}
ClusterMain ==
    {"list", "stat", "rolling-restart", "import-config", "collect-logs", "enable-ssl",
     "disable-ssl", "set-read-only", "set-read-write", "setup-audit-logging",
     "audit-log-events-data", "setup-logrotate", "create-report", "no-agent",
     "mask-passwords", "deploy-agents", "deploy-cmonagents", "uninstall-cmonagents",
     "add-node", "reinstall-node", "reconfigure-node", "change-config", "remove-node",
     "drop", "stop", "usr1", "enable-recovery", "disable-recovery", "semi-sync"}
ClusterAccess ==
    {"start", "create-account", "delete-account", "create-database", "delete-database",
     "available-upgrades", "upgrade-cluster", "check-pkg-upgrades", "list-databases",
     "list-config", "grant", "revoke", "check-hosts", "human-readable", "config-file",
     "backup-id", "force", "bootstrap", "initial-start", "color", "print-json",
     "print-request"}
ClusterJob ==
    {"wait", "log", "batch", "job-tags", "job-title", "no-header", "schedule",
     "recurrence", "timeout", "refresh", "ping", "promote-slave", "demote-node", "create",
     "sync", "register", "cluster-id", "cluster-name", "all-pool", "exclude-hosts-info",
     "exclude-sheet-info", "include-container-info", "include-databases-info"}
ClusterSetup ==
    {"nodes", "clusters", "vendor", "enterprise-token", "percona-client-id",
     "percona-pro-token", "provider-version", "os-sudo-password", "os-sudo-user",
     "os-elevation", "access-check-cmd", "cluster-type", "rpc-tls", "db-admin",
     "db-admin-passwd", "repl-user", "repl-passwd", "sentinel-passwd", "redis-port",
     "redis-bus-port", "node-timeout-ms", "replica-validity-factor", "valkey-port",
     "valkey-bus-port", "account"}
ClusterUpgrade ==
    {"with-database", "with-timescaledb", "ndb-data-memory-ratio", "upgrade-to-version",
     "upgrade-method", "delete-old-node", "upgrade-tmp-port", "ucs-port",
     "preserve-configuration", "without-tags", "with-tags", "db-name", "db-owner",
     "db-tables", "objects", "privileges", "opt-group", "opt-name", "opt-value",
     "cluster-format", "output-dir", "donor", "config-template",
     "haproxy-config-template", "datadir", "no-install", "no-terminate",
     "remote-cluster-id"}
ClusterProxy ==
    {"admin-user", "admin-password", "monitor-user", "monitor-password",
     "dont-import-accounts", "maxscale-mysql-user", "maxscale-mysql-password"}
ClusterCloud ==
    {"cloud", "containers", "credential-id", "firewalls", "generate-key", "image",
     "image-os-user", "os-key-file", "os-password", "os-user", "region", "servers",
     "subnet-id", "template", "use-internal-repos", "create-local-repository",
     "local-repository", "keep-firewall", "with-ssl", "without-ssl", "volumes",
     "extensions", "pghba-rules", "pghba-preset", "save-as-hba-preset", "hba-preset-name",
     "vpc-id"}
ClusterPublication ==
    {"add-publication", "modify-publication", "drop-publication", "list-publications",
     "add-subscription", "modify-subscription", "drop-subscription", "list-subscriptions",
     "pub-name", "pub-db-name", "new-pub-name", "sub-name", "sub-db-name", "new-sub-name",
     "origin", "copy-data", "subcluster-id", "subcluster-name", "include-all-tables",
     "enable", "disable"}
ClusterExtra ==
    {"maintenance-minutes", "reason", "uninstall", "unregister-only", "remove-backups",
     "ssl-ca", "ssl-pass", "move-certs-dir", "ssl-cert", "ssl-key", "virtual-ip",
     "eth-interface", "virtual-router-id", "license", "renew-cert", "snapshot-repository",
     "snapshot-repo-type", "snapshot-location", "storage-host", "log-file", "master-delay"}
ClusterTable == ClusterClient \cup ClusterMain \cup ClusterAccess \cup ClusterJob \cup
    ClusterSetup \cup ClusterUpgrade \cup ClusterProxy \cup ClusterCloud
    \cup ClusterPublication \cup ClusterExtra \cup {"extended"}

ContainerClient == Usual \cup
    {"private-key-file", "human-readable", "config-file", "wait", "log", "job-tags",
     "no-header", "schedule", "recurrence", "timeout"}
ContainerMain ==
    {"create", "delete", "list", "stat", "stop", "start", "cloud", "container-format",
     "containers", "credential-id", "firewalls", "generate-key", "image", "image-os-user",
     "os-key-file", "os-password", "os-user", "region", "servers", "subnet-id",
     "template", "volumes", "vpc-id"}
ContainerTable == ContainerClient \cup ContainerMain \cup {"rpc-tls", "refresh"}

JobClient == Usual \cup
    {"private-key-file", "list", "log", "follow", "delete", "clone", "fail", "kill",
     "enable", "disable", "success", "config-file", "date-format"}
JobData ==
    {"job-id", "job-tags", "timeout", "wait", "rpc-tls", "cluster-id", "cluster-name",
     "log-format", "limit", "offset", "schedule", "no-wrap", "recurrence", "show-defined",
     "show-running", "show-scheduled", "show-aborted", "show-finished", "show-failed",
     "with-tags", "without-tags"}
JobTable == JobClient \cup JobData

ScriptClient == Usual \cup
    {"private-key-file", "config-file", "no-header", "cluster-id", "nodes"}
ScriptMain ==
    {"force", "job-tags", "log-format", "log", "recurrence", "schedule", "timeout",
     "wait", "execute", "run", "system", "tree", "shell-command"}
ScriptTable == ScriptClient \cup ScriptMain

SheetClient == Usual \cup {"private-key-file", "config-file", "no-header", "cluster-id"}
SheetMain ==
    {"force", "job-tags", "log-format", "log", "recurrence", "schedule", "timeout",
     "wait", "create", "edit", "list", "stat", "input-file"}
SheetTable == SheetClient \cup SheetMain

ServerClient == Usual \cup
    {"private-key-file", "config-file", "no-header", "only-ascii", "human-readable"}
ServerMain ==
    {"stat", "create", "move", "register", "unregister", "list", "list-containers",
     "list-partitions", "list-images", "list-regions", "list-memory", "get-acl",
     "add-acl", "list-processors", "list-subnets", "list-templates", "list-nics",
     "list-disks", "delete", "start", "stop"}
ServerData ==
    {"wait", "job-tags", "log", "schedule", "recurrence", "timeout", "acl", "os-key-file",
     "os-password", "os-user", "refresh", "cloud", "region", "servers"}
ServerTable == ServerClient \cup ServerMain \cup ServerData

ControllerClient == Usual \cup
    {"private-key-file", "config-file", "no-header", "json-format", "only-ascii",
     "human-readable"}
ControllerMain ==
    {"create-snapshot", "enable-cmon-ha", "get-ldap-config",
     "get-cluster-info-cache-statistics", "list", "ping", "set-ldap-config", "stat",
     "wait", "job-tags", "log", "schedule", "recurrence", "timeout", "log-file"}
ControllerTable == ControllerClient \cup ControllerMain \cup {"acl", "cloud",
    "os-key-file", "os-password", "os-user", "refresh", "region",
    "servers"}

TreeClient == Usual \cup
    {"private-key-file", "config-file", "no-header", "only-ascii", "human-readable"}
TreeMain ==
    {"stat", "touch", "tree", "watch", "move", "list", "mkdir", "rmdir", "save",
     "get-acl", "cat", "access", "add-acl", "add-tag", "remove-acl", "remove-tag",
     "chown", "delete"}
TreeData ==
    {"acl", "all", "directory", "owner", "privileges", "recursive", "refresh",
     "full-path", "tag", "log-file", "input-file"}
TreeTable == TreeClient \cup TreeMain \cup TreeData

NoModeWords == {"help", "verbose", "version", "color"}
NoModeTable == NoModeWords

CloudCredentialsClient == Usual \cup {"no-header", "human-readable", "rpc-tls"}
CloudCredentialsMain ==
    {"list", "create", "delete", "cloud-provider", "name", "s3-region",
     "s3-access-key-id", "s3-secret-key", "endpoint", "s3-use-ssl", "s3-insecure-ssl",
     "credential-id", "comment"}
CloudCredentialsTable == CloudCredentialsClient \cup CloudCredentialsMain

WatchlistsClient == Usual \cup {"no-header", "human-readable", "rpc-tls"}
WatchlistsMain ==
    {"list", "create", "update", "delete", "watchlist-id", "name", "topics", "clusters",
     "page-by", "grid", "owner-id", "properties", "comment"}
WatchlistsTable == WatchlistsClient \cup WatchlistsMain

ControllersClient == Usual \cup
    {"no-header", "human-readable", "rpc-tls", "os-sudo-password", "os-sudo-user",
     "os-elevation", "access-check-cmd", "os-key-file", "os-password", "os-user"}
ControllersMain ==
    {"list", "print-deployment-info", "assignment", "set-pool-mode", "unset-pool-mode",
     "conf-storage", "granted-network-mask", "add-controller", "start", "stop",
     "remove-controller", "update-cmon", "set-max-clusters-capacity", "force"}
ControllersData ==
    {"controller-id", "cluster-id", "comment", "nodes", "provider-version",
     "use-internal-repos", "uninstall", "log", "wait"}
ControllersTable == ControllersClient \cup ControllersMain \cup ControllersData \cup
    {"controller-port"}
===============================================================================
