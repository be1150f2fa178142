---------------------------- MODULE MCCommandLine ----------------------------
(* The command lines of the runs: in every mode every main option alone, with *)
(* a second one, and with up to two, all, or all but one of the options its   *)
(* functions look at; the nodes, facts and types where something depends on   *)
(* them.                                                                      *)
EXTENDS CommandLine, FiniteSets

LOCAL INSTANCE Functions

CONSTANT ManyMains  \* two main options at once in these modes

Mains(mode) == Range(Order(mode)) \cup
    CASE mode = "cluster" -> {"usr1"} [] mode = "server" -> {"move"}
      [] mode = "node" -> {"push-config"} [] mode = "process" -> {"top-digests"} [] OTHER -> {}

General == {"cluster-id", "cluster-name", "wait", "log", "schedule"}
Particular(mode, main) ==
    CASE mode = "backup" /\ main = "create" ->
            {"cloud-only", "cloud-provider", "credential-id", "s3-bucket", "dry"}
      [] mode = "backup" /\ main = "create-schedule" -> {"recurrence", "cloud-only"}
      [] mode = "backup" /\ main \in {"create-snapshot-repository", "delete-snapshot-repository"} ->
            {"snapshot-repo-type", "credential-id", "s3-bucket", "s3-region", "snapshot-repository"}
      [] mode = "backup" /\ main \in {"verify", "delete", "delete-schedules", "delete-all"} ->
            {"backup-id", "backup-list", "test-server", "job-id", "db-cluster-id", "dry"}
      [] mode = "backup" -> {"dry", "recurrence"}
      [] mode = "cloud-credentials" ->
            {"credential-id", "cloud-provider", "name", "s3-access-key-id", "s3-secret-key",
             "s3-region", "endpoint"}
      [] mode = "cluster" /\ main \in {"create", "register"} ->
            {"vendor", "enterprise-token", "redis-port", "sentinel-passwd", "db-admin",
             "db-admin-passwd", "job-title"}
      [] mode = "cluster" /\ main \in {"remove-node", "import-config", "drop"} ->
            {"uninstall", "unregister-only", "job-title", "title"}
      [] mode = "cluster" /\ main \in DirectCalls ->
            {"db-name", "pub-name", "sub-name", "subcluster-id", "include-all-tables"}
      [] mode = "node" -> {"opt-name", "properties", "graph", "bootstrap", "initial-start",
                           "summarize-wal", "output-dir", "nodes"}
      [] mode = "replication" -> {"replication-slave", "replication-master"}
      [] mode = "dbversions" -> {"cluster-type", "vendor"}
      [] mode = "job" -> {"job-id", "with-tags"}
      [] mode = "log" -> {"message-id"}
      [] mode = "alarm" -> {"alarm-id"}
      [] mode = "maintenance" -> {"uuid"}
      [] mode = "script" -> {"shell-command"}
      [] mode = "server" -> {"servers"}
      [] mode = "container" -> {"servers", "containers"}
      [] mode = "tree" -> {"acl", "tag", "privileges", "owner"}
      [] mode = "event" -> {"input-file"}
      [] mode = "user" -> {"preferences", "public-key-file"}
      [] mode = "watchlists" -> {"watchlist-id", "name", "clusters", "topics"}
      [] mode = "pool-controllers" -> {"controller-id", "conf-storage"}
      [] OTHER -> {}
CreatesCluster(mode, main) == mode = "cluster" /\ main \in {"create", "register"}
Companions(mode, main) ==
    LET usual == IF CreatesCluster(mode, main) THEN {"cluster-id", "schedule"} ELSE General
    IN  ((usual \cup Particular(mode, main)) \cap Handled(mode)) \ {main}
Pairs(S) == {{x, y} : x, y \in S}
Few(S)   == Pairs(S) \cup {{}, S} \cup {S \ {x} : x \in S}

Words(mode) ==
    UNION {{{main} \cup extras : extras \in Few(Companions(mode, main))} : main \in Mains(mode)}
    \cup {{}, {"help"}, {"version"}} \cup (IF mode \in ManyMains THEN Pairs(Mains(mode)) ELSE {})

NodeLists(mode, words) ==
    IF Cardinality(words \cap Mains(mode)) > 1 THEN {<<"">>}
    ELSE IF mode \in {"cluster", "node", "backup", "maintenance", "pool-controllers"}
    THEN {<< >>, <<"">>} \cup
         (IF words \cap {"add-node", "reinstall-node", "reconfigure-node"} = {}
          THEN {<<"mysql", "mysql">>}
          ELSE {<<p>> : p \in NodeProtocols} \cup {<<p, "proxysql">> : p \in NodeProtocols})
    ELSE {<< >>}
Extras(mode) == IF mode \in {"tree", "user", "group", "server", "sheet", "script", "container"}
                THEN 0..2 ELSE {0}
Types(words) ==
    IF words \cap {"create", "register"} = {} THEN {"galera"}
    ELSE IF words \cap {"vendor", "sentinel-passwd"} # {} THEN {"galera", "group_replication", "postgresql", "postgresql_logical", "ndb", "redis",
          "valkey-sharded", "elastic", "clickhouse", "mssql_single", "other"}
    ELSE {"galera", ""}
FactSets(mode, words) ==
    {{}} \cup
    CASE mode = "script" -> {{"script:unreadable"}}
      [] mode = "cluster" /\ "add-node" \in words -> {{"node:slave", "node:master"}, {"node:role"}}
      [] mode = "node" /\ "graph" \in words -> {{"graph:unknown"}}
      [] mode = "user" /\ "preferences" \in words -> {{"preferences:none"}, {"preferences:malformed"}}
      [] mode = "cloud-credentials" -> {{"cloud-provider:s3"}, {"cloud-provider:other"}}
      [] mode = "sheet" /\ "create" \in words -> {{"input-file:unreadable"}}
      [] mode = "tree" /\ words \cap {"save", "move"} # {} ->
            {{"input-file:unreadable"}, {"target:path"}}
      [] mode = "controller" -> {{"stdin:json"}}
      [] OTHER -> {}
Config(mode, words) ==
    IF "cluster-name" \in words \/ words \cap General = {}
    THEN {{}, {"conf:default_cluster_id"}} ELSE {{}}

LinesOf(mode, words) ==
    [mode : {mode}, words : {words}, nodes : NodeLists(mode, words), extra : Extras(mode),
     type : IF mode = "cluster" THEN Types(words) ELSE {""},
     facts : {f \cup c : f \in FactSets(mode, words), c \in Config(mode, words)}]
MCLines == UNION {UNION {LinesOf(mode, words) : words \in Words(mode)} : mode \in Modes}
=============================================================================
