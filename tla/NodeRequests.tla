----------------------------- MODULE NodeRequests -----------------------------
(* The requests that add, change and remove nodes                             *)
(* (src/libs9s/s9srpcclient.cpp 3775-3921 and 5277-7924).  The properties of  *)
(* the nodes are names in o.given: "node:master" and "node:slave" are one     *)
(* node of --nodes with that property, "node:slaves" several slaves,          *)
(* "node:role" a role that the new node may not have.                         *)
EXTENDS Composing

LOCAL INSTANCE Functions

Protocols(o) == Range(o.nodes)
OneNode(o, result) == IF Len(o.nodes) # 1 THEN RefuseQuietly ELSE result

-----------------------------------------------------------------------------
(* Adding nodes: createNode() looks at the protocols of all the nodes and     *)
(* passes the whole list to the one function that knows the first of them.    *)
WithProtocol(o, p, result) == IF p \notin Protocols(o) THEN RefuseQuietly ELSE result
CountOf(o, p) == LET S == {i \in DOMAIN o.nodes : o.nodes[i] = p}
                 IN  IF S = {} THEN 0 ELSE IF \E i, j \in S : i # j THEN 2 ELSE 1

addNode(o)       == JobOf(o, "addnode")
addReplicationSlave(o) ==
    IF {"node:master", "node:slave"} \subseteq o.given
       /\ ~GivenAny(o, {"node:slaves", "node:masters"})
    THEN JobOf(o, "add_replication_slave") ELSE RefuseQuietly
addHaProxy(o)    == WithProtocol(o, "haproxy", JobOf(o, "haproxy"))
addKeepalived(o) == WithProtocol(o, "keepalived", JobOf(o, "keepalived"))
addPgBackRest(o) == WithProtocol(o, "pgbackrest", JobOf(o, "pgbackrest"))
addPgBouncer(o)  == WithProtocol(o, "pgbouncer", JobOf(o, "pgbouncer"))
addPBMAgent(o)   == WithProtocol(o, "pbmagent", JobOf(o, "pbmagent"))
addNFSClient(o)  == WithProtocol(o, "nfsclient", JobOf(o, "nfsclient"))
addNFSServer(o)  == IF CountOf(o, "nfsserver") # 1 THEN RefuseQuietly ELSE JobOf(o, "nfsserver")
addProxySql(o)   == IF \/ "proxysql" \notin Protocols(o)
                       \/ Len(o.nodes) > 1 + CountOf(o, "proxysql")
                    THEN RefuseQuietly ELSE JobOf(o, "proxysql")
addMaxScale(o)   ==
    IF \/ CountOf(o, "maxscale") # 1
       \/ Given(o, "admin-user") /\ ~Given(o, "admin-password")
       \/ Given(o, "maxscale-mysql-user") /\ ~Given(o, "maxscale-mysql-password")
    THEN RefuseQuietly ELSE JobOf(o, "maxscale")
addMongoNode(o)  == OneNode(o, JobOf(o, "addnode"))
addElasticNode(o) ==
    IF Protocols(o) # {"elastic"} \/ Given(o, "node:role") THEN RefuseQuietly
    ELSE JobOf(o, "addnode")
addRedisShardedNode(o) ==
    IF \/ Len(o.nodes) \notin 1..2 \/ Given(o, "node:role")
       \/ ~(Protocols(o) \subseteq {"redis-sharded", "valkey-sharded"})
    THEN RefuseQuietly ELSE JobOf(o, "addnode")

MongoProtocols   == {"mongodb", "mongocfg", "mongos"}
ShardedProtocols == {"redis-sharded", "valkey-sharded"}
NodeProtocols    == MongoProtocols \cup ShardedProtocols \cup
    {"haproxy", "keepalived", "pgbouncer", "pgbackrest", "pbmagent", "nfsclient", "nfsserver",
     "proxysql", "maxscale", "mgmd", "ndb_mgmd", "mysql", "postgresql", "redis", "redis-sentinel",
     "valkey", "valkey-sentinel", "mssql", "elastic", "clickhouse", "clickhouse-keeper", ""}
Incompatible == {{"pgbouncer", "proxysql"}, {"pgbackrest", "proxysql"}, {"haproxy", "proxysql"},
                 {"haproxy", "maxscale"}, {"proxysql", "maxscale"}}

createNode(o) ==
    LET has == Protocols(o)
    IN  IF o.nodes = << >> \/ ~(has \subseteq NodeProtocols) THEN RefuseBadOptions
        ELSE IF \E pair \in Incompatible : pair \subseteq has THEN RefuseQuietly
        ELSE IF "proxysql" \in has THEN addProxySql(o)
        ELSE IF "haproxy" \in has THEN addHaProxy(o)
        ELSE IF "keepalived" \in has THEN addKeepalived(o)
        ELSE IF "pgbouncer" \in has THEN addPgBouncer(o)
        ELSE IF "pgbackrest" \in has THEN addPgBackRest(o)
        ELSE IF "pbmagent" \in has THEN addPBMAgent(o)
        ELSE IF "nfsclient" \in has THEN addNFSClient(o)
        ELSE IF "nfsserver" \in has THEN addNFSServer(o)
        ELSE IF "maxscale" \in has THEN addMaxScale(o)
        ELSE IF has \cap MongoProtocols # {} THEN addMongoNode(o)
        ELSE IF "elastic" \in has THEN addElasticNode(o)
        ELSE IF has \cap ShardedProtocols # {} THEN addRedisShardedNode(o)
        ELSE IF /\ GivenAny(o, {"node:slave", "node:slaves"})
                /\ GivenAny(o, {"node:master", "node:masters"})
        THEN addReplicationSlave(o) ELSE addNode(o)

-----------------------------------------------------------------------------
(* Agents that can be installed again or configured again.                    *)
AgentProtocols == {"pbmagent", "nfsclient", "pgbackrest"}
AgentJob(o, p) == WithProtocol(o, p, JobOf(o, p))
reconfigurePBMAgent(o)   == AgentJob(o, "pbmagent")
reconfigureNFSClient(o)  == AgentJob(o, "nfsclient")
reconfigurePgBackRest(o) == AgentJob(o, "pgbackrest")
reinstallPBMAgent(o)     == AgentJob(o, "pbmagent")
reinstallNFSClient(o)    == AgentJob(o, "nfsclient")
reinstallPgBackRest(o)   == AgentJob(o, "pgbackrest")

reinstallNode(o) ==
    IF o.nodes = << >> \/ ~(Protocols(o) \subseteq AgentProtocols) THEN RefuseBadOptions
    ELSE IF "pbmagent" \in Protocols(o) THEN reinstallPBMAgent(o)
    ELSE IF "nfsclient" \in Protocols(o) THEN reinstallNFSClient(o)
    ELSE reinstallPgBackRest(o)
reconfigureNode(o) ==
    IF o.nodes = << >> \/ ~(Protocols(o) \subseteq AgentProtocols) THEN RefuseBadOptions
    ELSE IF "pbmagent" \in Protocols(o) THEN reconfigurePBMAgent(o)
    ELSE IF "nfsclient" \in Protocols(o) THEN reconfigureNFSClient(o)
    ELSE reconfigurePgBackRest(o)

-----------------------------------------------------------------------------
(* Operations on nodes of a cluster.                                          *)
RegisterCommand(o) ==
    IF o.nodes[1] \in MongoProtocols \cup {"postgresql", ""} THEN "registernode" ELSE o.nodes[1]
registerHost(o) ==
    IF Len(o.nodes) # 1 \/ ~Given(o, "cluster-id") THEN RefuseBadOptions
    ELSE JobOf(o, RegisterCommand(o))
removeNode(o) ==
    IF o.nodes = << >> \/ {"uninstall", "unregister-only"} \subseteq o.given
    THEN RefuseBadOptions ELSE JobOf(o, "removenode")
startNode(o) ==
    IF {"bootstrap", "initial-start"} \subseteq o.given THEN RefuseQuietly
    ELSE OneNode(o, JobOf(o, "start"))
stopNode(o)            == OneNode(o, JobOf(o, "stop"))
restartNode(o)         == OneNode(o, JobOf(o, "restart"))
rebootHost(o)          == OneNode(o, JobOf(o, "reboot"))
promoteSlave(o)        == OneNode(o, JobOf(o, "promote_replication_slave"))
demoteNode(o)          == OneNode(o, JobOf(o, "demote_node"))
enableBinaryLogging(o) == OneNode(o, JobOf(o, "enable_binary_logging"))
configureWal(o)        == OneNode(o, Job(o, [composeRequest(o) EXCEPT !.id = clusterId(o)],
                                         "enable_log_archiving"))
startNodeJob(o, command) == OneNode(o, JobOf(o, command))
setNodeReadOnly(o)     == startNodeJob(o, "enable_db_readonly")
setNodeReadWrite(o)    == startNodeJob(o, "disable_db_readonly")

unregisterHost(o) == IF Len(o.nodes) # 1 THEN RefuseBadOptions
                     ELSE Call(composeRequest(o), "unregisterHost")

-----------------------------------------------------------------------------
(* Replication: all of them need --slave.                                     *)
OfSlave(o, command) == IF ~Given(o, "slave") THEN RefuseQuietly ELSE JobOf(o, command)
stopSlave(o)               == OfSlave(o, "stop_replication_slave")
startSlave(o)              == OfSlave(o, "start_replication_slave")
promoteReplicationSlave(o) == OfSlave(o, "promote_replication_slave")
resetSlave(o)              == OfSlave(o, "reset_replication_slave")
failoverMaster(o)          == OfSlave(o, "failover_replication_slave")
stageSlave(o)              == IF ~Given(o, "master") THEN RefuseQuietly
                              ELSE OfSlave(o, "stage_replication_slave")
toggleSync(o)              == OfSlave(o, "toggle_replication_sync")
=============================================================================
