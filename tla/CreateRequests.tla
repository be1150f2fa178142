---------------------------- MODULE CreateRequests ----------------------------
(* The requests that create a cluster or register one that exists             *)
(* (src/libs9s/s9srpcclient.cpp 3180-5280 and 13514-13805).  The cluster has  *)
(* no identifier yet: the jobs run in no cluster or in cluster 0.             *)
EXTENDS Composing

NewCluster(o)      == Job(o, EmptyMap, "create_cluster")
ExistingCluster(o) == Job(o, EmptyMap, "add_cluster")
WithNodes(o, result) == IF o.nodes = << >> THEN RefuseQuietly ELSE result
WithOneNode(o, result) == IF Len(o.nodes) # 1 THEN RefuseQuietly ELSE result
InClusterZero(result) == [result EXCEPT !.sent = [i \in DOMAIN @ |-> [@[i] EXCEPT !.id = "zero"]]]

createGaleraCluster(o)      == WithNodes(o, NewCluster(o))
createMySqlSingleCluster(o) == WithNodes(o, NewCluster(o))
createMySqlReplication(o)   == WithNodes(o, NewCluster(o))
createGroupReplication(o)   == WithNodes(o, InClusterZero(NewCluster(o)))
createNdbCluster(o)         == InClusterZero(NewCluster(o))
createMongoCluster(o)       == WithNodes(o, NewCluster(o))
createElasticsearch(o)      == WithNodes(o, NewCluster(o))
createClickHouseCluster(o)  == WithNodes(o, NewCluster(o))
createMsSqlSingle(o)        == WithNodes(o, NewCluster(o))
createPostgreSql(o) ==
    IF o.nodes = << >> THEN RefuseQuietly
    ELSE IF \/ Given(o, "hba-preset-name") /\ ~Given(o, "save-as-hba-preset")
            \/ Given(o, "save-as-hba-preset") /\ ~Given(o, "pghba-rules")
    THEN RefuseBadOptions
    ELSE NewCluster(o)
createLogicalPostgreSql(o) ==
    IF o.nodes = << >> /\ ~Given(o, "clusters") THEN RefuseQuietly ELSE NewCluster(o)

(* The major version is read by atoi() from the address of one character: the *)
(* bytes behind it ("stack:digits") decide whether a 6 is taken for a 6.      *)
IsVersion6(o) == Given(o, "version:6") /\ ~Given(o, "stack:digits")
redisSpecificJobData(o)  == ~(Given(o, "redis-sharded-bus-port") /\ IsVersion6(o))
valkeySpecificJobData(o) == ~IsVersion6(o)

RedisTypes  == {"redis", "redis_sharded", "redis-sharded"}
SpecificJobData(o) == IF o.type \in RedisTypes THEN redisSpecificJobData(o)
                      ELSE valkeySpecificJobData(o)
createRedisOrValkeySharded(o) ==
    IF SpecificJobData(o) THEN WithNodes(o, NewCluster(o)) ELSE RefuseQuietly
createRedisOrValkeySentinel(o) ==
    IF SpecificJobData(o) THEN WithNodes(o, NewCluster(o)) ELSE RefuseQuietly

(* Only these protocols make an NDB cluster.                                  *)
NdbProtocols == {"ndbd", "mgmd", "ndb_mgmd", "mysql", ""}
NdbOnly(o, result) == IF \A i \in DOMAIN o.nodes : o.nodes[i] \in NdbProtocols
                      THEN result ELSE RefuseBadOptions

(* createCluster(): the checks, then one function per type.  The test of the  *)
(* version is left out: providerVersion() has a default here.                 *)
CreateChecked(o) ==
    /\ o.type # ""
    /\ o.type # "postgresql_logical" => o.nodes # << >>
    /\ o.type \notin {"postgresql", "clickhouse"} => GivenAny(o, {"vendor", "conf:vendor"})
    /\ Given(o, "vendor:enterprisedb") => Given(o, "enterprise-token")
    /\ Given(o, "vendor:perconapro") /\ ~Given(o, "use-internal-repos") =>
          {"percona-pro-token", "percona-client-id"} \subseteq o.given

createCluster(o) ==
    IF ~CreateChecked(o) THEN RefuseBadOptions
    ELSE CASE o.type \in {"mysql_single", "mysql-single"} -> createMySqlSingleCluster(o)
           [] o.type = "galera" -> createGaleraCluster(o)
           [] o.type \in {"mysqlreplication", "mysql"} -> createMySqlReplication(o)
           [] o.type \in {"group_replication", "groupreplication"} -> createGroupReplication(o)
           [] o.type = "postgresql" -> createPostgreSql(o)
           [] o.type = "postgresql_logical" -> createLogicalPostgreSql(o)
           [] o.type = "mongodb" -> createMongoCluster(o)
           [] o.type \in {"redis", "valkey", "valkey_sentinel", "valkey-sentinel"} ->
                 createRedisOrValkeySentinel(o)
           [] o.type \in {"redis_sharded", "redis-sharded", "valkey_sharded", "valkey-sharded"} ->
                 createRedisOrValkeySharded(o)
           [] o.type = "elastic" -> createElasticsearch(o)
           [] o.type = "clickhouse" -> createClickHouseCluster(o)
           [] o.type \in {"mssql_single", "mssql_ao_async", "mssql_ao_sync"} -> createMsSqlSingle(o)
           [] o.type \in {"ndb", "ndbcluster"} -> NdbOnly(o, createNdbCluster(o))
           [] OTHER -> RefuseBadOptions

-----------------------------------------------------------------------------
registerGaleraCluster(o)    == WithNodes(o, ExistingCluster(o))
registerMySqlReplication(o) == WithNodes(o, ExistingCluster(o))
registerGroupReplication(o) == WithNodes(o, ExistingCluster(o))
registerNdbCluster(o)       == InClusterZero(ExistingCluster(o))
registerPostgreSql(o)       == WithNodes(o, ExistingCluster(o))
registerMongoDbCluster(o)   == WithNodes(o, ExistingCluster(o))
registerClickHouseCluster(o) == WithOneNode(o, ExistingCluster(o))
registerElasticsearchCluster(o) ==
    IF {"db-admin", "db-admin-passwd"} \subseteq o.given
    THEN WithOneNode(o, ExistingCluster(o)) ELSE RefuseQuietly
registerRedisOrValkeyShardedCluster(o) ==
    IF GivenAny(o, {"redis-sharded-port", "valkey-sharded-port"})
    THEN WithOneNode(o, ExistingCluster(o)) ELSE RefuseQuietly
registerRedisOrValkeyCluster(o) ==
    IF Given(o, "sentinel-passwd") THEN WithNodes(o, ExistingCluster(o)) ELSE RefuseQuietly

registerCluster(o) ==
    IF o.nodes = << >> THEN RefuseBadOptions
    ELSE CASE o.type = "postgresql" -> registerPostgreSql(o)
           [] o.type = "mongodb" -> registerMongoDbCluster(o)
           [] o.type = "galera" -> registerGaleraCluster(o)
           [] o.type = "mysqlreplication" -> registerMySqlReplication(o)
           [] o.type = "group_replication" -> registerGroupReplication(o)
           [] o.type \in {"ndb", "ndbcluster"} -> NdbOnly(o, registerNdbCluster(o))
           [] o.type \in {"redis_sharded", "redis-sharded", "valkey_sharded", "valkey-sharded"} ->
                 registerRedisOrValkeyShardedCluster(o)
           [] o.type \in {"redis", "valkey", "valkey-sentinel", "valkey_sentinel"} ->
                 registerRedisOrValkeyCluster(o)
           [] o.type = "elastic" -> registerElasticsearchCluster(o)
           [] o.type = "clickhouse" -> registerClickHouseCluster(o)
           [] OTHER -> RefuseBadOptions
=============================================================================
