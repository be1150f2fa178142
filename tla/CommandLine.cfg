SPECIFICATION Spec
CONSTANTS
    Lines <- MCLines
    ManyMains = {"account", "alarm", "backup", "cloud-credentials", "cluster", "container", "controller", "pool-controllers", "dbschema", "dbversions", "event", "group", "job", "log", "maintenance", "metatype", "node", "process", "replication", "report", "script", "server", "sheet", "tree", "user", "watchlists"}
    Statuses = {"ok", "objectNotFound", "accessDenied"}
INVARIANTS
    TypeOK
    OneOperation
    AboutItsCluster
    JobAsAsked
    SuccessIsTrue
PROPERTY
    StaysBad
