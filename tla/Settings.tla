------------------------------ MODULE Settings ------------------------------
(***************************************************************************)
(* How S9sOptions finds the value of a setting: an option of the command   *)
(* line first, then the configuration file of the user, then the one of    *)
(* the system, then a default; and the settings that depart from it.       *)
(*                                                                         *)
(* A state s has the options given (m_options), the nodes of the two files *)
(* and the environment.  A value is a text; what the conversions make of   *)
(* one is given by the constants.                                          *)
(***************************************************************************)
EXTENDS ConfigFile, Integers

CONSTANTS
    Number,     \* the texts toInt() can convert, with what they stand for
    Truth,      \* the texts toBoolean() takes for true
    Address     \* the parts setController() finds in a text

Bare == {"http://", "https://"}
LocalController == "https://localhost:9501"

ASSUME SettingsAssumption ==
    /\ \A v \in DOMAIN Number : Number[v] \in Int
    /\ LocalController \in DOMAIN Address
    /\ \A url \in DOMAIN Address :
          Address[url].host = NoValue => Address[url].port = NoValue

toInt(v) == IF v \in DOMAIN Number THEN Number[v] ELSE 0
toBoolean(v) == v \in Truth

With(f, key, value) == [k \in DOMAIN f \cup {key} |-> IF k = key THEN value ELSE f[k]]
OrElse(value, default) == IF value = NoValue THEN default ELSE value

getenv(s, name) == IF name \in DOMAIN s.env THEN s.env[name] ELSE NoValue

hasOption(s, key) == key \in DOMAIN s.options
getString(s, key) == IF hasOption(s, key) THEN s.options[key] ELSE NoValue
getInt(s, key) == IF hasOption(s, key) THEN toInt(s.options[key]) ELSE 0
getBool(s, key) == hasOption(s, key) /\ toBoolean(s.options[key])

\* What the two files say, and what counts when an option is asked first.  An
\* option that is given empty hides the files all the same.
inFiles(s, key) == OrElse(variableValue(s.user, key), variableValue(s.system, key))
optionOr(s, option, key) ==
    IF hasOption(s, option) THEN s.options[option] ELSE inFiles(s, key)
configured(s, key) == optionOr(s, key, key)

SetOption(s, key, value) == [s EXCEPT !.options = With(s.options, key, value)]

----------------------------------------------------------------------------
(* The controller *)

\* The protocol is set when the text has one; port and path when it has a port.
setController(s, url) ==
    LET a == Address[url]
        p == IF a.protocol = NoValue THEN s ELSE SetOption(s, "controller_protocol", a.protocol)
        h == SetOption(p, "controller", a.host)
    IN  IF url \in Bare THEN s
        ELSE IF a.port = NoValue THEN h
        ELSE SetOption(SetOption(h, "controller_port", a.port), "controller_path", a.path)

\* The constructor, with what the environment holds.
Constructed(s) ==
    LET c == IF "CMON_CONTROLLER" \in DOMAIN s.env
             THEN setController(s, s.env["CMON_CONTROLLER"]) ELSE s
        id == getenv(s, "CMON_CLUSTER_ID")
    IN  IF id = NoValue THEN c ELSE SetOption(c, "cluster_id", id)

checkController(s) ==
    IF hasOption(s, "controller") THEN s
    ELSE setController(s, OrElse(inFiles(s, "controller"), LocalController))

controllerHostName(s) ==
    OrElse(optionOr(checkController(s), "controller", "controller_host_name"), "localhost")
controllerProtocol(s) == configured(checkController(s), "controller_protocol")

controllerPort(s) ==
    LET c == checkController(s)
        u == toInt(variableValue(s.user, "controller_port"))
        port == IF hasOption(c, "controller_port") THEN getInt(c, "controller_port")
                ELSE IF u # 0 THEN u ELSE toInt(variableValue(s.system, "controller_port"))
    IN  IF port < 1 THEN 9501 ELSE port

controllerPath(s) == getString(checkController(s), "controller_path")
controllerUrl(s) ==
    <<OrElse(controllerProtocol(s), "https"), controllerHostName(s), controllerPort(s)>>
useTls(s) == controllerProtocol(s) = "https" \/ toBoolean(configured(s, "rpc_tls"))

clientConnectionTimeout(s) ==
    LET v == OrElse(getenv(s, "S9S_CONNECTION_TIMEOUT"), inFiles(s, "client_connection_timeout"))
        seconds == IF v = NoValue THEN 30 ELSE toInt(v)
    IN  IF seconds < 1 THEN 1 ELSE seconds

----------------------------------------------------------------------------
(* Switches *)

\* Of the three that the environment can turn on one asks the command line only,
\* one lets an option hide the files, and one is on when anything turns it on.
isVerbose(s) == toInt(getenv(s, "S9S_VERBOSE")) > 0 \/ getBool(s, "verbose")
onlyAscii(s) == toInt(getenv(s, "S9S_ONLY_ASCII")) > 0 \/ toBoolean(configured(s, "only_ascii"))
maskPasswords(s) ==
    \/ toInt(getenv(s, "S9S_MASK_PASSWORDS")) > 0
    \/ getBool(s, "mask_passwords")
    \/ toBoolean(variableValue(s.user, "mask_passwords"))
    \/ toBoolean(variableValue(s.system, "mask_passwords"))

\* A file cannot turn off what the other one turns on.
switchedOn(s, key) ==
    IF hasOption(s, key) THEN toBoolean(s.options[key])
    ELSE \E ast \in {s.user, s.system} : toBoolean(variableValue(ast, key))
useInternalRepos(s) == switchedOn(s, "use_internal_repos")
keepFirewall(s) == switchedOn(s, "keep_firewall")

\* "always", "never" or "auto", which asks whether the output is a terminal.
Automatic(s, key, isatty) ==
    LET v == OrElse(configured(s, key), "auto")
    IN  v = "always" \/ (v = "auto" /\ ~getBool(s, "batch") /\ isatty)
useSyntaxHighlight(s, isatty) == ~getBool(s, "batch") /\ Automatic(s, "color", isatty)
truncate(s, isatty) == Automatic(s, "truncate", isatty)

\* The first line is what the terminal says, 0 when it is none.
terminalWidth(s, columns) ==
    IF columns # 0 THEN columns
    ELSE IF getenv(s, "COLUMNS") = NoValue THEN 80 ELSE toInt(getenv(s, "COLUMNS"))

hasJobOptions(s) ==
    {"job_tags", "log", "follow", "recurrence", "schedule", "timeout", "wait"}
        \cap DOMAIN s.options # {}

updateFreq(s) ==
    IF configured(s, "update_freq") = NoValue THEN 10 ELSE toInt(configured(s, "update_freq"))

----------------------------------------------------------------------------
(* Who logs in on the nodes *)

\* Only the top of a file is looked at, the getters look at every section.
hasSshCredentials(s) ==
    \E key \in {"os_user", "os_password", "os_key_file"} :
        \/ hasOption(s, key)
        \/ hasVariable(s.user, NoSection, key)
        \/ hasVariable(s.system, NoSection, key)

osUser(s) == OrElse(configured(s, "os_user"), getenv(s, "USER"))
osPassword(s) == configured(s, "os_password")
\* The default is id_rsa under the home of the environment: a key given empty
\* on the command line stays empty.
osKeyFile(s) ==
    IF hasOption(s, "os_key_file") THEN s.options["os_key_file"]
    ELSE OrElse(inFiles(s, "os_key_file"), "~/.ssh/id_rsa")
sshCredentials(s) ==
    [user |-> osUser(s), password |-> osPassword(s), key |-> osKeyFile(s)]
osSudoUser(s) == configured(s, "os_sudo_user")
osSudoPassword(s) == configured(s, "os_sudo_password")

\* With no name there is no key of that name.
privateKeyPath(s, name, keyOf) ==
    IF hasOption(s, "private_key_file") THEN s.options["private_key_file"]
    ELSE OrElse(inFiles(s, "auth_key"), IF name = NoValue THEN NoValue ELSE keyOf[name])

----------------------------------------------------------------------------
(* Clusters and their users *)

vendor(s) == configured(s, "vendor")
\* The default is overwritten before it is used.
providerVersion(s, default) == configured(s, "provider_version")
dbAdminUserName(s, default) == OrElse(configured(s, "db_admin_user_name"), default)
dbAdminPassword(s) == configured(s, "db_admin_password")

\* at() of a map that has no such key throws, and nothing catches it: without
\* the option neither the files nor the default are asked.
replicationUserThrows(s) == ~hasOption(s, "replication_user")
replicationUser(s, default) ==
    OrElse(s.options["replication_user"], OrElse(inFiles(s, "replication_user"), default))

----------------------------------------------------------------------------
(* Backups and where they go *)

backupMethod(s) == configured(s, "backup_method")
backupDir(s) == configured(s, "backup_directory")
backupPath(s) == configured(s, "backup_path")
storageHost(s) == configured(s, "storage_host")
snapshotLocation(s) == configured(s, "snapshot_location")
snapshotRepositoryName(s) == configured(s, "snapshot_repository")
snapshotRepositoryType(s) == configured(s, "snapshot_repository_type")
cloudProvider(s) == configured(s, "cloud_provider")
endpoint(s) == configured(s, "endpoint")
s3bucket(s) == configured(s, "s3_bucket")
s3region(s) == configured(s, "s3_region")
s3AccessKeyId(s) == configured(s, "s3_access_key_id")
s3SecretKey(s) == configured(s, "s3_secret_key")

----------------------------------------------------------------------------
(* Formats *)

\* --log-format replaces the formats of the log, brief and long, in the files.
briefLogFormat(s) == optionOr(s, "log_format", "brief_log_format")
longLogFormat(s) == optionOr(s, "log_format", "long_log_format")
briefJobLogFormat(s) == configured(s, "brief_job_log_format")
longJobLogFormat(s) == configured(s, "long_job_log_format")
longClusterFormat(s) == configured(s, "long_cluster_format")
shortNodeFormat(s) == configured(s, "short_node_format")
longNodeFormat(s) == configured(s, "long_node_format")
longBackupFormat(s) == configured(s, "long_backup_format")
longUserFormat(s) == configured(s, "long_user_format")
logFile(s) == configured(s, "log_file")
\* The default is the compact format.
formatDateTime(s) ==
    IF hasOption(s, "date_format") THEN s.options["date_format"]
    ELSE OrElse(inFiles(s, "date_format"), "compact")
=============================================================================
