---------------------------- MODULE ObjectRequests ----------------------------
(* The requests about the tree of the controller, servers, containers, users, *)
(* groups, accounts, databases, scripts and spreadsheets                      *)
(* (src/libs9s/s9srpcclient.cpp 710-733, 8198-9240 and 9842-10916).           *)
EXTENDS Composing

OneArgument(o, result) == IF o.extra # 1 THEN RefuseQuietly ELSE result
OneArgumentOrBad(o, result) == IF o.extra # 1 THEN RefuseBadOptions ELSE result
AtMostOne(o, result)   == IF o.extra > 1 THEN RefuseQuietly ELSE result

-----------------------------------------------------------------------------
(* The tree.                                                                  *)
getTree           == Call(EmptyMap, "getTree")
moveInTree        == Call(EmptyMap, "move")
rename            == Call(EmptyMap, "rename")
renameOrMove(o)   == IF o.extra # 2 THEN RefuseQuietly
                     ELSE IF Given(o, "target:path") THEN moveInTree ELSE rename
cat(o)            == OneArgument(o, Call(EmptyMap, "cat"))
getObjectOf       == Call(EmptyMap, "getObject")
getObject(o)      == OneArgument(o, getObjectOf)
getAcl(o)         == IF Given(o, "servers") THEN Call(EmptyMap, "getAcl")
                     ELSE OneArgument(o, Call(EmptyMap, "getAcl"))
startInTree(o)    == OneArgument(o, Call(EmptyMap, "start"))
With(o, name, op) == OneArgument(o, IF Given(o, name) THEN Call(EmptyMap, op) ELSE RefuseQuietly)
addAcl(o)         == With(o, "acl", "addAcl")
removeAcl(o)      == With(o, "acl", "removeAcl")
addTag(o)         == With(o, "tag", "appendTag")
removeTag(o)      == With(o, "tag", "removeTag")
checkAccess(o)    == With(o, "privileges", "checkAccess")
chOwn(o)          == With(o, "owner", "chown")
mkdirOf           == Call(EmptyMap, "mkdir")
mkdir(o)          == OneArgument(o, mkdirOf)
rmdir(o)          == OneArgument(o, Call(EmptyMap, "rmdir"))
mkfileOf          == Call(EmptyMap, "mkfile")
mkfile(o)         == OneArgument(o, mkfileOf)
setContentOf      == Call(EmptyMap, "setcontent")
setContent(o)     == IF Given(o, "input-file:unreadable") THEN RefuseQuietly
                     ELSE OneArgument(o, setContentOf)
enableCmonHa      == setContentOf
deleteFromTreeOf  == Call(EmptyMap, "delete")
deleteFromTree(o) == OneArgument(o, deleteFromTreeOf)

-----------------------------------------------------------------------------
(* Servers and containers.  The job data of an operation on one container is  *)
(* a map of its own: it knows nothing of the options composeJobData() reads.  *)
registerServers     == Call(EmptyMap, "registerServers")
startServers        == Call(EmptyMap, "startServers")
stopServers         == Call(EmptyMap, "shutdownServers")
unregisterServers   == Call(EmptyMap, "unregisterServers")
getContainers       == Call(EmptyMap, "getContainers")
getServers          == Call(EmptyMap, "getServers")
getControllers      == Call(EmptyMap, "getControllers")
createServer(o)     == IF ~Given(o, "servers") \/ Given(o, "servers:many") THEN RefuseQuietly
                       ELSE Job(o, EmptyMap, "create_container_server")

createContainerWithJob(o) ==
    IF Given(o, "servers:many") THEN RefuseQuietly
    ELSE Job(o, EmptyMap, IF Given(o, "containers") \/ o.extra > 0 THEN "create_containers"
                          ELSE "create_container")
composeJobDataOneContainer(o, result) ==
    IF o.extra + (IF Given(o, "containers") THEN 1 ELSE 0) # 1 THEN RefuseQuietly ELSE result
ContainerJob(o, command)  == composeJobDataOneContainer(o, BareJob(o, EmptyMap, command))
deleteContainerWithJob(o) == ContainerJob(o, "delete_container")
startContainerWithJob(o)  == ContainerJob(o, "start_container")
stopContainerWithJob(o)   == ContainerJob(o, "stop_container")

-----------------------------------------------------------------------------
(* Users, groups and their keys.                                              *)
createUserRequest       == Op(EmptyMap, "createUser")
createUser              == Send(createUserRequest)
createGroup(o)          == OneArgumentOrBad(o, Call(EmptyMap, "createGroup"))
deleteGroup(o)          == OneArgumentOrBad(o, Call(EmptyMap, "deleteGroup"))
deleteUser(o)           == OneArgumentOrBad(o, Call(EmptyMap, "deleteUser"))
addToGroupOf            == Call(EmptyMap, "addToGroup")
addToGroup(o)           == OneArgumentOrBad(o, addToGroupOf)
setGroup(o)             == OneArgumentOrBad(o, addToGroupOf)
removeFromGroup(o)      == OneArgumentOrBad(o, Call(EmptyMap, "removeFromGroup"))
resetPassword           == Call(EmptyMap, "passwordReset")
getUsers(o)             == Call(composeRequest(o), "getUsers")
whoAmI                  == Call(EmptyMap, "whoAmI")
getGroups               == Call(EmptyMap, "getGroups")
canCreateUser           == Call(EmptyMap, "canCreateUser")
setUser(o)              == AtMostOne(o, Call(EmptyMap, "setUser"))
(* Without a name the two print an error and send the request all the same.   *)
enableUser(o)           == AtMostOne(o, Call(EmptyMap, "enable"))
disableUser(o)          == AtMostOne(o, Call(EmptyMap, "disable"))
getKeys(o)              == AtMostOne(o, Call(EmptyMap, "getKeys"))
addKey(o)               == IF Given(o, "public-key-file:readable")
                           THEN AtMostOne(o, Call(EmptyMap, "addKey")) ELSE RefuseQuietly
setPassword(o)          == AtMostOne(o, Call(EmptyMap, "changePassword"))
getUserPreferences      == Call(EmptyMap, "getUserPreferences")
setUserPreferences(o)   == IF Given(o, "preferences:malformed") THEN RefuseBadOptions
                           ELSE Call(EmptyMap, "setUserPreferences")
deleteUserPreferences(o) == IF Given(o, "preferences:none") THEN RefuseBadOptions
                            ELSE Call(EmptyMap, "deleteUserPreferences")

-----------------------------------------------------------------------------
(* Accounts, databases, scripts, spreadsheets and what the controller knows   *)
(* of the cluster types.                                                      *)
createAccount(o)    == Call(composeRequest(o), "createAccount")
getAccounts(o)      == Call(composeRequest(o), "getAccounts")
grantPrivileges(o)  == Call(composeRequest(o), "grantPrivileges")
revokePrivileges(o) == Call(composeRequest(o), "revokePrivileges")
deleteAccount(o)    == Call(composeRequest(o), "deleteAccount")
createDatabase(o)   == Call(composeRequest(o), "createDatabase")
createDeleteDatabaseJob(o) == Job(o, composeRequest(o), "delete_database")
getSpreadsheets(o)  == Call(composeRequest(o), "getSpreadsheetNames")
getSpreadsheet(o)   == OneArgumentOrBad(o, Call(composeRequest(o), "getSpreadsheet"))
createSpreadsheet(o) == IF Given(o, "input-file:unreadable") THEN RefuseBadOptions
                        ELSE OneArgumentOrBad(o, Call(composeRequest(o), "createSpreadsheet"))
setCell(o)          == Call(composeRequest(o), "setCell")
createLocalRepository(o) ==
    Job(o, [EmptyMap EXCEPT !.id = "fixed"], "create_local_repository")
(* The first call of a client registers a job that creates a repository in    *)
(* cluster 1 before it asks for the repositories.                             *)
getRepositories(o, first) ==
    Result((IF first THEN createLocalRepository(o).sent ELSE << >>)
               \o <<Op(composeRequest(o), "getRepositories")>>, "Ok")
getSupportedSetups  == Call(EmptyMap, "getSupportedSetups")
saveScript(o)       == Call(composeRequest(o), "saveScript")
executeExternalScript(o) == Call(composeRequest(o), "executeExternalScript")
executeScript(o)    == Call(composeRequest(o), "executeScript")
removeScript(o)     == Call(composeRequest(o), "removeScript")
treeScripts(o)      == Call(composeRequest(o), "dirTree")
subscribeEvents(o)  == Call(composeRequest(o), "subscribe")
=============================================================================
