------------------------------ MODULE Composing ------------------------------
(* The requests of the controller as the functions of S9sRpcClient build them *)
(* (src/libs9s/s9srpcclient.cpp).  Every function reads the command line and  *)
(* either refuses locally or sends one request; what the modules built on     *)
(* this one keep of a request is what decides its meaning for the controller: *)
(* the operation, the job it registers, and the cluster it is about.          *)
(*                                                                            *)
(* The command line is a record o:                                            *)
(*   o.mode   the working mode ("cluster", "node", ...)                       *)
(*   o.given  the names of the options given, "conf:NAME" for an entry of the *)
(*            configuration files                                             *)
(*   o.nodes  the protocols of the nodes of --nodes, in order                 *)
(*   o.extra  the number of arguments that are not options                    *)
(*   o.type   the argument of --cluster-type                                  *)
EXTENDS Naturals, Sequences

Given(o, name)   == name \in o.given
GivenAny(o, set) == o.given \cap set # {}

(* What a function leaves behind: the requests it sent and the exit status it *)
(* set by itself, "Ok" when it left the status alone.                         *)
Result(sent, status) == [sent |-> sent, status |-> status]
Send(request)        == Result(<<request>>, "Ok")
RefuseQuietly        == Result(<< >>, "Ok")
RefuseBadOptions     == Result(<< >>, "BadOptions")

-----------------------------------------------------------------------------
(* S9sOptions::clusterId(): the option, else default_cluster_id of the        *)
(* configuration, else S9S_INVALID_CLUSTER_ID.                                *)
clusterId(o) == IF Given(o, "cluster-id") THEN "own"
                ELSE IF Given(o, "conf:default_cluster_id") THEN "default"
                ELSE "invalid"

(* The maps a request starts from.  id: the cluster_id field, "none" when it  *)
(* is absent, "zero" for cluster 0, "fixed" for another number of the code;   *)
(* name: the cluster_name field is there; tags: with_tags or without_tags is. *)
IsRequest(r) ==
    /\ DOMAIN r = {"op", "job", "id", "name", "tags", "scheduled", "title", "dry"}
    /\ r.id \in {"none", "own", "default", "invalid", "zero", "fixed"}
    /\ r.title \in {"none", "given", "own"}
    /\ {r.name, r.tags, r.scheduled, r.dry} \subseteq BOOLEAN

EmptyMap == [op |-> "none", job |-> "none", id |-> "none", name |-> FALSE, tags |-> FALSE,
             scheduled |-> FALSE, title |-> "none", dry |-> FALSE]

(* Mistake: the name of the cluster is forgotten.                             *)
composeRequestById(o) ==
    [EmptyMap EXCEPT
        !.id   = IF clusterId(o) = "invalid" THEN "none" ELSE clusterId(o),
        !.tags = GivenAny(o, {"with-tags", "without-tags"})]
composeRequest(o) ==
    [EmptyMap EXCEPT
        !.id   = IF clusterId(o) = "invalid" THEN "none" ELSE clusterId(o),
        !.name = Given(o, "cluster-name"),
        !.tags = GivenAny(o, {"with-tags", "without-tags"})]

(* The other ways the functions name a cluster: a clusterId argument that the *)
(* caller took from the options, sent whatever it is, or sent when valid; the *)
(* --cluster-id option when it is there; that one or else --cluster-name.     *)
ForCluster(o)   == [EmptyMap EXCEPT !.id = clusterId(o)]
ForValid(o)     == [EmptyMap EXCEPT !.id = composeRequest(o).id]
ForValidOrName(o) == [ForValid(o) EXCEPT !.name = Given(o, "cluster-name")]
ForOption(o)    == [EmptyMap EXCEPT !.id = IF Given(o, "cluster-id") THEN "own" ELSE "none"]
ForIdOrName(o)  == [ForOption(o) EXCEPT
                       !.name = ~Given(o, "cluster-id") /\ Given(o, "cluster-name")]
ForZero         == [EmptyMap EXCEPT !.id = "zero"]

Op(map, op)   == [map EXCEPT !.op = op]
Call(map, op) == Send(Op(map, op))

(* composeJob(): the schedule, the recurrence and the tags of the job, and    *)
(* the title of --job-title.                                                  *)
(* Mistake: only a recurrence makes the job a scheduled one.                  *)
composeJobNow(o, map) ==
    [map EXCEPT !.scheduled = Given(o, "recurrence"),
                !.title     = IF Given(o, "job-title") THEN "given" ELSE "none"]
composeJob(o, map) ==
    [map EXCEPT !.scheduled = GivenAny(o, {"schedule", "recurrence"}),
                !.title     = IF Given(o, "job-title") THEN "given" ELSE "none"]

(* composeJobData(): of the data of a job only the dry run is kept.           *)
composeJobData(o, map) == [map EXCEPT !.dry = Given(o, "dry")]

(* createJobInstance as nearly every function ends: a job composed with and   *)
(* without job data, whose title the function sets.                           *)
BareJob(o, map, command) ==
    Send([composeJob(o, map) EXCEPT !.op = "createJobInstance", !.job = command, !.title = "own"])
Job(o, map, command)  == BareJob(o, composeJobData(o, map), command)
JobOf(o, command)     == Job(o, composeRequest(o), command)
=============================================================================
