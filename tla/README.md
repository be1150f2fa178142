# Verification of s9s-tools

`s9s` is the command line client of ClusterControl.  One process reads its
options and configuration, talks JSON over one TCP or TLS connection at a time
to a *controller* (`cmon`), prints the answer and ends with an exit status.
The models follow that order: from the command line to the requests it makes
and the exit status it ends with; what happens to one request when controllers
are down or redirect; the stream of an event subscription; the wait for a job;
the two interactive programs that run two threads over one client; and the
files that several processes share.

Paths below are those of the repository; line numbers are in `PROJECT.json`.

## 1. Inventory

`src/s9s/main.cpp` is the order of everything: read the options, create and
load the configuration files, load the state file, execute the request,
return `S9sOptions::m_exitStatus`.

| Component | State | Operations | What is hard, what makes it correct |
|---|---|---|---|
| RPC client (`s9srpcclient.cpp`, `s9srpcclient_p.cpp`) | host and port, socket, buffer, remembered controllers and their `connect_tried` marks, last reply, authenticated flag | `executeRequest`, `doExecuteRequest`, `connect`, `tryNextHost`, `rememberRedirect`, `close` | Controllers stop, come back and redirect to each other; a request fails at any of seven places.  It must end, try everybody it may try, leak no socket, and tell its caller the truth |
| Requests (`s9srpcclient.cpp`) | none | some 200 functions that compose a request or a job | Each decides anew which cluster it is about and whether `--schedule` and `--dry` reach the job |
| JSON record stream (same files) | `m_buffer`, `m_dataSize` | `hasCompleteJSon`, `getCompleteJSon`, `skipRecord` | A record boundary may be anywhere in a read.  Every record reaches the callback once and in order |
| Authentication (`s9srpcclient.cpp`) | session of the controller, `m_authenticated` | `maybeAuthenticate`, with a password or with an RSA key | Session lost at any time; which user, key and password are used |
| Waiting for a job (`s9sbusinesslogic.cpp`) | offset in the log, counters of failures and authentications, last progress line | `jobRegistered`, `waitForJobWithLog`, `waitForJobWithProgress` | Rounds fail or find the session gone.  The log has no gap and no repetition, the exit status is that of the job |
| Command dispatch (`s9sbusinesslogic.cpp`) | none | one branch per command | The accepted combinations of options are those that are executed, and every failure reaches the exit status |
| Options (`s9soptions.cpp`) | the map of options | 26 tables, 26 checks | Options that exclude each other, checked far from where they are used |
| Interactive tree (`s9scommander.cpp`, `s9sdisplay.cpp`) | tree, two browsers, two info panels, editor, dialogs; two mutexes, four flags | two threads: refresh, and keys | Lock order, flags under no lock, replies used after the selection moved |
| Event monitor (`s9smonitor.cpp`) | the last events and the objects they are about; playback position | callback of the stream, keys, playback | Two threads; a subscription that breaks and is made again |
| Configuration and state file (`s9sconfigfile.cpp`, `s9soptions.cpp`) | the nodes of the file; the map of the state | load, change, save | Several processes write the same files, in place |
| User creation (`s9sbusinesslogic.cpp`, `s9srsakey_p.cpp`) | key files, configuration file, pipe | steps, each of which may fail | What a failure in the middle leaves behind, for this run and the next |
| Job and process viewers (`s9stopui.cpp`) | last reply | periodic request, keys | Two threads |
| Editor and list widgets (`s9seditor.cpp`, `s9sdisplaylist.cpp`) | lines, cursor, selection, scroll | one key at a time | Indices at the edges of empty and shrinking lists |
| Replies, data objects, values, graphs, spreadsheets | typed views of JSON | conversions and layout | Pure functions |

Components call each other directly; the shared state is the singleton
`S9sOptions` (exit status, state file), between threads the widgets and the
`S9sRpcClient`, and between processes the files under `~/.s9s`.  The callbacks
are those of the event stream.

`PROJECT.json` lists every component with its status, and every hazard with
the line where it bites and the properties that watch it.  A hazard without a
property is one of a component that is not modelled, one that a theorem covers
for every instance, or one whose wrong outcome nothing in the repository
forbids; its note says which.

## 2. Modules

| Module | Models | Extended by |
|---|---|---|
| `RpcClient` | one client and its controllers | `MCRpcClient`, `RpcClientProofs` |
| `Request` | what a caller of `executeRequest` may rely on | instantiated in `RpcClient` |
| `JsonStream` | the receive buffer, byte by byte | `MCJsonStream`, `JsonStreamProofs` |
| `JobWait` | a command that waits for a job | `MCJobWait`, `JobWaitProofs` |
| `Commander` | the two threads of `s9s tree --watch` | `MCCommander`, `CommanderProofs` |
| `Monitor` | the two threads of `s9s event` | `MCMonitor`, `MonitorProofs` |
| `OptionTables`, `OptionChecks` | reading and checking the command line | `CommandLine` |
| `Composing` and the five `...Requests` | the requests the functions of `S9sRpcClient` compose | `Dispatch` |
| `Dispatch` | the branches of `S9sBusinessLogic::execute` | `CommandLine` |
| `CommandLine` | one run of the program, from its options to its exit status | `MCCommandLine`, `CommandLineProofs` |
| `ConfigFile` | the nodes of a configuration file | `UserSetup`, `Settings` |
| `Settings` | how a setting is looked up among options, files and environment | `MCUserSetup`, `ConfigFileProofs` |
| `UserSetup` | runs that share the configuration, state and key files | `MCUserSetup`, `UserSetupProofs` |

An operator whose comment begins with "Mistake:" is not part of a
specification.  It is a slip the code does not make, kept next to the definition
it would replace, and one property of one run is violated by it.

### 2.1 `RpcClient`

`pc` is the place in `executeRequest`/`doExecuteRequest`/`connect`:
`connect` (before `socket()`), `dial` (name lookup, `::connect`, TLS), `send`,
`read`, `reply` (a parsed reply in the redirect loop), `return`, `idle`.  `host`
is `m_hostName` and `m_port` in one; `servers`, `failed` are `m_servers` and the
`connect_tried` marks in it; `remembered` is the list of controllers in the
state file; `fd` is `m_socketFd`, and `open` is what the process really holds,
which the code does not know.

`LookupFails`, `Refused`, `HandshakeFails` and `Connected` are the outcomes of a
dial.  The first two go through `TryNextHost`, which is the recursion at the end
of `connect()`, as a jump: nothing is done after the recursive call.  `WriteFails`,
`ReadFails`, `BadReply`, `Receive`, `StreamEnds` and `StreamBreaks` are the ways
out of the exchange.  `NoController` and `Redirect` are the loop of
`executeRequest`; its choice of a controller (`Fresh`, `Eligible`, `Picked`,
`Seen`) keeps the code's use of one variable as search result and scratch value.
`Return` is what the kinds of callers do with the outcome: an ordinary command
and an event subscription (`setExitStatus`), the controller ping, `authenticate`,
and a polling loop, which does nothing.  `Restart` is an interrupted program
that is started again with the state file it left.

The controllers are the environment.  They stop and come back at any step and
send any status, and a redirect with any set of controllers and any leader.

### 2.2 `JsonStream`

The framing looks at single bytes, the byte *behind* the data included, so the
buffer is modelled as bytes.  The stream is given by the places where its
records end (`ends`; `Streams` has those a run tries): a record is a separator,
its number repeated and one or two newlines, and `Sent(k)` is the byte at a
place.  One record may be no JSON (`broken`).  `Read` appends, `HandOver` is one
turn of the loop over the records in the buffer, and `SkipRecord` moves the rest
to the front and leaves the old bytes behind it, as `memmove` does.
`pc = "wild"` is a `memmove` whose size wrapped around, after which nothing is said.

### 2.3 `JobWait`

`mode` is how the user waits: `log` (`--log`, `--follow`), `progress` (on a
terminal), `piped` (not on one), `json`, or not at all.  One round is a request
(`RequestFails`, `ErrorReply`, `AuthRequired` then `Authenticated` or
`NotAuthenticated`, `Answer`) and what is done with the reply (`PrintLog`,
`PrintProgress`, `PrintJson`, `SameLine`).  `reply` keeps its value over rounds
because the local variable does: after an authentication the loop goes on with
a reply that holds no job.  The job writes messages and ends between any two
steps.

### 2.4 `Commander`

Two threads.  The main thread's locations (`mainPc`) are the statements of
`main`, `updateTree` and the three `updateObject` between which the other thread
can do something it notices; `want` tells which of the three requests it is
making.  The display thread handles a key in one step when it needs nothing but
`m_mutex`, and in the steps `net`, `request`, `take` when it needs the
controller, holding `m_mutex` throughout.  `screen` and `net` are the holders of
`m_mutex` and `m_networkMutex`.

`m_client.reply()` is one variable, `reply`, that both threads use.  It names
the thread and the request it answers (`of`, `what`), which the program does not
know; the properties compare it with what the thread asked for.  The controller
is a revision number; the tree is the revision it was read at, so a change that
the tree does not show can be told.  Reads without a mutex (`m_reloadRequested`,
`m_communicating`, the selection, the editor's mode) are steps of their own; a
selection read while it may be written is any path.

### 2.5 `Monitor`

The main thread plays a file back (`ReadNext`, `Look`, `StartSkip`, `SkipNext`,
`EndSkip`, `Hold`) or subscribes (`Authenticate`, `Subscribe`, `Subscribed`,
`StreamEnds`) and gets events in the callback (`Arrive`, `Callback`).  Both file an
event in three steps under `m_mutex`: `AppendEvent`, `UpdateObjects`, `DrawEvent`.
The display thread waits for a key, processes it and draws the header and the
objects of the current view, `m_mutex` held from the key to the end of the
drawing.  What is read without the mutex is read in a step of its own: the stop
flag and the presses of the arrow, by the playback.

An event says which object it is about and whether it destroys it; its time is
counted in the three minutes that one press of the right arrow skips.
`processed`, `printed`, `pressed` and `skipped` record what was done and are not
read by the actions.  The properties say what was to be done without repeating
how: `EachOnceInOrder` asks for a one-for-one match between the events that were
processed and those of the feed that had to be, and `ScreenIsOneMoment` for one
number of events after which the header and the objects on the screen are those
that these events lead to.

### 2.6 The command line

`OptionChecks` reads a command line: a mode, the options given, a few *facts*
about their arguments ("the input file can not be read"), the protocols of the
nodes and the number of other arguments.  `OptionTables` holds the options each of
the 26 `readOptions` functions understands, and each `...Checked` operator is one
`checkOptions` function: the main options it counts, what it asks for besides,
and the exit status it refuses with.

`Composing` has the helpers of `S9sRpcClient` that put the cluster into a request
(`composeRequest`, `ForValid`, `ForIdOrName`, ...: the code has nine ways to do so)
and those that put a job into it (`composeJob`, `Job`, `JobOf`, `BareJob`).
A request keeps its operation, its job, the cluster by identifier (`own`: that
of `--cluster-id`, `default`, `zero`, `none`) and by name, and whether the job is
scheduled, dry or titled.  The five `...Requests` modules have an operator per
function of the client, with the same name: `Refuse...` where the function
returns before it sends anything, and a sequence of requests otherwise.

A line is any record of a mode, words, facts, nodes and so on
(`CommandLineAssumption`): the theorems are about every command line that can be
typed, the run about a finite set of them.

`Dispatch` is the if/else chain: `Order(mode)` lists the main options in the
order the chain tries them, `...Branch` what each does and how its outcome is
reported.  `CommandLine` puts it together as a state machine: `Read` or `ReadBad`,
`Info`, the login and its outcomes, `Execute`, one step per request (`Answered`,
`Lost`), the report that sets the exit status, and the wait for a job.

### 2.7 `UserSetup`, `ConfigFile` and `Settings`

`ConfigFile` keeps a file as the list of its nodes, as the parser does, because
what is found and changed depends on their order: `variableValue` takes the first
value of any section, `hasVariable` looks in one section.  `addVariable` with an
empty section name and nothing at the top of the file puts the assignment behind
the first node, whatever that is.

`Settings` has the functions of `S9sOptions` that look a setting up: an option
first, the user's file, the system's file, a default.  Most follow the one rule of
`configured`; the module is written for those that do not (`setController` and
`checkController`, which store what they find as an option; the switches that the
environment can turn on; `hasSshCredentials`).  These are operators on a record of
options, two files and an environment; `MCUserSetup` evaluates `LookedUpInOrder` over
some nine thousand such records, and `ConfigFileProofs` has the theorems.

In `UserSetup` each run reads the configuration and the state, makes a template
if there is none, logs in or not, may be redirected by a controller that follows
another (`Follower`; the redirect is written to the state file and the request
goes on where it was), and lists or creates.  The command line names the
controller.  The creation has every step of `executeCreateUserThroughPipe`: the
version of the controller, the changes to the configuration, the saving
(`OpenToSave` truncates, `save` writes), the key (`generateKeyPair`,
`savePrivateKey`, `savePublicKey`, and the loading of what is there), and the
request through the pipe or by RPC.  Every write may fail and leave the lines
before the failure, the last of them whole, cut or without its value (`Cut`); a
write over a text that another run put there leaves what sticks out behind it
(`Overwritten`); `Kill` ends a run anywhere.  A write of the public key that comes
to a stop leaves none of it, or its beginning (`CutKey`), which nobody on this side
looks into: `HasAuthKey` asks only whether the file has any text.  A cut private
key does not load, which is what `Empty` stands for.  A run that ended keeps only what the
properties ask about (`Ended`).  `torn` names the files of which a write was cut
short, or overlapped with an other run's (`"public"`: a public key was cut):
nothing is locked, so these do get lost.

## 3. Runs

Every bound is a constant in the `.cfg`.  `CHECK_DEADLOCK FALSE` stands in the
runs of programs that end.

| Run | Bounds | Shows |
|---|---|---|
| `RpcSafety` | 3 controllers that come back, 1 of them without a DNS entry, 2 descriptors, 2 requests of 4 kinds | types; never two sockets; a redirect uses up a controller |
| `RpcTermination` | 3 controllers that stop for good, 2 requests | a request ends; failover and redirects implement `Request`; no refusal makes the client give up while it knows of a controller that is still up (none comes back here) |
| `StreamFraming` | 4 records of 1 to 3 bytes, reads of up to 12 bytes | each record handed over once, in order, none held back |
| `JobWaiting` | 4 messages, 2 a round, 3 failures | the log has neither gap nor repetition; the last lines are printed; the exit status tells a bad end; the wait ends; rounds are spaced |
| `CommanderLocks` | 2 entries, 2 changes, refusals and lost replies | no deadlock; own replies; no confirmed change forgotten; widgets show what they name; a file being edited is left alone |
| `CommanderExpire` | 2 entries, 1 change, sessions that are forgotten | requests overlap only during a login |
| `CommanderLive` | 2 entries, 2 changes, no failures | keys are handled; the tree catches up |
| `Monitor` | three feeds of up to 4 events, 3 keys, 2 troubles with the controller | the screen is that of one moment; each event is processed once and in order; no press is lost; watching goes on; a playback ends |
| `CommandLine` | some 50 000 command lines of 26 modes, 3 statuses | one operation per line; the right cluster; `--schedule` and `--dry` reach every job; exit status 0 is true; a bad one stays |
| `UserSetup` | 2 runs, 2 users, 3 controllers (one old, one that redirects), 2 key pairs, 3 commands (a list, a creation with a new key, one without), with and without a configuration | no setting or redirect is lost by failures and kills; a registered key is the text of the user's public key file and, unless a write of it was cut, whole and that of the private key beside it; what was not asked for is reported |

Why the bounds are enough.

* Three controllers give a current one, a leader and a third that is neither,
  which every branch of the redirect loop tells apart; two requests show what
  the first leaves for the second; 15 redirects can not be reached, which
  `RedirectsUseUpControllers` says and a theorem proves for every number of
  controllers.
* A full read (12 bytes) can end at a record, and four records are two more than
  the loop over the buffer has cases.
* Two messages a round and four messages give an empty, a half full, a full and
  a second full round; three failures is the code's number.
* Two changes of the tree allow a change while the tree of the one before is
  being read.
* The feeds of `Monitor` have an object that is changed, destroyed and created
  again, two events at one time and two that are more than a skip apart, and one
  of an other cluster; two of its four events are kept.  Three keys allow a pause, a
  press while it is skipped for, and a change of the view.
* `MCCommandLine` has every main option alone, with each other one, and with no,
  one, two, all and all but one of the options its functions look at, with the
  lists of nodes and facts that something depends on.  Options that nothing in
  the branch reads make no difference, so larger combinations add nothing.
* Two runs of `UserSetup` interleave at every step, or follow each other; the
  second is what finds the leavings of the first.  Of the three commands one asks
  and is redirected, with a redirect of an earlier run in the state file; that a
  creation is redirected half-way is in the specification and the theorems, not
  in this run.  The theorems are about any number.

Runs that end in a violation, each of a sentence the repository says of itself:

| Run | Sentence | What the code does |
|---|---|---|
| `StreamSplit` | "at least one complete JSon string is in the buffer" (comment of `hasCompleteJSon`) | true of the first half of a record |
| `UserRetry` | `cmon_user` "is not for specifying what user we want to create", the pipe is the way the first user is created (`doc/s9s-user.1`) | a creation that stops after it saved the name is refused when repeated: it logs in as the user it is to create |

The `findings` of `PROJECT.json` quote the lines.

### What else the code does

The specifications model the code as it is.  Where a property needs an
exception for that, the exception is named and commented in the module; a reader
may want to know of these.

*The client.*  A controller whose name is not known is not marked as tried and
is tried for ever (`s9srpcclient_p.cpp:208`).  The controller ping passes
`DenyRedirect` in the place of `printRequest` and is redirected
(`s9srpcclient.h:527`).  A controller skipped for not being the leader is used
when it comes last (`Picked`).  Exit status 5 becomes 2 (`ExitStatus`).  A stream
that breaks leaves exit status 0 (`StreamBreaks`).  Descriptor 0 is not closed
before the next connection (`StillOpen`).  A controller that failed once keeps its
mark when it comes back, so a client that lives on does not try it again
(`s9srpcclient_p.cpp:640-688`).  A byte behind the data can be taken for
a separator.  A record that ends in one newline, as the comment at
`s9srpcclient.cpp:13082` has it, is never taken from the buffer and handed over
again and again (`OneNewlineRepeats`).  After an "objectNotFound" the exit status is that of any other
failure (`requestStatus`).

*Jobs.*  A job that ended with more messages than one round brings never has its
last lines printed (`s9sbusinesslogic.cpp:2674` promises them for the next round);
`TailComplete` says that this is the only way to lose them.

*The command line.*  `NotCounted` lists main options that a check does not count,
so that two may be given and one is dropped: `user --create` with
`--preferences-to-set` creates nobody.  `Unheard` lists operations whose refusal
leaves exit status 0; some seventy incomplete command lines are refused locally
with exit status 0 (`RefuseQuietly`).  `backup --delete --dry` deletes.
`cluster --usr1`, `server --move`, `node --push-config` and `process --top-digests`
are accepted and have no branch.  A `--set-max-clusters-capacity` that is refused
locally prints that the capacity was set, because the branch looks at the reply of
the login (`ReportOwn`).  An incomplete cloud backup sends a request
without a job (`CloudComplete`).  With `default_cluster_id` configured
`--cluster-name` goes out together with the default identifier, and the
functions with `ForOption` and `ForIdOrName` ignore the default.  In 19 modes
`--config-file` is stored as `config-file` and read as `config_file`; where it is
read, an empty string is parsed in place of the file (`s9soptions.cpp:804-834`).

*The monitor.*  The right arrow silences the list of live events
(`s9smonitor.cpp:1244`).  Types are filtered in the list only.  A skip that reaches
the end of the file processes an empty event (`NoEvent`).  At the end of the file
`main()` returns while the display thread runs.  Only servers are ever taken
out of the containers (`Destroys`).  Events between two subscriptions are not sent.

*Users and files.*  A run can end with exit status 0 and nothing done: the
configuration does not parse or can not be saved, or the user is to have a
password and the key for a new controller's pipe is not there.  Overlapping runs
lose each other's changes and may leave a file that does not parse (`torn`).  A
configured password is used with any `--cmon-user`.  A public key cut by a failed
write or a kill has its beginning registered with the controller: the failure is
only printed (`s9sbusinesslogic.cpp:2800`), the private key loads, and any text
passes for a public key (`s9sbusinesslogic.cpp:2828`).  No later run repairs it, as
none generates keys over a valid private key.

*Settings.*  `--replication-password` without `--replication-user` ends the program
with an exception nobody catches (`replicationUserThrows`).  An address without
port or protocol keeps those of the address before it (`AddressesMix`).
`hasSshCredentials` misses what stands in a section, as in the template
(`CredentialsInSectionsAreMissed`).  The connection timeout is 30 seconds unless
`S9S_CONNECTION_TIMEOUT` says otherwise; `doc/s9s.1` says 10.

## 4. Fairness

* `RpcClient`, `WF(Step)`: a client that was started goes on.  Every `read` and
  `write` has a timeout (`SO_RCVTIMEO`, `SO_SNDTIMEO`), so no call blocks for ever.
  Nothing is assumed of the controllers, and nothing of `Start`.
* `JobWait`, `WF(Client)`: requests come back and `sleep(1)` ends.  Nothing is
  assumed of the job: `WaitEnds` says what follows once it ended, provided that
  the controller does not answer with errors for ever.
* `Commander`, `SF(MainStep)`, `WF(DisplayStep)`, `SF(DisplayTakes)`: each thread
  goes on; the display thread leaves `m_mutex` free for the time between two
  keys, while it sleeps in `exec()`, so the main thread is not starved although
  its step is disabled again and again; a job that is waited for ends.  No
  fairness is assumed of the user.
* `Monitor`: weak fairness of the steps of either thread that wait for nothing, and
  strong fairness of those that wait for `m_mutex` (or, `Arrive`, for an event
  among logins and broken streams), which the other thread leaves free while it
  sleeps or reads.  The keys and what goes wrong with the controller
  are bounded, and no fairness makes them happen.

`JsonStream`, `CommandLine` and `UserSetup` state no fairness: their properties are
about what was done, never that it will be.

## 5. Proofs

`tlapm` proves for all values of the constants, given only the named assumptions
in the modules (finite set of controllers, keys with one order, positive limits,
events that are events):

* `RpcClientProofs`.  `TypeCorrect`.  `SocketCorrect`: at most one socket, when
  descriptor 0 is taken (`connect` takes 0 for no connection); the
  invariant is inductive with the types, since each way out either closes or
  leaves `m_socketFd` for the next `connect`.  `RedirectsCorrect`: `nTry` is at
  most the number of tried keys, since the controller chosen is always a new
  key.  `RefinesRequest`: every step is a step or a stutter of `Request`, with
  `Cardinality(Controller)` hops; it rests on the invariant before.
  `FailoverCorrect`: while no controller comes back, the marked ones are down
  (`FailedAreDown`), so a client that gives up has nobody left.
  `FailureCorrect`: the exit status and the reply of every failure but that of a
  subscription are those of a lost connection (`FailureReported`); it is inductive
  alone, and no run repeats it.
* `JobWaitProofs`.  `Inductive` proves
  `IInv == TypeOK /\ ReplyInv /\ LogInv /\ ExitInv`.  `LogInv` says that what was
  printed is `1..nLogsPrinted`; alone it is not inductive, because a round
  appends the messages of `reply`, which was filled in an earlier step.
  `ReplyInv` supplies that: in `show` the reply begins at `nLogsPrinted` and ends
  no later than the log, and a reply that tells of an ended job never survives
  into an other round.  `LogCorrect`, `TailCorrect` and `ExitCorrect` follow.
* `CommanderProofs`.  `LocksInv`: each mutex is held exactly where the control is
  between lock and unlock, to which it must be added that no request is named
  while a viewed file is read.  With `InsideWhereItIs` it gives
  `RequestsKeptApart`: two requests overlap only while the main thread logs in
  again.  `RepliesMatch`, inductive with them when the session lasts, gives
  `OwnReplyCorrect`, and `ShownCorrect` rests on that.  `TypeCorrect` is proved
  along the way.  `EditingCorrect` rests on `ViewLocked`: from the second look at
  the editor to the end of the update `m_mutex` keeps the display thread from
  closing or opening it.  `ReloadCorrect` rests on `ReloadInv`: whenever the tree is
  older than the last confirmed change, a reload is requested, or the display
  thread has the confirmation in hand and will request it (`Confirmed`), or the
  tree is on its way (`TreeComing`); and a tree that was read too early comes with
  one of the first two.  That the flag is cleared *before* the request goes out
  is what makes it inductive.
* `MonitorProofs`.  `IInv` has four parts: the types of the events (`EventInv`), who
  holds `m_mutex` where (`MutexInv`), the presses of the arrow (`PressInv`) and the
  list (`ListInv`).  `PressesCorrect` needs to know that `target`, the presses that
  are being skipped for, is set only between two places of the playback;
  `ListCorrect` that the event at hand passed the filter if the mode is that of the
  list, which no key can bring back.  `ExitCorrect` follows from `MutexInv`.
  `ListIsFiltered` and `ExitBetweenEvents` are proved and no run repeats them.
  `OrderCorrect` and `ScreenCorrect` rest on `EventsInvariance`, three more parts on
  top of `IInv`.  `OrderInv` keeps a match between the processed events and those of
  the feed: a step that processes the wanted event extends it by one pair
  (`MatchExtends`), a step that drops an unwanted one keeps it (`MatchKeeps`).
  `ContainerInv` says that the containers are what the processed events make of
  them, the objects one event behind while `update` has not run; `ObjectsAppend`
  is the lemma for it: what one more event changes of the last events of all
  objects.  `ScreenInv` adds that while the objects are drawn the header is that of
  the present, since `m_mutex` is held.
* `ConfigFileProofs`.  A file is a sequence of any length.  A setting is a section, a
  name and a value, and the section of an assignment is that of the last header
  before it, a greatest element of a set of places: `HighestIs` and `GreatestExists`
  come from the well-foundedness of `<`, which stands in for induction over the
  file.  `SameSections` shows that a map of places that keeps their order and hits
  every header keeps the sections, and with it `AppendKeeps` and `InsertKeeps` that
  putting lines in loses no setting; then `AddVariableKeeps`, and
  `SetVariableCorrect`: after a variable was set in a section, every setting of
  another variable is still there.
  The module also has the theorems about `Settings`.  `SavedIsFound` joins the two:
  what `setVariable` saves where no section assigns the variable is what the next
  run finds, in any section and over any system file.  `ControllerSettles`: after
  the first question who is asked does not change any more, but for a file that
  holds a bare protocol.  `AddressesMix` and `CredentialsInSectionsAreMissed` state
  exactly what is mixed and what is missed.
* `JsonStreamProofs`.  `TypeCorrect` needs no hypothesis: whatever the stream looks
  like, however it is cut and whatever stands behind the data, and where
  `skipRecord()` would run out of the buffer the model ends with the buffer as it
  was.  The invariant is `Framed`: the data is `Sent(Start + 1)`, `Sent(Start + 2)`
  and so on, where `Start` is the end of the last record handed over or, once its
  separator went with the record before, one place further; no data waits in
  `read` but behind a full read.  `HandedInOrder` alone is not inductive, since it
  says nothing of the bytes.  `FrontRecord` is the lemma it turns on: the first
  empty line of such data is the end of the first record, and behind it is a
  separator if there is more data.  `FramedCorrect`, `HandedInOrderCorrect` and
  `AllHandedOverCorrect` follow for records of any number and length and for all
  stale bytes, under two hypotheses: reads end where a record does (`StreamSplit`
  shows that they must) and records end in an empty line.  `OneNewlineRepeats` is
  about the other kind, without a hypothesis on the reads: `Kept`, that the whole
  stream is still in the buffer, is inductive because there is no empty line to
  find.  The places in a stream are put in order by the least element of a set of
  numbers (`LeastIn`), which stands in for induction over the records.
* `UserSetupProofs`.  `IInv` has the types of the runs' memory (`RunInv`, one predicate
  `RunOK` of a place and a record, so that every step is looked at for one run
  and the others are framed), those of the files, `KeyInv`, `StateInv` and
  `SettingInv`.  `RegisteredKeyIsOnDisk` is not inductive: `KeyInv` adds that a
  public key file with text holds the key, or the beginning of the key, of the
  private one beside it (`PublicInv`), that what is on its way to the controller is
  that text (`Sent`), that one run at most is about to write a user's public key
  (`AloneInv`) and finds none there, and that a run about to write a private key has
  seen no valid one.  `StateInv` adds that one run
  at most has the state file open and is about to write every redirect, and
  `SettingInv` the same of the configuration, where `RunOK` supplies that an edited
  text says all that the text it was read from did (`SetIfMissingKeeps`, from
  `ConfigFileProofs`).  `KeyCorrect`, `RedirectsCorrect`, `SettingsCorrect`, `ExitCorrect`
  and `TypeCorrect` follow for any number of runs, users, controllers and names,
  and for any configuration.
* `CommandLineProofs`.  First what the 26 branches send, for every command line.  `Lawful` is
  what reading the line leaves of it: a mode whose table does not understand
  `--cluster-id` never gets one (`ReadIsLawful`, from the tables).  `Good` says that a
  function sends nothing, or one request that is about its cluster and as asked;
  there is one lemma per way of composing (`CallGood`, `JobGood`, `ExemptGood`,
  `IdentifierGood`, `ThenGood`) and one per mode that its branches are `BranchGood`:
  besides, all requests but the last, or all if nobody looks at the reply, are
  among the `Unheard`, and only a branch that registers jobs makes one.
  `BranchOfGood` puts the modes together; `MainOptionIsFirst` says which branch it is.
  Then the state machine.  `IInv == Stages /\ Requests /\ Outcomes`.  `Requests` carries
  `BranchGood` over the sending: what was sent and what is left to send fit, and
  all but the last may go unheard.  `Outcomes` relates the reply the exit status
  is taken from to the last request, and says that a job is waited for only after
  everything was heard.  Neither is inductive without the other: that exit status
  0 is true needs to know that the replies that were overwritten did not matter.
  `RequestsAboutTheirCluster`, `JobsAsAsked` and `SuccessMeansSuccess` follow.
  `OneOperationAtATime` needs `Chosen`, that the branch was chosen for a line that
  passed its check, and `CheckedIsSingle`, which compares the 26 checks with the 26
  orders of the chain.  `ExitStaysBad` goes through the writers of the exit status.

Only model-checked:

* every liveness property (`RequestEnds`, `WaitEnds`, `RoundsAreSpaced`,
  `KeysAreHandled`, `TreeCatchesUp`, `WatchCatchesUp`, `PlaybackEnds`), because fairness
  and ENABLED are outside what the prover does.

Every invariant and every action property of the passing runs is stated by a
theorem.  `HandedInOrder` and `AllHandedOver` have the two hypotheses above, which are the
constants of `StreamFraming`.  `LookedUpInOrder` is evaluated by TLC over its
records and not proved.

## 6. Not modelled

* Within the modelled parts: the data of a request beyond its operation, job and
  cluster; the text of replies; TLS beyond its failure; the challenge of the
  login and its signature; drawing and the moving of a cursor; the parsing of
  the arguments of options.
* The job and process viewers (`s9stopui.cpp`): the display thread of `Monitor`
  over replies that are copied under the same mutex.
* The editor and the list widgets: sequential code over lines and indices.  Two
  of its hazards are listed.
* The parsers of configuration and JSON are generated; the include stack of
  the configuration is used by no file `s9s` writes.
* Data objects, values, files, graphs and spreadsheets convert and lay out, and
  keep no state that a property could relate.

What could come next: the viewers and the editor's lines; `default_cluster_id` in
`AboutItsCluster`; the stream of `JsonStream` as the source of `Monitor`'s events.
