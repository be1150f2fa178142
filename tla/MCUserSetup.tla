----------------------------- MODULE MCUserSetup -----------------------------
(***************************************************************************)
(* A small instance of UserSetup: an administrator with a password and a    *)
(* user to create, on a controller, an old one or one that is a follower.   *)
(***************************************************************************)
EXTENDS UserSetup, Settings, TLC

CONSTANTS r1, r2, admin, ada, c1, c2, c3

MCRun == {r1, r2}
\* The two runs do the same, in any order.
Symmetry == Permutations(MCRun)
MCUser == {admin, ada}
MCUrl == {c1, c2, c3}
MCName == {"global", "cmon_user", "cmon_password", "controller"}

Plain == [kind |-> "create", user |-> ada, as |-> None, password |-> None,
          gen |-> TRUE, secret |-> FALSE, url |-> c1]

\* The first user, the same one with a password and the key there is on the old
\* controller, and a question of the administrator to one that may send it on to
\* the leader.
MCCommand ==
    {Plain,
     [Plain EXCEPT !.gen = FALSE, !.secret = TRUE, !.url = c2],
     [Plain EXCEPT !.kind = "list", !.user = None, !.gen = FALSE, !.as = admin,
                   !.password = admin, !.url = c3]}

\* No file, and a file that has the administrator's name and password at its
\* top and a controller in [global].
MCConfig ==
    {<<>>,
     <<Assignment("cmon_user", admin), NewLine, Assignment("cmon_password", admin), NewLine,
       Section("global"), NewLine, Assignment("controller", c2)>>}

----------------------------------------------------------------------------
(* The lookup of settings: texts stand for what is found in them. *)

MCNumber == ("0" :> 0) @@ ("5" :> 5) @@ ("9999" :> 9999)
MCTruth == {"yes", "5"}
MCAddress ==
    LET Parts(protocol, host, port) ==
            [protocol |-> protocol, host |-> host, port |-> port, path |-> NoValue]
    IN  (LocalController :> Parts("https", "localhost", "9501")) @@
        ("a:9999" :> Parts(NoValue, "a", "9999")) @@ ("rpc://b" :> Parts("rpc", "b", NoValue)) @@
        (NoValue :> Parts(NoValue, NoValue, NoValue))

\* Files with a value at the top, in a section, or in two sections.
Lines(key, value) ==
    LET line == Assignment(key, value)
    IN  {<<>>, <<line>>, <<Section("global"), line>>,
         <<Section("x"), Assignment(key, NoValue), NewLine, Section("global"), line>>}

Lookups(key, values) ==
    [options : {<<>>} \cup {key :> v : v \in values},
     user : UNION {Lines(key, v) : v \in values}, system : UNION {Lines(key, v) : v \in values},
     env : {<<>>, "CMON_CONTROLLER" :> "a:9999", "S9S_MASK_PASSWORDS" :> "5"}]

\* An option that is not empty is what counts, in every one of these states; a
\* switch that something turns on stays on; and who asks first for the
\* controller does not change who is asked.
ASSUME LookedUpInOrder ==
    /\ \A s \in Lookups("os_user", {"5", "yes", NoValue}) :
          getString(s, "os_user") # NoValue => osUser(s) = s.options["os_user"]
    /\ \A s \in Lookups("mask_passwords", {"0", "yes"}) :
          maskPasswords(s) <=> getenv(s, "S9S_MASK_PASSWORDS") = "5" \/ getString(s, "mask_passwords") = "yes"
              \/ \E ast \in {s.user, s.system} : variableValue(ast, "mask_passwords") = "yes"
    /\ \A s \in Lookups("controller", DOMAIN MCAddress \cup Bare) :
          LET c == checkController(Constructed(s))
          IN  /\ checkController(c) = c
              /\ controllerUrl(c) = controllerUrl(Constructed(s))
              /\ "CMON_CONTROLLER" \in DOMAIN s.env => controllerPort(s) \in {9501, 9999} /\ controllerHostName(c) = "a"
==============================================================================
