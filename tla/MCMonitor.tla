------------------------------ MODULE MCMonitor ------------------------------
(* The feeds of the runs: an object that is changed, destroyed and created    *)
(* again among others, in events of two types, close together and far apart.  *)
EXTENDS Monitor

E(n, at, o, k, gone) ==
    [id |-> n, created |-> at, about |-> o, kind |-> k, destroyed |-> gone,
     type |-> IF k = "server" THEN "host" ELSE k, cluster |-> IF o = "other" THEN 2 ELSE 1]

MCFeeds ==
    {<< >>,
     <<E(1, 1, "server", "server", FALSE), E(2, 1, "job", "job", FALSE),
       E(3, 2, "server", "server", TRUE), E(4, 4, "server", "server", FALSE)>>,
     <<E(1, 1, "other", "host", FALSE), E(2, 2, "server", "server", FALSE),
       E(3, 3, "server", "server", TRUE)>>}
=============================================================================
