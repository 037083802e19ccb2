-------------------------------- MODULE MCFiles --------------------------------
(* Files for TLC.                                                          *)
EXTENDS Files

MCPaths ==
  {<<"inst", "active">>, <<"inst", "tmp">>, <<"base", "app">>, <<"app", "key">>,
   <<"apps", "cfg">>, <<"apps", "cfgtmp">>, <<"reg", "index">>, <<"reg", "indextmp">>}
  \cup {<<"reg", h>> : h \in Hosts}
  \cup {<<"inst", g>> : g \in Gens} \cup {<<"app", r>> : r \in Requests}
  \cup UNION {{<<g, "raw">>, <<g, "pgpass">>} : g \in Gens}

\* Generations with every fault; their cleanup with power failures; the first
\* secret of an app; later ones with every fault; deploy keys without the lock
\* against a delete; config files, with clients that stay or go;
\* and registry logins, one after the other or at once.
MCScenarios ==
  {[kinds |-> {"generate"}, events |-> {"crash", "power"}, fails |-> TRUE, namespace |-> TRUE,
    serial |-> FALSE],
   [kinds |-> {"generate", "cleanup"}, events |-> {"power"}, fails |-> FALSE, namespace |-> TRUE,
    serial |-> FALSE],
   [kinds |-> {"set"}, events |-> {"power"}, fails |-> FALSE, namespace |-> FALSE,
    serial |-> FALSE],
   [kinds |-> {"set", "remove"}, events |-> {"crash", "power"}, fails |-> TRUE, namespace |-> TRUE,
    serial |-> FALSE],
   [kinds |-> {"key", "clear"}, events |-> {"power"}, fails |-> TRUE, namespace |-> TRUE,
    serial |-> FALSE],
   [kinds |-> {"apply"}, events |-> {"crash"}, fails |-> TRUE, namespace |-> TRUE,
    serial |-> FALSE],
   [kinds |-> {"apply"}, events |-> {"disconnect"}, fails |-> FALSE, namespace |-> TRUE,
    serial |-> FALSE],
   [kinds |-> {"login", "logout"}, events |-> {"crash"}, fails |-> TRUE, namespace |-> TRUE,
    serial |-> TRUE],
   [kinds |-> {"login"}, events |-> {"power"}, fails |-> FALSE, namespace |-> TRUE,
    serial |-> FALSE]}

MCTokens == [h \in {DockerHub} |-> CHOOSE v \in Values : TRUE]

=============================================================================
