------------------------------ MODULE MCBackend ------------------------------
(* Backend for TLC.                                                        *)
EXTENDS Backend

\* "a/b" and "a-b" make the same label.
MCVolumeName(path) == CASE path \in {"a/b", "a-b"} -> "slip-app-a-b" [] path = "c" -> "slip-app-c"

MCContainer(name, base, tag, own) ==
  [name |-> name, image |-> [base |-> base, tag |-> tag], hostPorts |-> {8080},
   env |-> own, mounts |-> {}]

\* An app with a sidecar and a migration as init container.
MCManifests ==
  [web |-> [suffix |-> Nil, restart |-> "Always",
            containers |-> <<MCContainer("web", "app", Hole, <<<<"A", "own">>>>),
                             MCContainer("cache", "redis", "7", <<>>)>>,
            init |-> <<MCContainer("migrate", "app", "v0", <<>>)>>,
            volumes |-> <<[name |-> "slip-app-c", host |-> "/srv/own"]>>]]

MCInput(table, file, secrets, volumes) ==
  [tag |-> "v1", image |-> "app", overrides |-> [cache |-> [base |-> "redis", tag |-> "8"]],
   volumes |-> volumes, workers |-> FALSE, vars |-> table, file |-> file, secrets |-> secrets]

MCRenderInputs ==
  {MCInput(<<<<"A", "env">>, <<"B", "env">>>>, <<<<"B", "file">>, <<"C", "file">>>>,
           <<<<"C", "secret">>>>,
           <<[mount |-> "a/b", host |-> "/srv/1"], [mount |-> "c", host |-> "/srv/2"]>>),
   MCInput(<<<<"B", "env">>>>, <<>>, <<<<"B", "secret">>>>,
           <<[mount |-> "a/b", host |-> "/srv/1"], [mount |-> "a-b", host |-> "/srv/3"]>>)}

MCScenario(backend, ops, drops, sockets) ==
  [backend |-> backend, ops |-> ops, drops |-> drops, sockets |-> sockets]

\* The life of a container with every interleaving of two callers; reading
\* files out of images; pods; commands; the container of a service; what has
\* no unit.
MCScenarios ==
  {MCScenario("docker", {"create", "stop", "start", "remove", "exists", "running"}, FALSE, {"run"}),
   MCScenario("podman", {"create", "start", "remove", "port", "running", "health"}, FALSE, {"run"}),
   MCScenario("docker", {"create", "extract", "inspectSvc", "settle"}, TRUE, {"run"}),
   MCScenario("podman", {"extract", "remove", "inspectSvc"}, TRUE, {"run"}),
   MCScenario("podman", {"podUp", "podDown", "podPort"}, TRUE, {"run"})}
  \cup {MCScenario(b, {"create", "exec", "svcProbe", "svcStdin"}, FALSE, {"run"}) :
          b \in {"docker", "podman"}}
  \cup {MCScenario(b, {"svcCreate", "remove", "inspectSvc"}, TRUE, {"run"}) :
          b \in {"docker", "podman"}}
  \cup {MCScenario(b, {"ping", "pull", "network", "list", "logs", "rootful", "podUp"}, FALSE, s) :
          b \in {"docker", "podman"}, s \in {{"run"}, {"xdg", "run"}}}

\* No scenario tells containers or callers apart.
MCSymmetry == Permutations(Ids) \cup Permutations(Callers)
=============================================================================
