------------------------------ MODULE MCOperator ------------------------------
(* Operator for TLC.                                                       *)
EXTENDS Operator

Repo ==
  [image |-> "app", domain |-> "host", routes |-> 0,
   health |-> [path |-> None, interval |-> None, expect |-> None],
   resources |-> None, deploy |-> None, env |-> {}, volumes |-> {}, needs |-> {}]

Env(v) == [key |-> "K", value |-> v]

\* Repositories: the plain one; sections and env set, with overlapping status
\* ranges; a section that is partly set, and a need; one without an image; and
\* ones that are refused.
Full == [Repo EXCEPT !.health = [path |-> "/up", interval |-> 3 * Ms,
                                 expect |-> <<<<4, 5>>, <<1, 3>>, <<2, 2>>, <<8, 9>>>>],
                     !.resources = [memory |-> "1g"], !.deploy = [strategy |-> "recreate"],
                     !.env = {Env("1")}]
Other == [Repo EXCEPT !.health.path = "/other", !.env = {Env("2")}]
Partly == [Repo EXCEPT !.deploy = [strategy |-> None], !.health.path = "/up", !.needs = {"db"}]
Sparse == [Repo EXCEPT !.image = None, !.env = {Env("${VAR}")}]
Mounts == [Repo EXCEPT !.volumes = {"/data"}]
Clash == [Repo EXCEPT !.needs = {"db"}, !.env = {[key |-> "DATABASE_URL", value |-> "1"]}]

Started == [Defaults EXCEPT !.image = "old", !.domain = "host", !.env = {Env("1")},
                            !.health.interval = 3 * Sec, !.tls = "acme",
                            !.volumes = {[mount |-> "/data", host |-> "/srv"]}]

\* An app with [[routing.routes]], which the server's own file declares.
Routed == [Started EXCEPT !.routes = 2]

One == {CHOOSE o \in Operators : TRUE}

\* Two operators create, or update, the app, with crashes; both with clients that hang
\* up, deletes, crashes and failing writes; one beside two deploys of an app with routes;
\* one, or two, beside one deploy with clients that hang up and crashes; one beside two
\* deploys with deletes and failing writes; and deploys and rollbacks alone: three, or
\* two with late rows and crashes.
MCScenarios ==
  {[appliers |-> Operators, repos |-> {Repo, Full, Partly, Sparse, Mounts, Clash},
    start |-> None, deploys |-> 0, events |-> {"crash"}],
   [appliers |-> Operators, repos |-> {Repo, Full, Partly, Sparse, Mounts},
    start |-> Started, deploys |-> 0, events |-> {"crash"}],
   [appliers |-> Operators, repos |-> {Repo, Full}, start |-> Started,
    deploys |-> 0, events |-> {"disconnect", "delete", "crash", "disk"}],
   [appliers |-> One, repos |-> {Full, Other}, start |-> Routed, deploys |-> 2,
    events |-> {}],
   [appliers |-> One, repos |-> {Full, Other}, start |-> Started, deploys |-> 1,
    events |-> {"crash", "disconnect", "delete", "disk"}],
   [appliers |-> Operators, repos |-> {Full, Other}, start |-> Started, deploys |-> 1,
    events |-> {"crash", "disconnect"}],
   [appliers |-> One, repos |-> {Full}, start |-> Started, deploys |-> 2,
    events |-> {"delete", "disk"}],
   [appliers |-> {}, repos |-> {}, start |-> Started, deploys |-> 3, events |-> {}],
   [appliers |-> {}, repos |-> {}, start |-> Started, deploys |-> 2,
    events |-> {"crash", "late"}]}

=============================================================================
