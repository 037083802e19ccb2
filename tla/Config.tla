-------------------------------- MODULE Config --------------------------------
(***************************************************************************)
(* What slipd and the CLI compute from configurations: the repository's    *)
(* slip.toml, the app config of the server, the payloads of `slip apply`,  *)
(* the diff, the merge a deploy makes, and what a start of slipd accepts.  *)
(* One field stands for the fields that are handled alike: path for the    *)
(* optional health fields, interval for the durations with a default.      *)
(***************************************************************************)
EXTENDS Integers, SequencesExt

CONSTANTS
  None,       \* an unset field
  VarIsSet,   \* the variable a placeholder names is in slipd's environment
  AcmeEmail   \* slip.toml gives an ACME email

ASSUME ConfigAssumption == VarIsSet \in BOOLEAN /\ AcmeEmail \in BOOLEAN

Opt(S) == S \cup {None}

EnvEntry == [key : STRING, value : STRING]

\* A range of status codes is a pair <<lo, hi>>.
Expectation == Seq(Nat \X Nat)

\* slip.toml of the app's repository.
RepoConfig ==
  [image : Opt(STRING), domain : Opt(STRING), routes : Nat,
   health : [path : Opt(STRING), interval : Opt(Nat), expect : Opt(Expectation)],
   resources : Opt([memory : Opt(STRING)]),
   deploy : Opt([strategy : Opt(STRING)]),
   env : SUBSET EnvEntry, volumes : SUBSET STRING, needs : SUBSET STRING]

\* An app on the server.  Durations have a default, and "" is no domain.
AppConfig ==
  [image : STRING, domain : STRING, routes : Nat, tls : Opt(STRING),
   health : [path : Opt(STRING), interval : Nat, expect : Opt(Expectation)],
   resources : [memory : Opt(STRING)],
   deploy : [strategy : STRING],
   env : SUBSET EnvEntry, volumes : SUBSET [mount : STRING, host : STRING],
   needs : SUBSET STRING]

-----------------------------------------------------------------------------
(* Durations.  A tick is half a millisecond here, and a second is two      *)
(* milliseconds: only divisibility matters.                                *)

Ms == 2

Sec == 4

FormatDuration(d) ==
  IF d % Sec = 0 THEN [n |-> d \div Sec, unit |-> "s"]
                 ELSE [n |-> d \div Ms, unit |-> "ms"]

ParseDuration(t) == t.n * (IF t.unit = "s" THEN Sec ELSE Ms)

DefaultInterval == 2 * Sec

-----------------------------------------------------------------------------
(* Status expectations.                                                    *)

\* The next range in order of its start extends the last one that it overlaps
\* or follows at once.
MergedInto(out, r) ==
  IF out # <<>> /\ r[1] <= Last(out)[2] + 1
  THEN Append(Front(out), <<Last(out)[1], IF r[2] > Last(out)[2] THEN r[2] ELSE Last(out)[2]>>)
  ELSE Append(out, r)

\* The canonical form that is stored, shown and compared.
Canonical(ranges) ==
  FoldLeft(MergedInto, <<>>,
           SortSeq(ranges, LAMBDA a, b : a[1] < b[1] \/ (a[1] = b[1] /\ a[2] <= b[2])))

CanonicalOpt(e) == IF e = None THEN None ELSE Canonical(e)

Accepts(ranges, code) == \E i \in DOMAIN ranges : ranges[i][1] <= code /\ code <= ranges[i][2]

\* A spec is refused when it is empty or reversed.
ParsesAsStatus(ranges) == ranges # <<>> /\ \A i \in DOMAIN ranges : ranges[i][1] <= ranges[i][2]

-----------------------------------------------------------------------------
(* Needs.                                                                  *)

\* The variable that the binding of an alias injects.
EnvKey(alias) == IF alias = "db" THEN "DATABASE_URL" ELSE "PREFIXED_URL"

ValidAlias(alias) == alias # "Bad"

\* Aliases are well formed and no variable is given twice.
ValidNeeds(needs, env) ==
  /\ \A n \in needs : ValidAlias(n) /\ \A e \in env : e.key # EnvKey(n)
  /\ \A m, n \in needs : m # n => EnvKey(m) # EnvKey(n)

-----------------------------------------------------------------------------
(* `slip apply`: validation, diff and payloads.                            *)

\* The errors that stop `slip apply`; a strategy is not looked at.
ValidRepo(r) ==
  /\ r.health.expect # None => ParsesAsStatus(r.health.expect)
  /\ ValidNeeds(r.needs, r.env)

RepoPushable(r) ==
  [image |-> r.image, domain |-> r.domain,
   path |-> r.health.path, interval |-> r.health.interval,
   expect |-> CanonicalOpt(r.health.expect),
   memory |-> IF r.resources = None THEN None ELSE r.resources.memory,
   strategy |-> IF r.deploy = None THEN None ELSE r.deploy.strategy,
   env |-> r.env, volumes |-> r.volumes, needs |-> r.needs, routes |-> 0]

ServerPushable(a) ==
  [image |-> a.image, domain |-> IF a.domain = "" THEN None ELSE a.domain,
   path |-> a.health.path, interval |-> a.health.interval,
   expect |-> CanonicalOpt(a.health.expect),
   memory |-> a.resources.memory, strategy |-> a.deploy.strategy,
   env |-> a.env, volumes |-> {v.mount : v \in a.volumes}, needs |-> a.needs,
   routes |-> a.routes]

Optional == {"image", "domain", "path", "interval", "expect", "memory", "strategy"}

\* A field the repository leaves out is not managed by it.
Normalized(repo, server) ==
  [f \in DOMAIN server |-> IF f \in Optional /\ repo[f] = None THEN None ELSE server[f]]

\* The fields that `slip apply` and `slip diff` report.
Differences(r, a) ==
  {f \in DOMAIN RepoPushable(r) :
     Normalized(RepoPushable(r), ServerPushable(a))[f] # RepoPushable(r)[f]}

Changed(r, a) == Differences(r, a) # {}

\* The health section is sent when it has a field; durations and expectations
\* are sent as text.
HealthPayload(h) ==
  IF h.path = None /\ h.interval = None /\ h.expect = None THEN None
  ELSE [path |-> h.path,
        interval |-> IF h.interval = None THEN None ELSE FormatDuration(h.interval),
        expect |-> CanonicalOpt(h.expect)]

\* Mutant of UpdatePayload: an empty env is not sent.
UpdatePayloadSparse(r) ==
  [image |-> r.image, domain |-> r.domain, health |-> HealthPayload(r.health),
   resources |-> r.resources, deploy |-> r.deploy,
   env |-> IF r.env = {} THEN None ELSE r.env, volumes |-> r.volumes, needs |-> r.needs]

\* The maps are sent even when they are empty: they replace the server's.  Routes
\* are compared but never sent.
UpdatePayload(r) ==
  [image |-> r.image, domain |-> r.domain, health |-> HealthPayload(r.health),
   resources |-> r.resources, deploy |-> r.deploy,
   env |-> r.env, volumes |-> r.volumes, needs |-> r.needs]

\* A create needs an image and a domain.
CreatePayload(r) ==
  IF r.image = None \/ r.domain = None THEN None ELSE UpdatePayload(r)

-----------------------------------------------------------------------------
(* The app config that a request makes.                                    *)

\* A volume in a request needs a host_path, which the CLI does not send.
Deserializes(p) == p.volumes = {}

ParsedHealth(h) ==
  [path |-> h.path,
   interval |-> IF h.interval = None THEN DefaultInterval ELSE ParseDuration(h.interval),
   expect |-> CanonicalOpt(h.expect)]

ParsedDeploy(d) == [strategy |-> IF d.strategy = None THEN "blue-green" ELSE d.strategy]

\* A section that is sent replaces the server's as a whole.
Updated(a, p) ==
  [a EXCEPT !.image = IF p.image = None THEN @ ELSE p.image,
            !.domain = IF p.domain = None THEN @ ELSE p.domain,
            !.health = IF p.health = None THEN @ ELSE ParsedHealth(p.health),
            !.resources = IF p.resources = None THEN @ ELSE p.resources,
            !.deploy = IF p.deploy = None THEN @ ELSE ParsedDeploy(p.deploy),
            !.env = IF p.env = None THEN @ ELSE p.env,
            !.volumes = {},
            !.needs = p.needs]

Defaults ==
  [image |-> "", domain |-> "", routes |-> 0, tls |-> None,
   health |-> [path |-> None, interval |-> DefaultInterval, expect |-> None],
   resources |-> [memory |-> None], deploy |-> [strategy |-> "blue-green"],
   env |-> {}, volumes |-> {}, needs |-> {}]

Created(p) == Updated(Defaults, p)

-----------------------------------------------------------------------------
(* What a start of slipd reads back.                                       *)

IsPlaceholder(e) == e.value = "${VAR}"

Resolved(e) == IF IsPlaceholder(e) THEN [e EXCEPT !.value = "value of VAR"] ELSE e

ValidStrategy(d) == d.strategy \in {"blue-green", "recreate"}

IsTsNet(host) == host = "host.ts.net"

ValidTls(a) ==
  CASE a.tls \in {"acme", "cloudflare-dns01"} -> AcmeEmail /\ ~IsTsNet(a.domain)
    [] a.tls = "tailscale" -> IsTsNet(a.domain)
    [] OTHER -> TRUE

\* One app that does not load and slipd does not start.
Loads(a) ==
  /\ \A e \in a.env : IsPlaceholder(e) => VarIsSet
  /\ ValidStrategy(a.deploy)
  /\ ValidTls(a)
  /\ ValidNeeds(a.needs, a.env)

Loaded(a) ==
  [a EXCEPT !.env = {Resolved(e) : e \in @}, !.health.interval = ParseDuration(FormatDuration(@))]

-----------------------------------------------------------------------------
(* What a deploy makes of the server's config and the image's slip.toml.   *)

ServerRoutes(a) == IF a.routes > 0 THEN a.routes ELSE IF a.domain = "" THEN 0 ELSE 1

Mergeable(a, r) ==
  /\ r.volumes \subseteq {v.mount : v \in a.volumes}
  /\ r.routes \in {0, ServerRoutes(a)}

\* The server wins, and the needs of the image are not looked at; the repository
\* fills what the server leaves unset.
Merged(a, r) ==
  [a EXCEPT !.health.path = IF @ = None THEN r.health.path ELSE @,
            !.health.expect = IF @ = None THEN CanonicalOpt(r.health.expect) ELSE @,
            !.resources.memory = IF @ = None /\ r.resources # None THEN r.resources.memory ELSE @]
=============================================================================
