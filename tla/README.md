# slip: a TLA+ model of the deploy daemon and its command line

`slip` deploys container images to one host. A CI job posts a signed webhook to
the daemon `slipd`; slipd pulls the image, starts the new version beside the
old one, checks it, switches the app's Caddy route and removes the old one. It
also runs short-lived previews and PostgreSQL services, keeps secrets, TLS
policies and configuration, and comes with the command line `slip`, which sets
a server up, talks to slipd and diagnoses the host. This directory holds a model
of the parts that decide whether that works: what is shared between tasks, what
is kept across a restart or a power failure, and what happens when a call in the
middle fails. TLC checks it on small instances, and TLAPS proves the results
listed below for every instance.

Paths below are relative to `src/crates/slip-core/src/` unless they start with
`src/`.

## Inventory

| part | state it keeps | operations | talks to |
|---|---|---|---|
| webhooks and locks (`api.rs`, `auth.rs`) | one mutex per app and per preview | `handle_deploy`, `handle_rollback` (`try_lock`, guard moves into a spawned task) | deploy tasks |
| deploy orchestrator (`deploy.rs`) | `DeployContext` per task, `AppRuntimeState` per app | `execute_deploy`: blue-green container, blue-green pod, recreate with rollback, timeout | runtime, Caddy, health, state files, history |
| preview deployments (`preview.rs`) | `PreviewState` per preview | deploy, eviction, teardown, reaper | runtime, Caddy, preview files |
| app management (`api.rs`) | `apps` and `app_states` maps, config files | create, update, delete, secrets, keys, registries, status, logs | locks, runtime, Caddy, services |
| persistence, startup (`state.rs`, `src/crates/slipd/src/main.rs`) | `state/{app}.json`, `state/previews/...`, last applied | save, load, `verify_containers`, startup reconcile | runtime, Caddy |
| reconcile loop (`reconcile.rs`) | a clone of the state per tick | server block, webhook route, routes, TLS, with retries | Caddy |
| Caddy client (`caddy.rs`) | none (Caddy holds routes, TLS policies) | bootstrap, `set_routes`, `remove_routes`, `upsert_tls_policy`, renewal ratio, reload | Caddy admin API |
| certificate renewal (`api.rs`) | a lock per host | raise the ratio, reload, poll, restart Caddy, restore | Caddy |
| runtimes (`runtime.rs`, `docker.rs`, `podman.rs`) | none (the engine holds containers) | create, start, stop, remove, inspect, exec, extract, kube play | Docker, Podman |
| health checker (`health.rs`) | none | probe loop with retries | the new container |
| pod manifests (`manifest.rs`) | none | eight passes over a manifest | `deploy_pod` |
| deploy history (`db.rs`) | SQLite rows | insert or replace, rollback target | deploy tasks, webhooks |
| services (`services/`, `needs.rs`) | desired and observed rows, leases, marker, container, cluster, bindings | add, ensure, bind, detach, remove | Podman, Postgres |
| service secrets and storage (`services/secret.rs`, `services/storage.rs`) | password generations and a pointer | generate, roll back, clean up | file system |
| app secrets and registry logins (`secrets.rs`, `registry.rs`) | a file per key, an index | set, remove, login, logout, which credential a pull uses | file system |
| configuration (`config.rs`, `repo_config.rs`, `merge.rs`, `validate.rs`, `diff.rs`, `status_expectation.rs`) | files | load, merge, validate, diff, payloads, write | everything |
| setup and keys (`src/crates/slip-cli/src/server_init.rs`) | files under `/etc`, the systemd unit, the CI secret | `slip server init`, `slip key` | systemd, Caddy, slipd, gh |
| doctor (`doctor.rs`, `src/crates/slip-cli/src/doctor_cmd.rs`) | none | checks, deadline, fix, exit code | host commands |
| command line (`src/crates/slip-cli/src/main.rs`, `output.rs`) | none | requests, waits, exit codes | the HTTP API |

What is hard in this system: tasks and API handlers interleave at every
`await`, and only some of them take a lock; the deploy timeout and a client
that disconnects drop a future in the middle, with the call it was waiting for
applied or not; memory, state file, Caddy and the container engine must agree
and are written one after the other; Caddy's whole configuration is read and
written back by tasks that know nothing of each other; secrets open databases
that cannot be opened without them, so what a power failure leaves matters; and
the command line must tell from an answer, or from none, what happened. The
list of hazards, each at its line, is in `PROJECT.json`; the properties are
aimed at it.

## Modules

| module | models | uses |
|---|---|---|
| `Deploy` | lock, deploy tasks, timeout, app state, file, runtime and route of one app | |
| `Slipd` | crash and startup, reconcile ticks, Caddy restarts, create and delete around the deploys of `Deploy` | extends `Deploy` |
| `DeployProofs` | theorems about `Deploy` and `Slipd` | `Slipd`, `TLAPS` |
| `Preview` | deploys, evictions, teardowns, reaper, crash and startup for the previews of one app | |
| `Postgres`, `Services` | the PostgreSQL provider; the controller, its repository, bindings and the apps that use them | `Services` extends `Postgres` |
| `Disk`, `Registry`, `Files` | a file system with unsynced data; registry credentials; service secrets, app secrets, config files and logins, call by call | `Files` extends both |
| `Register` | abstract: a value that changes atomically and is never lost | implemented by `Files` |
| `Edge` | ticks, deploys, deletes and renewals against Caddy's admin API, request by request | |
| `Config`, `Operator` | diff, payloads, merge, validation and status ranges; `slip apply`, deploys, rollbacks and history of one app | `Operator` extends `Config` |
| `Manifest`, `Backend` | environment and pod rendering; both runtime backends and the health checker as scripts of daemon calls | `Backend` extends `Manifest` |
| `Runtime` | abstract: the contract of the trait `RuntimeBackend` | implemented by `Backend` |
| `Doctor`, `Setup` | doctor's checks; init, slipd's start, deploy keys and doctor on one host | `Setup` extends `Doctor` |
| `Api`, `Cli` | slipd's handlers and the guards they keep over awaits; commands from arguments to exit code | `Cli` extends `Api` |
| `PreviewProofs`, `ServicesProofs`, `FilesProofs`, `BackendProofs`, `OperatorProofs`, `CliProofs`, `SetupProofs` | theorems about these modules | the module, `TLAPS` |
| `MC*` | instances for TLC | |

**How code becomes actions.** A task is cut at its awaits: a program counter
names the await it is suspended at, and an action is the completion of that
await with everything the code does up to the next one. In `Files` the cut is
at every system call, in `Edge` at every request, in `Backend` at every daemon
call. A call may fail before or after it took effect where the caller cannot
tell. The modules after `Preview` have a variable (`env`, `sc`, `scn`) that
holds the *scenario* of the behaviour: which requests, failures and events it
has. It is chosen in the initial state and never changes, so one run covers
many instances, each with faults of its own.

**Deploy.** `lock` is the app's entry of `deploy_locks`; `ctx` is
`DeployContext` with the locals of the task; `app` is the entry of
`app_states`, `disk` the file, without the fields that are not written.
`runtime` maps each container a deploy may create (`New(d)`, and `Fallback(d)`
of rollback tier 2) to its state; ports are handed out again once free. `route`
is the host port behind the app's routes. The actions are grouped by path: `Bg*`
blue-green containers, `Pod*` pods, `Rc*` recreate, `Rb*` and `T2*` the
rollback of recreate (tier 1 restarts the old container, tier 2 creates one
from the old tag, tier 3 gives up), `Timeout` and `TimeoutCleanup`. The
`is_worker` branch of the pod path (deploy.rs:1066) is dead code, since a merged
kind is either; it has no action.

**Slipd.** `Snapshot` and `ApplySnapshot` are a reconcile tick, `Delete*` the
awaits of `handle_delete_app`, `Disconnect` a client that goes away in the
middle of it, `Crash` and `Boot` the process. `MCSlipd` puts four instances of
`Slipd` side by side, the scenes `crash`, `delete`, `heal` and `chaos`; a
behaviour stays in its scene.

**Preview.** `entry` is `preview_states`, `file` the persisted files, `units`
the containers and pods (deploy `d` creates unit `d`), `td[t]` how far task `t`
(a deploy that evicts, the API, the reaper) is in `teardown_preview` and what it
read. `clock` orders `deployed_at`; `ttl` is `expires_at` seen from the present.

**Postgres, Services.** `svc[n]` holds the row, the bootstrap marker, the
secret, the container, the state of PGDATA and the databases of service `n`;
`op[o]` is a request or the ensure loop at one of its awaits. `record`, `live`
and `saved` are an app's binding record, its declared need in memory and on
disk. The generation
that `update_state_cas` compares is a flag of the operation: the row is still
the one it read.

**Files.** `fs.mem` is what a process sees, `fs.disk` what a power failure
leaves, `fs.soft` the files whose data was not synced and may come back torn.
`ack` and `logins` record what a client was told. A generation is written,
synced and pointed to; `rb_*` are the steps of its rollback.

**Edge.** `caddy` is Caddy's configuration: the slip server block, foreign
servers, routes by `@id`, and policies in order, owned (with an id) or the
operator's (without). `op[p]` is a task with the calls it has still to make. A
renewal finds its policy by id or else by position.

**Operator.** `live`, `file`, `mem`, `disk` and `db` are the apps map, the
config file, the app state, its file and the history; `op[o]` is an apply from
`GET` to its report, `dep[d]` a deploy or rollback from webhook to last row. A
client that hangs up drops the handler and its lock; the thread that writes the
two files goes on (`gone`). A write in place that fails leaves the old state file
or one that does not parse.

**Backend.** An operation is a set of rules *at this call, after one of these
answers, go there*, read off each backend's method; `Answered`, `Failed` and
`Abandon` interpret them for all operations of the trait, the pings and the
creation of a service's container included. A health check probes a host port
and names no container: whatever listens there may answer, so it runs beside the
operations and the contract says nothing of it.

**Setup.** `etc`, `svc` and `caddy` are files, unit and proxy of the host; `key`
the deploy key of app and CI. Doctor's checks are operators of a host.

**Api, Cli.** `held` are guards kept over an await, `queue` the first-come
first-served order of the locks, `req[r]` a handler at its await, `cli[r]` the
command waiting for it and at which of its requests it is: `services rm` reads
the generation first, an apply looks, creates or changes, `deploy` applies, posts
the webhook and may poll. `deploys` is the cache of last deploys. Commands whose
handlers touch none of the maps that the properties are about are one step
(`Store`), which may fail with or without effect.

Simplifications: one app where apps share nothing but Caddy and the engine;
one port for all routes of an app in `Deploy` (numbered in `Edge`); a tag, not
an image; one health answer per container in `Deploy` (the probe loop is in
`Backend`); hooks, pulls and config extraction are one step with one outcome
each; in `Config` one field stands for those that are handled alike; texts,
formats and logs are left out, except that `Cli` keeps which numbers an error
text contains, because exit codes are taken from it. Two are coarser than the
code: in `Deploy` the stop and the start of a recreate's old container have no
effect when they fail, where a lost answer could leave it down at deploy.rs:1359
or running beside the container of tier 2 at deploy.rs:1646 (`Backend` has the
lost answers); and a host of `Doctor` has one registry.

## Runs

| run | instance | shows |
|---|---|---|
| `deploy` | 3 deploys, 3 ports, all kinds and both strategies, nine kinds of failing calls, timeouts before the switch | `ZeroDowntime`, `OnlyHealthyServe`, `NoRunningOrphan`, `RecordedRuns`, `TypeOK` |
| `timeout` | 2 blue-green deploys, timeout in the drain | **violates** `TimeoutKeepsServing` |
| `slipd` | *crash*: 3 blue-green deploys, slipd dies at any step; *delete*: 2 deploys by both strategies, deletes, creates and Caddy restarts in any order; both with every fault that `Survives`, or `Stopping` and `Unrouting`, allow (see *Proofs*); *heal*: 2 deploys and every event; *chaos*: 2 deploys of any kind, every call fails, timeout at every await | `CrashRecovers`, `DeletedIsGone`, `RouteHeals`, `DeployEnds`; in all scenes `OneDeployAtATime`, `RecordedIsHealthy` |
| `preview` | 3 deploys of 2 previews, limit 1, evictions, teardowns, calm restarts | `RunningServes`, `UnitsOwned`, `TornDownIsGone` |
| `reap` | 1 preview, 2 deploys, teardowns, reaper, disconnects and crashes unrestricted | `ExpiredIsReaped` |
| `services` | up to 2 services, 1 app, 2 requests and the ensure loop; five scenarios of faults | `ReadyIsInitialised`, `NeverOverPartialData`, `UsedServiceStays`, `BoundCredentialsWork`, `ReadyHeals` |
| `files` | 2 generations, 2 values, 2 requests, 2 registries; nine scenarios of errors, crashes and power failures | `DurablePassword` (refinement of `Register`), `AckedSurvives`, `ConfigMatchesLive`, `LoginSticks` |
| `edge` | 2 hosts, webhook and wildcard, 2 renewals; fifteen scenarios of strategies, lost replies, restarts and crashes | `OperatorPoliciesStay`, `RatioHeals`, `EdgeHeals` |
| `operator` | 2 operators, 7 repositories, an app with and without routes, up to 3 deploys; nine scenarios of crashes, clients that hang up, deletes, failing writes and late rows | `ApplySticks`, `AppliedRuns`, `RollbackTargetWorked` |
| `backend` | 2 callers, 2 containers, one failing daemon call, 2 probes; thirteen scenarios over both backends | `KeepsContract` (refinement of `Runtime`), `ExecOkIsDone`, `PodIsComplete` |
| `setup` | init over a broken or used host with kills and reboots, keys with lost answers, doctor on six kinds of hosts with up to two of thirty-four faults | `InitRecovers`, `OkMeansRouted`, `CiMatches`, `CleanBill` |
| `cli` | 3 requests for 2 apps in four scenes of contention, and every command alone | `ExitTellsEffect`, `StatusIsOfThisApp`, `EveryRequestEnds` |

Some runs are restricted because the property is false otherwise, and the
restriction is the interesting fact:

- `deploy` has no timeout after the switch (`timeout` shows why), no lost Caddy
  reply, no failing removal and no inspect error: after those the code cannot
  know what runs. They are all in the scene *chaos*.
- The scene *crash* has no recreate: between stopping the old container and
  saving the new state every crash means downtime, and tier 2 does not write
  the file. The scene *delete* has images with a `slip.toml` only. *Proofs* names
  the rest of what these two leave out.
- `preview` keeps deploys and teardowns of one preview apart, has no failing
  pull, and restarts slipd only when every preview runs; its previews are all
  routed (a preview redeployed as a worker keeps its route).
- `ApplySticks` and `AppliedRuns` are stated while no apply has hung up with its
  config write under way (`NoneDetached`): that write runs on a thread of its
  own, outlives the app lock (api.rs:1062) and may replace what a later apply or
  deploy wrote, in the config file and, since `save_last_applied` writes the
  whole state back (state.rs:157), in the state file. `operator` has such
  clients beside other applies and beside deploys; without this condition TLC finds
  both violated. Both leave out an app's routes (`Agrees`), which an apply
  compares and never sends. What a waited-for deploy is said to keep over a
  restart is what the state file took: a save that fails is only logged
  (deploy.rs:888), and `kept` remembers whether it did.
- `StatusIsOfThisApp` is about deletes whose client waited, and about what is
  shown beside an entry of `app_states`. The cache of last deploys outlives a
  delete (api.rs:1232), so an app created again and not yet deployed is shown with
  the last deploy of the earlier one.
- `ExitTellsEffect` is about a command's last request: `slip deploy` may exit 4
  after the apply it makes first has changed the app (main.rs:3594), and exits 2
  for a `--wait-timeout` that does not parse after the deploy was accepted
  (main.rs:862). It is about names without the number of a refusal in them
  (`Digits = {409}`).
- `OkMeansRouted` is about hosts where no init takes away the domain of an
  earlier one (`KeepsDomain`), `CiMatches` about key commands one after the
  other: two `slip key --gh` at once may leave CI and slipd with different keys.
- `LoginSticks` is about logins that do not overlap, `ConfigMatchesLive` about
  clients that stay, `RatioHeals` about a Caddy that does not restart,
  `ReadyHeals` about calls that succeed, `EdgeHeals` about the route of single-route
  apps and not about a second copy of it, and `PodIsComplete` about mount paths
  with different labels.

*Bounds.* Two deploys are the least at which one replaces another; the third
meets what a failed second one left (an exited container, a stale file, a
status). As many ports as containers that may run at once, so that a freed port
is handed out again. Two previews at a limit of one make evictions happen; one
preview is enough for `reap`, where only tasks that work on the same preview
interact. Two requests, callers, operators or renewals are the least that
interleave; `cli` has three because a circle of guards takes a reader between
two writers. Two generations of a password are the least at which one replaces
another. `events` (`edge`), `MaxFaults` (`backend`), `MaxEvents` (`setup`) and
`MaxDeploys` (`operator`) bound faults and requests; counters of time
(`MaxNow`) and retries are bounded by one more than the first that matters.

*Fairness.* `DeployEnds` assumes only that the deploy timer fires and that the
removal after it returns; no other call has to. `RouteHeals` assumes that the
interval timer of the reconcile loop keeps ticking and a tick ends (the retries
are bounded); `Timers` of `MCSlipd` states both, each in its scene.
`ExpiredIsReaped` assumes that calls return, the reaper keeps scanning every 60 s
and a supervisor restarts slipd; it does not assume that crashes or disconnects
stop. `ReadyHeals` assumes the ensure interval and that an operation in flight
goes on; it is strong for operations because tokio's mutexes are first come,
first served, so nobody waits for ever. `EdgeHeals` and `RatioHeals` assume the
interval and that a request is answered or times out. `InitRecovers` assumes
that the operator repairs what is broken and repeats init, that systemd
restarts slipd, and, strongly, that slipd's start is not overtaken by an init
for ever. `EveryRequestEnds` assumes that a handler that can go on does and
that a call to the runtime comes back; the queues of the locks are modelled, so
no fairness of locks is assumed.

*Refinements.* `DurablePassword` maps the register's value to the password the
disk would give after a power failure, `Password(fs.disk)`: generating, rolling
back and cleaning up are then steps or stutters of a value that changes
atomically, although each is many system calls. `KeepsContract` maps each
container to its state and each caller to its operation and answer: whatever
two callers, exits and lost replies do, an operation moves only its own unit,
along its own edges, and answers what is true when it answers.

## Disagreements between code and text

Shown by a run: `timeout` (deploy.rs:333). The deploy timeout also covers the
drain; firing there it removes the container that is already serving, while the
comment says the old container is left serving.

Met while modelling, and recorded as hazards or as the restrictions above:

- The parent of an app's secrets directory is synced only by the call that
  creates it (secrets.rs:120). If slipd dies or the sync fails in between, the
  next set is answered without it, while the comment at secrets.rs:131 says that
  the namespace is persisted before its credentials are used. This is the
  hypothesis `Keeps` of the theorem `SecretsSurvive`.
- After a failed deploy the old container serves, but the status is `Failed`
  and only `Running` apps are reconciled (reconcile.rs:237): a Caddy restart
  leaves the app without a route.
- A tick that took its copy before a deploy points the route back at the
  removed container until the next tick (reconcile.rs:86).
- An app deployed without a `slip.toml` has no recorded routes, so deleting it
  removes none (api.rs:1267); the state file of a deleted app survives, and a
  restart revives a deleted pod app (api.rs:1282).
- A redeploy of a preview forgets the running container before it pulls
  (preview.rs:608); a preview torn down while it is deployed leaks what the
  deploy starts (preview.rs:1237).
- Container names end in the first eight characters of a ULID, all of them
  time: two deploys of one tag within about a second clash (docker.rs:120).
- A new container of a recreate that exits while its inspection fails counts as
  running (`unwrap_or(true)`, deploy.rs:1462), is routed to and recorded.
- An apply compares an app's routes (diff.rs:130) but its payload has none
  (diff.rs:468-596), although the comment at diff.rs:467 says that routes are
  fully replaced: an app whose server config declares `[[routing.routes]]` differs
  after every apply. `operator` has one.
- The config write of an apply whose client hung up, a state save that fails, the
  last deploy that a delete leaves in the cache, and the exit codes after an apply
  or an accepted deploy, as said above.
- The delete handler keeps the guard of `app_states` over runtime calls that
  have no timeout (api.rs:1250), which blocks every status, while status itself
  is careful not to be blocked by a hanging runtime (api.rs:2506).
- Overlapping registry logins lose an entry of the index (secrets.rs:301).
- An init killed while it writes the secret leaves a temp file that no later
  init gets past (src/crates/slip-cli/src/server_init.rs:190).

## Proofs

TLAPS proves the theorems below for every value of the constants: any number of
deploys, services, requests, callers, operators or hosts, and any scenario of
faults, where the runs have a few. `PROJECT.json` lists them. Where a property
does not hold in every scenario the theorem says so in its hypothesis, and the
hypothesis is a condition on the scenario, never on the states. Every inductive
invariant was checked by TLC before it was proved.

**DeployProofs**, for any `FailingCalls` and any `DeadlineSteps`:

- `TypeCorrect`: `Spec => []TypeOK`. `TypeOK` alone is not inductive: the drain
  and the rollback stop, restart or remove the container the context calls old,
  which may be `Nil` as far as the type says. The code runs these steps only
  under `if let Some(old)`; `OldKnown` states that for the steps concerned, and
  the inductive invariant is `TypeInv == TypeOK /\ OldKnown`. The proof has one
  step per action; what the external calls leave behind is in lemmas of its own.
- `MutualExclusion`: `Spec => []OneDeployAtATime`. The inductive invariant is
  that a task that has not returned owns the lock; it holds because every path
  out of a task, the timeout included, goes through `Return`, and nobody else
  gives the lock away.
- `RecordsHealthy`: `Spec => []RecordedIsHealthy`. `HealthInv` says at which
  steps a task has seen its new container, or the one of rollback tier 2, pass
  the check, from which steps on the state may name them at all, and the same
  of what the file names, from which the state may come back.

Where everything is, is in `WorldInv`: which of its containers a task has made
at which step, when the context and the app state name them, which container a
recreate calls old, and that no two running containers have one port
(`PlaceInv`). None of it can be dropped: ports are handed out again, and a
stopped or orphaned container with the port of the route would be counted as
serving. With lemmas on what each step changes (`*Moves`) it carries four more
invariants, each with an inductive invariant on top. Their hypotheses are on
`FailingCalls` and `DeadlineSteps` alone and hold in run `deploy`:

- `RecordedRunsHolds` (`TidyRunsInv`: what the app state names runs or is what
  a recreate in flight has stopped; a cleanup never removes it), if the
  deadline does not fire from the stop of the old container until it runs again
  or is replaced, or in the drain of blue-green, and no container exits while the
  look at it fails (`Settles`; `Blind` names the pair, for which deploy.rs:1462
  takes a dead container for a running one). The theorems that follow exclude
  failing inspections anyway.
- `NoRunningOrphanHolds` (`OwnedInv`: what runs is named by the app state, made by
  a task in flight or being drained by one, and of what a task in flight made
  the new container does not run in a rollback, nor the fallback container in a
  cleanup), if no remove and no inspect fails, and the deadline does not fire
  where a container runs that the context does not name yet, in a pod deploy,
  in rollback tier 2, or in the drain (`Collects`).
- `OnlyHealthyServeHolds` (`TidyServeInv`: the route leads to a container that
  the app state names or the next step records, and to none in the steps where a
  recreate has taken it away), if Caddy's replies arrive, routes are removed when
  asked, a port can be read, and the deadline does not fire where route and
  state disagree (`Switches`).
- `ZeroDowntimeHolds` (`ZeroInv`: the route is there but for these steps), if in
  addition the restore of a route succeeds and the deadline does not fire in a
  recreate or its rollback (`Restores`).

With each of the failing calls these exclude, added to run `deploy`, TLC finds
the property violated; these are limits of the code, a failed remove or
a deadline at that await, not of the proof. The same goes for each deadline
step of `Settles` and `Collects`, and for those of `Switches` except
`pod_switch`, `pod_update`, `rb_route`, `t2_route` and `t2_update`, where TLC
finds no violation but the route may lead to a container that nothing names,
which `TidyServeInv` does not describe.

At its end **DeployProofs** carries `OneDeployAtATime` and `RecordedIsHealthy`
over to the daemon `Slipd`, with crashes, restarts, ticks, creates and deletes
around the deploys (`SlipdMutualExclusion`, `SlipdRecordsHealthy`). Its invariant `SlipdInv`
joins the ones above with `SlipdTypeOK`. What is new is that the file is read
back, so `HealthInv` is about its names as well, and that a crash and a delete
remove containers and give up the lock while it belongs to nobody else.

Last, it proves what the daemon promises of crashes and deletions. `DaemonInv`
is `WorldInv` carried through crash, startup, ticks, creates, deletes and
disconnects; for that it says of the state file what `WorldInv` says of the app
state (`FileInv`), since startup loads it, and that no task runs while slipd is
down (`AsleepInv`). It needs no hypothesis. On it rest:

- `CrashKeepsServingHolds` and `RunningIsRoutedHolds` (`KeepInv`: what the file
  names runs; the app state says what the file says, but for its status; and the
  route leads to the recorded port, except that from the switch to the save it is
  already that of the deploy in flight, and that a pod deploy cut off by its
  deadline there leaves it at a pod that no deploy will stop, `LeftBehind`). The
  hypothesis `Survives` is a blue-green deploy of a container or a pod whose saves succeed,
  whose routes Caddy takes and answers for, whose deadline does not fire from the
  switch of a container to its drain, and no delete, tick or restart of Caddy.
- `DeletedIsStoppedHolds` (`StoppedInv`: `OwnedInv`, and what the delete handler
  has stopped at each of its calls), under `Collects` and if no crash and no
  client that goes away ends the handler early (`Stopping`).
- `DeletedIsUnroutedHolds` (`RoutesInv`: a routed app has its route recorded,
  which is what the handler goes by, and an app that is not routed has none). The
  hypothesis `Unrouting` excludes images without a `slip.toml`, for which nothing
  is recorded, worker pods, a removal that fails, a handler that ends early,
  and a tick, which would put the route of its clone back.

The first two are `CrashRecovers`, the last two `DeletedIsGone`, which run `slipd`
checks in the scenes *crash* and *delete*, whose constants are as wide as these hypotheses.
Each of the excluded kinds, calls, deadlines and events, allowed alone in its
scene, makes TLC find the property violated.

**PreviewProofs** proves the three invariants of `Preview`, for any previews,
deploys, ports and limits. `BaseInv` needs no hypothesis: who holds which lock,
that only an evicting deploy, the API and the reaper have lists of previews to
tear down, and that every unit that an entry, a file, a deploy or a teardown
names was started for that very preview (`NameInv`); without the last a teardown
could stop the unit of another preview. On it rest:

- `RunningServesHolds`: `MeetInv` says what an entry holds at each step of the
  deploy that is writing it, `SavedInv` that the file of a running preview is its
  entry, and `ServeInv` that what a running entry, or while slipd is down a file,
  names is up and routed. Deploys and teardowns of one preview may meet
  (`"overlap"`): the entry a teardown removes cannot come back as running. The
  hypothesis `Finishes` excludes crashes while something is under way, writes and
  removals of files that fail, and a deadline or a client that stops a teardown
  half way: each leaves an entry or a file that names what is gone.
- `UnitsOwnedHolds`: `ApartInv` adds that nothing is deployed and torn down at
  once, so a deploy finds its entry and a teardown what it read; `OwnInv` that the
  unit before the deploy is still known to it until it is stopped, and that
  every unit up while slipd is down is in a file. The hypothesis `Tidy` excludes
  the failures that leave a unit to nobody: those before the old unit is stopped
  (preview.rs:608), failed stops, a create whose answer is lost to the deadline,
  and a teardown in the middle of a deploy.
- `TornDownIsGoneHolds`: `RouteInv` adds that a route belongs to an entry that
  says so. `Unroutes` further excludes failed removals of routes, and workers: a
  preview redeployed as a worker keeps its route.

Each failing call, deadline step and event that these hypotheses exclude, added
to run `preview`, makes TLC find the property violated: none can be dropped.

**ServicesProofs** has three layers. `CoreInv` relates row, marker, secret,
container and data directory of each service to each other (`Sound`) and says
what an operation between two awaits may still rely on because it holds the
lock of the service (`Knows`). From it follow `NothingOverPartialData`, `ReadyMeansInitialised` and
`ServicesTypes`. `AppInv` adds what an app was given and gives
`CredentialsWork`. `UseInv` adds the lease: what a bind or a remove has
established while it holds the bindings lock, and that config file and apps map
agree outside it. It gives `UsedServicesStay`, for scenarios in which a
crash does not come with a disconnect or with the delete of an app (`Apart`).
Without `Apart` TLC finds it false: a bind whose client leaves while the config
is written, or an app delete that stops half way, leaves the config file
behind; the service is then rightly removed, and the crash loads the file.

**BackendProofs**: `BackendsKeepContract`, that is `Spec => KeepsContract`, the
refinement of `Runtime`: initial states map to initial states, and each of
`Answered`, `Failed`, `Abandon` and the events of the engine maps to a step or a
stutter. `BackendInv` says which calls each operation can be at and from when
on it knows its container, and lemmas about the rules say what an operation has
to have seen to answer; both backends are walked through one operation at a
time. The proof made the contract say that the helper container of an extract may be removed while
it runs, since the code forces that removal (docker.rs:383, podman.rs:806).
`ExecIsDone` is the action property `ExecOkIsDone`, from the rules of exec.

**OperatorProofs**: `RollbackGoesToDeployed`. Rows come late and deploys die,
so the property needs to know of every tag that may ever be asked for that it
was deployed: those of the state in memory, of its file, of the states the
applies have in hand, and of the rows (`RollbackInv`). A deploy that a crash
stops is *lost* if it had switched and *dropped* if not; only the first may be
rolled back to.

**CliProofs**: `StatusShowsThisApp`, from which guard or lock each handler
holds at which await (`ReqsInv`) and what the two maps say of an app that is
being deleted (`AppsInv`); and `ExitCodesTell`, from what each handler has done
by the time it can answer with which code (`ExitInv`). The second assumes that
no name in an error text contains 400, 401, 403 or 404: the exit code is chosen
by looking for these numbers in the text.

**SetupProofs**: `CiSignaturesMatch` (`KeyInv`: which key CI has
while an answer is on its way), `CleanBillIsTrue` (`DocInv`: the report holds
what each check says of this host, and a fix keeps it so; for any host, without
a bound on its faults), and `OkStaysRouted` (`RouteInv`: what the running slipd
read, what slip.toml says, and what Caddy has). The last is for hosts where no
init forces a configuration without a domain (`KeepsDomain`): otherwise the
route of the old configuration is still in Caddy, a later init finds it there
and reports success, and a reboot drops it; TLC finds this with such options.

**FilesProofs** has a frame for every action, the directories below which it
changes anything (`Within`), and `BaseInv`, which operation is at which call;
on these rest four invariants, one for each kind of file:

- `ConfigIsLive` (`ConfigInv`): an apply whose client stays is alone under the
  lock, so the shared temp name is its own until the rename.
- `BundleIsRegister`, that is `Spec => DurablePassword`, the refinement of
  `Register`. `BundleInv` says that both pointers, in memory and on disk, name
  generations that are whole in memory and on disk, and what of the generation
  in hand is there at which call (`Written`). The hypothesis `Settles` keeps a
  cleanup apart from errors and crashes: after a failed sync, or a crash after
  the rename, the disk still points to the old generation, which a cleanup then
  removes.
- `SecretsSurvive` (`SecretsInv`): sets and deletes exclude each other under the
  lock, the temp holds the value until the rename, and the namespace is durable
  but for the moment before its sync (`DirInv`). The hypothesis `Keeps` excludes
  a namespace whose sync a crash or an error left undone (secrets.rs:120), and deploy
  keys, which are set without the lock and could create it unsynced.
- `LoginsStick` (`LoginInv`): with one operation at a time the index in hand
  always holds every host whose login was answered. The hypothesis is that
  power does not fail for such an operator: the index is never synced.

Each hypothesis holds in the scenarios of run `files`, and for each TLC finds
the property violated in a scenario that breaks it.

*Assumptions.* All are named `ASSUME`s of the module that declares the constant,
and TLC evaluates them on every run. Besides bounds and scenario shapes they
say that values that stand for absence (`Nil`, `None`) are none of the values
they stand beside, that the names of other tasks (`"api"`, `"reaper"`) are no deploys, and that
the names of generations, temp files and registries are none of the fixed file
names (`FixedNames`).

*Only model-checked*, and why:

- `DeployEnds`, `RouteHeals`, `ExpiredIsReaped`, `ReadyHeals`, `EdgeHeals`,
  `RatioHeals`, `InitRecovers`, `EveryRequestEnds`: liveness under fairness is
  out of the prover's reach.
- `ApplySticks` and half of `AppliedRuns` rest on the canonical form of a
  configuration being the same when formed twice, a fold over a sorted
  sequence; `PodIsComplete` and `OperatorPoliciesStay` rest on what filtering a
  sequence of any length leaves. These are inductions over data, which the
  prover cannot do.

## Not modelled

Syntax and formats (TOML, YAML, JSON, SQL text, tar, terminal tables, CLI
argument lists), log output, the HMAC of a signature (a key matches or does
not), the descriptor-relative traversal checks of `services/storage.rs`, the
scaffolding commands of the CLI, and what Docker, Podman, Caddy, systemd,
Tailscale and PostgreSQL do beyond what slip asks of them: their answers are
choices of the model. Several apps at once appear only in `Api`, since
elsewhere apps share nothing that a property is about.

## Plan

The half of `AppliedRuns` that does not rest on the canonical form of a
configuration is within the prover's reach and not proved.
