------------------------------- MODULE Deploy -------------------------------
(***************************************************************************)
(* The deploy orchestrator of slipd for ONE app: the per-app deploy lock,  *)
(* the state machine of execute_deploy (blue-green containers, blue-green  *)
(* pods, recreate with its three-tier rollback), the deploy timeout that   *)
(* wraps it, and the three things a deploy changes: the container runtime, *)
(* the app's Caddy route and the app's runtime state (memory and disk).    *)
(*                                                                         *)
(* A deploy is a tokio task.  pc[d] names the await the task of deploy d   *)
(* is suspended at; an action of the task is the completion of that await  *)
(* and everything the code does up to the next one.  The deploy timeout    *)
(* drops the task at any await: the call it was waiting for may or may not *)
(* have taken effect.                                                      *)
(*                                                                         *)
(* One host port stands for the app's route set.  Port 0 is "no port" (a   *)
(* worker) and an Option<u16> of None.                                     *)
(***************************************************************************)
EXTENDS Naturals

CONSTANTS
  Deploys,        \* deploy ids
  Tags,           \* image tags
  Ports,          \* ephemeral host ports the runtime hands out
  Nil,            \* Option::None
  Kinds,          \* app kinds the images of this instance declare
  Strategies,     \* deploy strategies the app config may name
  Routed,         \* whether the server config gives the app a hostname and port
  RepoConfig,     \* whether the images carry a slip.toml: only then have they a
                  \* kind, and only then does a deploy record its routes
  FailingCalls,   \* calls that may fail in this instance
  DeadlineSteps   \* awaits at which the deploy timeout may fire

\* "workerpod" is a pod all of whose routes are worker routes.  (The is_worker
\* branch of the pod path is dead code: is_pod and is_worker exclude each other.)
AllKinds == {"http", "worker", "pod", "workerpod"}
AllStrategies == {"blue-green", "recreate"}

\* The calls a deploy makes that can fail.  "remove" is stop_and_remove or
\* teardown_pod, "exit" a container that dies while it is being checked,
\* "reply" a Caddy request that is applied but answered with an error,
\* "contention" a try_write that finds the app-state lock taken.
AllCalls == {"pull", "config", "create", "health", "exit", "inspect", "route",
             "reply", "unroute", "restore", "remove", "stop", "start", "save",
             "contention"}

BlueGreenSteps == {"bg_start", "bg_health", "bg_verify", "bg_discard",
                   "bg_switch", "bg_update", "bg_drain"}
PodSteps == {"pod_deploy", "pod_health", "pod_discard", "pod_switch",
             "pod_update", "pod_drain"}
RecreateSteps == {"rc_stop", "rc_unroute", "rc_start", "rc_health",
                  "rc_discard", "rc_switch", "rc_update", "rc_remove_old"}
RollbackSteps == {"rb_restart", "rb_route", "t2_create", "t2_health",
                  "t2_route", "t2_update", "t2_discard"}
\* The awaits inside tokio::time::timeout.
TimedSteps == {"accepted", "pulling", "configuring"} \cup BlueGreenSteps
              \cup PodSteps \cup RecreateSteps \cup RollbackSteps
Steps == TimedSteps \cup {"idle", "timeout_cleanup", "done"}

DeployStatus == {"accepted", "pulling", "configuring", "starting",
                 "health_checking", "switching", "stopping_old",
                 "removing_route", "restarting_old", "completed", "failed"}
AppStatus == {"not_deployed", "running", "deploying", "failed"}

Containers == Deploys \X {"new", "fallback"}
New(d) == <<d, "new">>
Fallback(d) == <<d, "fallback">>

ASSUME ConstantsAssumption ==
  /\ Ports \subseteq Nat \ {0}
  /\ Kinds \subseteq AllKinds
  /\ Strategies \subseteq AllStrategies
  /\ Routed \in BOOLEAN
  /\ RepoConfig \in BOOLEAN /\ (RepoConfig \/ Kinds \subseteq {"http"})
  /\ FailingCalls \subseteq AllCalls
  /\ DeadlineSteps \subseteq TimedSteps
  /\ Nil \notin Deploys \cup Tags \cup Containers \cup Nat

VARIABLES
  lock,       \* deploy_locks[app]: the task or API handler ("api") that owns
              \* the guard, or Nil
  pc,         \* where each deploy task is suspended
  ctx,        \* DeployContext of each deploy, with the locals of its task
  app,        \* app_states[app]
  disk,       \* state/{app}.json
  runtime,    \* the containers and pods of the app, in the container runtime
  route,      \* host port behind the app's Caddy route, or Nil: no route
  registered  \* whether the apps map holds the app

vars == <<lock, pc, ctx, app, disk, runtime, route, registered>>

-----------------------------------------------------------------------------
(* State.                                                                  *)

Option(S) == S \cup {Nil}
HostPorts == Ports \cup {0}

Context == [tag : Option(Tags), kind : AllKinds, strategy : AllStrategies,
            status : DeployStatus, new : Option(Containers),
            pod : Option(Containers), port : HostPorts,
            old : Option(Containers), oldTag : Option(Tags),
            rollbackFailed : BOOLEAN]

\* DeployContext::new
NewContext(t, k, s) ==
  [tag |-> t, kind |-> k, strategy |-> s, status |-> "accepted", new |-> Nil,
   pod |-> Nil, port |-> 0, old |-> Nil, oldTag |-> Nil,
   rollbackFailed |-> FALSE]

\* entry: whether the app_states map has an entry for the app at all; routes:
\* the port current_routes leads to, Nil if it is empty.
AppState == [entry : BOOLEAN, status : AppStatus, tag : Option(Tags),
             prevTag : Option(Tags), cid : Option(Containers),
             pod : Option(Containers), port : HostPorts, routes : Option(HostPorts),
             deployId : Option(Deploys)]

NoApp == [entry |-> FALSE, status |-> "not_deployed", tag |-> Nil,
          prevTag |-> Nil, cid |-> Nil, pod |-> Nil, port |-> 0, routes |-> Nil,
          deployId |-> Nil]

\* PersistedAppState: neither the status nor the deploy id is written.
PersistedState == [file : BOOLEAN, tag : Option(Tags), prevTag : Option(Tags),
                   cid : Option(Containers), pod : Option(Containers),
                   port : HostPorts, routes : Option(HostPorts)]

Persisted(a) == [file |-> TRUE, tag |-> a.tag, prevTag |-> a.prevTag,
                 cid |-> a.cid, pod |-> a.pod, port |-> a.port, routes |-> a.routes]

NoFile == [file |-> FALSE, tag |-> Nil, prevTag |-> Nil, cid |-> Nil,
           pod |-> Nil, port |-> 0, routes |-> Nil]

\* ok: what health.check answers for the container (TRUE when no health path
\* is configured).  A container that is not running holds no port.
Container == [st : {"absent", "running", "exited"}, port : HostPorts,
              ok : BOOLEAN]
Absent == [st |-> "absent", port |-> 0, ok |-> FALSE]

TypeOK ==
  /\ lock \in Option(Deploys \cup {"api"})
  /\ pc \in [Deploys -> Steps]
  /\ ctx \in [Deploys -> Context]
  /\ app \in AppState
  /\ disk \in PersistedState
  /\ runtime \in [Containers -> Container]
  /\ route \in Option(HostPorts)
  /\ registered \in BOOLEAN

InFlight(d) == pc[d] \notin {"idle", "done"}
IsWorker(d) == ctx[d].kind = "worker"
IsPod(d) == ctx[d].kind \in {"pod", "workerpod"}
IsHttp(d) == ctx[d].kind \in {"http", "pod"}
Fails(call) == call \in FailingCalls

Init ==
  /\ lock = Nil
  /\ pc = [d \in Deploys |-> "idle"]
  /\ ctx = [d \in Deploys |-> NewContext(Nil, "http", "blue-green")]
  /\ app = NoApp
  /\ disk = NoFile
  /\ runtime = [c \in Containers |-> Absent]
  /\ route = Nil
  /\ registered = TRUE

-----------------------------------------------------------------------------
(* The container runtime and Caddy (external): the states a call can leave *)
(* behind when it takes effect.                                            *)

Running(c) == c # Nil /\ runtime[c].st = "running"
Exists(c) == c # Nil /\ runtime[c].st # "absent"

FreePorts ==
  Ports \ {runtime[c].port : c \in {x \in Containers : Running(x)}}

\* Only a container with a port mapping gets a host port, a fresh one at every
\* start.  The fallback container of tier 2 is created with the configured port
\* even if the deploy is one of a worker.
PortChoices(c) ==
  IF IF c = New(c[1]) THEN IsHttp(c[1]) ELSE Routed THEN FreePorts ELSE {0}

\* create_and_start, deploy_pod
Created(c) ==
  LET Started == {x \in Container : /\ x.st = "running"
                                    /\ x.port \in PortChoices(c)
                                    /\ x.ok \/ Fails("health")}
  IN {[runtime EXCEPT ![c] = x] : x \in Started}

\* start_container on a stopped container
Restarted(c) ==
  {[runtime EXCEPT ![c] = [st |-> "running", port |-> p, ok |-> runtime[c].ok]] :
     p \in PortChoices(c)}

\* stop_container; also a container that dies by itself
Stopped(c) ==
  [runtime EXCEPT ![c] = [st |-> "exited", port |-> 0, ok |-> runtime[c].ok]]

\* stop_and_remove, teardown_pod
Removed(c) == [runtime EXCEPT ![c] = Absent]

\* The runtime states the call that d is waiting for can leave behind.
CallRuntime(d) ==
  CASE pc[d] \in {"bg_start", "rc_start", "pod_deploy"}
         -> Created(New(d))
    [] pc[d] = "t2_create" -> Created(Fallback(d))
    [] pc[d] = "rb_restart" /\ Exists(ctx[d].old) -> Restarted(ctx[d].old)
    [] pc[d] = "rc_stop" /\ Exists(ctx[d].old) -> {Stopped(ctx[d].old)}
    [] pc[d] \in {"bg_drain", "pod_drain", "rc_remove_old"}
         -> {Removed(ctx[d].old)}
    [] pc[d] \in {"bg_discard", "pod_discard", "rc_discard"}
         -> {Removed(New(d))}
    [] pc[d] = "t2_discard" -> {Removed(Fallback(d))}
    [] pc[d] = "timeout_cleanup" -> {Removed(ctx[d].new)}
    [] OTHER -> {runtime}

\* The route the call that d is waiting for can leave behind.  Tier 1 routes
\* to the re-discovered port, or to the recorded one if the inspect fails.
CallRoute(d) ==
  CASE pc[d] \in {"bg_switch", "rc_switch", "pod_switch"} -> {ctx[d].port}
    [] pc[d] = "rc_unroute" -> {Nil}
    [] pc[d] = "rb_route" -> {runtime[ctx[d].old].port}
         \cup (IF Fails("inspect") THEN {app.port} ELSE {})
    [] pc[d] = "t2_route" -> {runtime[Fallback(d)].port}
    [] OTHER -> {route}

-----------------------------------------------------------------------------
(* Ways a step of the task of d ends.                                      *)

\* The task goes on to its next await.  What it holds and the app stay.
Advance(d, step, c) ==
  /\ pc' = [pc EXCEPT ![d] = step]
  /\ ctx' = [ctx EXCEPT ![d] = c]
  /\ UNCHANGED <<lock, registered>>

\* execute_deploy returns: the spawned task drops the guard of the app lock.
Return(d, c) ==
  /\ pc' = [pc EXCEPT ![d] = "done"]
  /\ ctx' = [ctx EXCEPT ![d] = c]
  /\ lock' = Nil
  /\ UNCHANGED registered

\* set_app_failed works on the entry a: only a try_write, and only if the app
\* has an entry.
SetAppFailed(a) ==
  IF a.entry
  THEN {[a EXCEPT !.status = "failed"]} \cup (IF Fails("contention") THEN {a} ELSE {})
  ELSE {a}

\* ctx.fail, record_deploy, set_app_failed, return.  The state file is not
\* written.
Fail(d) ==
  /\ Return(d, [ctx[d] EXCEPT !.status = "failed"])
  /\ app' \in SetAppFailed(app)
  /\ UNCHANGED disk

\* Mutant of Complete: the app's status instead of the deploy's.
CompleteAsRunning(d) == Return(d, [ctx[d] EXCEPT !.status = "running"])

Complete(d) == Return(d, [ctx[d] EXCEPT !.status = "completed"])

\* The call may fail: the runtime and Caddy are as they were.
Refused(call) == Fails(call) /\ UNCHANGED <<runtime, route>>

-----------------------------------------------------------------------------
(* Accepting a deploy, and the steps every strategy shares.                *)

\* Mutant of HandleDeploy: the app lock is not tried.
HandleDeployUnlocked(d, t, k, s) ==
  /\ pc[d] = "idle"
  /\ registered
  /\ lock' = d
  /\ pc' = [pc EXCEPT ![d] = "accepted"]
  /\ ctx' = [ctx EXCEPT ![d] = NewContext(t, k, s)]
  /\ UNCHANGED <<app, disk, runtime, route, registered>>

\* handle_deploy and handle_rollback: the guard moves into the spawned task.
HandleDeploy(d, t, k, s) ==
  /\ pc[d] = "idle"
  /\ lock = Nil
  /\ registered
  /\ lock' = d
  /\ pc' = [pc EXCEPT ![d] = "accepted"]
  /\ ctx' = [ctx EXCEPT ![d] = NewContext(t, k, s)]
  /\ UNCHANGED <<app, disk, runtime, route, registered>>

\* execute_deploy_inner up to the first pull
LookUpApp(d) ==
  /\ pc[d] = "accepted"
  /\ \/ /\ registered
        /\ Advance(d, "pulling", [ctx[d] EXCEPT !.status = "pulling"])
        /\ app' = IF app.entry THEN [app EXCEPT !.status = "deploying"] ELSE app
        /\ UNCHANGED disk
     \/ ~registered /\ Fail(d)
  /\ UNCHANGED <<runtime, route>>

PullImages(d) ==
  /\ pc[d] = "pulling"
  /\ \/ /\ Advance(d, "configuring", [ctx[d] EXCEPT !.status = "configuring"])
        /\ UNCHANGED <<app, disk>>
     \/ Fails("pull") /\ Fail(d)
  /\ UNCHANGED <<runtime, route>>

\* Recreate reads what it replaces before it stops anything.
BeginRecreate(d) ==
  LET c == [ctx[d] EXCEPT !.old = app.cid, !.oldTag = app.tag]
  IN IF app.cid # Nil
     THEN Advance(d, "rc_stop", [c EXCEPT !.status = "stopping_old"])
     ELSE Advance(d, "rc_unroute", [c EXCEPT !.status = "removing_route"])

\* Extract and merge the repo config, reconcile the bindings, check the
\* routing, dispatch on the strategy.  A pod is always deployed blue-green.
Configure(d) ==
  /\ pc[d] = "configuring"
  /\ \/ /\ IsPod(d) /\ Routed
        /\ Advance(d, "pod_deploy", [ctx[d] EXCEPT !.status = "starting"])
        /\ UNCHANGED <<app, disk>>
     \/ /\ ~IsPod(d) /\ ctx[d].strategy = "blue-green"
        /\ Routed \/ IsWorker(d)
        /\ Advance(d, "bg_start", [ctx[d] EXCEPT !.status = "starting"])
        /\ UNCHANGED <<app, disk>>
     \/ /\ ~IsPod(d) /\ ctx[d].strategy = "recreate"
        /\ Routed \/ IsWorker(d)
        /\ BeginRecreate(d)
        /\ UNCHANGED <<app, disk>>
     \/ Fails("config") /\ Fail(d)
     \/ ~Routed /\ ~IsWorker(d) /\ Fail(d)
  /\ UNCHANGED <<runtime, route>>

\* A create or deploy call that returns an error: nothing was created, or the
\* container is left behind (it died at once, or could not be inspected).
CreateFails(c) ==
  /\ Fails("create")
  /\ \/ UNCHANGED runtime
     \/ /\ Fails("exit")
        /\ runtime' = [runtime EXCEPT ![c] = [st |-> "exited", port |-> 0, ok |-> FALSE]]
     \/ Fails("inspect") /\ runtime' \in Created(c)
  /\ UNCHANGED route

\* The entry after a deploy switched the app to a new container.  The routes
\* of a worker are recorded with port 0.
SwitchedContainer(d) ==
  [app EXCEPT !.entry = TRUE, !.prevTag = app.tag, !.tag = ctx[d].tag,
              !.cid = ctx[d].new, !.port = ctx[d].port,
              !.routes = IF RepoConfig /\ Routed THEN ctx[d].port ELSE Nil,
              !.deployId = d, !.status = "running"]

\* The entry after a deploy switched the app to a new pod: a container of an
\* earlier kind stays recorded, and stays running.
SwitchedPod(d) ==
  [app EXCEPT !.entry = TRUE, !.prevTag = app.tag, !.tag = ctx[d].tag,
              !.pod = ctx[d].pod, !.port = ctx[d].port,
              !.routes = IF IsHttp(d) THEN ctx[d].port ELSE Nil,
              !.deployId = d, !.status = "running"]

\* save_app_state, whose failure is only logged
SaveAppState(a) ==
  \/ disk' = Persisted(a)
  \/ Fails("save") /\ UNCHANGED disk

\* set_routes of a switch: on an error, also one that comes after Caddy applied
\* the change, the new container is discarded.
SetRoutes(d, okStep, errStep) ==
  /\ \/ route' \in CallRoute(d) /\ Advance(d, okStep, ctx[d])
     \/ Fails("route") /\ route' = route /\ Advance(d, errStep, ctx[d])
     \/ Fails("reply") /\ route' \in CallRoute(d) /\ Advance(d, errStep, ctx[d])
  /\ UNCHANGED <<app, disk, runtime>>

\* A stop_and_remove or teardown_pod whose error is ignored.
Discard(d) ==
  /\ \/ runtime' \in CallRuntime(d)
     \/ Fails("remove") /\ UNCHANGED runtime
  /\ UNCHANGED route

-----------------------------------------------------------------------------
(* Blue-green, container path.                                             *)

BgStart(d) ==
  /\ pc[d] = "bg_start"
  /\ \/ \E r \in CallRuntime(d) :
          /\ runtime' = r
          /\ Advance(d, IF IsWorker(d) THEN "bg_verify" ELSE "bg_health",
                     [ctx[d] EXCEPT !.new = New(d), !.port = r[New(d)].port,
                                    !.status = "health_checking"])
          /\ UNCHANGED <<app, disk, route>>
     \/ CreateFails(New(d)) /\ Fail(d)

\* Mutant of BgHealth: the answer of the health check is ignored.
BgHealthIgnored(d) ==
  /\ pc[d] = "bg_health"
  /\ Advance(d, "bg_verify", ctx[d])
  /\ UNCHANGED <<app, disk, runtime, route>>

BgHealth(d) ==
  /\ pc[d] = "bg_health"
  /\ Advance(d, IF runtime[New(d)].ok THEN "bg_verify" ELSE "bg_discard", ctx[d])
  /\ UNCHANGED <<app, disk, runtime, route>>

\* Mutant of BgVerify: the app state is saved before the switch.
BgVerifySaves(d) ==
  /\ pc[d] = "bg_verify"
  /\ Running(New(d))
  /\ Advance(d, "bg_switch", [ctx[d] EXCEPT !.status = "switching", !.old = app.cid])
  /\ SaveAppState(SwitchedContainer(d))
  /\ UNCHANGED <<app, runtime, route>>

\* container_is_running after the health check.  A container that died, or
\* whose state cannot be read, fails the deploy and is left behind.
BgVerify(d) ==
  /\ pc[d] = "bg_verify"
  /\ \/ /\ Running(New(d))
        /\ Advance(d, IF IsWorker(d) THEN "bg_update" ELSE "bg_switch",
                   [ctx[d] EXCEPT !.status = "switching", !.old = app.cid])
        /\ UNCHANGED <<app, disk, runtime, route>>
     \/ /\ Fails("exit")
        /\ runtime' = Stopped(New(d))
        /\ Fail(d)
        /\ UNCHANGED route
     \/ Refused("inspect") /\ Fail(d)

\* Mutant of BgDiscard: the deploy fails and leaves the container running.
BgDiscardKeeps(d) ==
  /\ pc[d] = "bg_discard"
  /\ UNCHANGED <<runtime, route>>
  /\ Fail(d)

BgDiscard(d) ==
  /\ pc[d] = "bg_discard"
  /\ Discard(d)
  /\ Fail(d)

\* Mutant of BgSwitch: an error of Caddy is only logged.
BgSwitchLogs(d) ==
  /\ pc[d] = "bg_switch"
  /\ SetRoutes(d, "bg_update", "bg_update")

BgSwitch(d) ==
  /\ pc[d] = "bg_switch"
  /\ SetRoutes(d, "bg_update", "bg_discard")

BgUpdate(d) ==
  /\ pc[d] = "bg_update"
  /\ app' = SwitchedContainer(d)
  /\ SaveAppState(SwitchedContainer(d))
  /\ IF ctx[d].old # Nil THEN Advance(d, "bg_drain", ctx[d]) ELSE Complete(d)
  /\ UNCHANGED <<runtime, route>>

\* sleep(drain_timeout), then stop_and_remove of the old container
BgDrain(d) ==
  /\ pc[d] = "bg_drain"
  /\ Discard(d)
  /\ Complete(d)
  /\ UNCHANGED <<app, disk>>

-----------------------------------------------------------------------------
(* Blue-green, pod path.                                                   *)

\* Extract, validate, render and write the manifest, then podman kube play.
PodDeploy(d) ==
  /\ pc[d] = "pod_deploy"
  /\ \/ \E r \in CallRuntime(d) :
          /\ runtime' = r
          /\ Advance(d, "pod_health", [ctx[d] EXCEPT !.pod = New(d),
                                                    !.status = "health_checking"])
          /\ UNCHANGED <<app, disk, route>>
     \/ CreateFails(New(d)) /\ Fail(d)

\* Mutant of PodHealth: the containers of a pod are not probed.
PodHealthUnprobed(d) ==
  /\ pc[d] = "pod_health"
  /\ Advance(d, "pod_switch", [ctx[d] EXCEPT !.port = runtime[New(d)].port,
                                             !.status = "switching", !.old = app.pod])
  /\ UNCHANGED <<app, disk, runtime, route>>

\* HTTP containers of the pod must answer, worker containers are only looked
\* at: a worker pod always passes.  A pod without HTTP routes does not touch Caddy.
PodHealth(d) ==
  /\ pc[d] = "pod_health"
  /\ \/ /\ runtime[New(d)].ok \/ ~IsHttp(d)
        /\ Advance(d, IF IsHttp(d) THEN "pod_switch" ELSE "pod_update",
                   [ctx[d] EXCEPT !.port = runtime[New(d)].port,
                                  !.status = "switching", !.old = app.pod])
     \/ /\ (~runtime[New(d)].ok \/ Fails("inspect")) /\ IsHttp(d)
        /\ Advance(d, "pod_discard", ctx[d])
  /\ UNCHANGED <<app, disk, runtime, route>>

PodDiscard(d) ==
  /\ pc[d] = "pod_discard"
  /\ Discard(d)
  /\ Fail(d)

PodSwitch(d) ==
  /\ pc[d] = "pod_switch"
  /\ SetRoutes(d, "pod_update", "pod_discard")

PodUpdate(d) ==
  /\ pc[d] = "pod_update"
  /\ app' = SwitchedPod(d)
  /\ SaveAppState(SwitchedPod(d))
  /\ IF ctx[d].old # Nil THEN Advance(d, "pod_drain", ctx[d]) ELSE Complete(d)
  /\ UNCHANGED <<runtime, route>>

PodDrain(d) ==
  /\ pc[d] = "pod_drain"
  /\ Discard(d)
  /\ Complete(d)
  /\ UNCHANGED <<app, disk>>

-----------------------------------------------------------------------------
(* Recreate, container path, and its rollback.                             *)

RcStop(d) ==
  /\ pc[d] = "rc_stop"
  /\ \/ /\ Exists(ctx[d].old)
        /\ runtime' \in CallRuntime(d)
        /\ Advance(d, "rc_unroute", [ctx[d] EXCEPT !.status = "removing_route"])
        /\ UNCHANGED <<app, disk, route>>
     \/ /\ Fails("stop") \/ ~Exists(ctx[d].old)
        /\ Fail(d)
        /\ UNCHANGED <<runtime, route>>

\* remove_route, whose failure is only logged
RcUnroute(d) ==
  /\ pc[d] = "rc_unroute"
  /\ \/ route' \in CallRoute(d)
     \/ Fails("unroute") /\ UNCHANGED route
  /\ Advance(d, "rc_start", [ctx[d] EXCEPT !.status = "starting"])
  /\ UNCHANGED <<app, disk, runtime>>

\* Tier 3: the app is down
Tier3(d) ==
  /\ Return(d, [ctx[d] EXCEPT !.status = "failed", !.rollbackFailed = TRUE])
  /\ app' \in SetAppFailed(app)
  /\ UNCHANGED disk

\* Tier 2 needs the tag the app had; without one only tier 3 is left.
BeginTier2(d) ==
  \/ /\ ctx[d].oldTag # Nil
     /\ Advance(d, "t2_create", ctx[d])
     /\ UNCHANGED <<app, disk>>
  \/ ctx[d].oldTag = Nil /\ Tier3(d)

\* rollback_recreate_container: tier 1 needs an old container.
BeginRollback(d) ==
  \/ /\ ctx[d].old # Nil
     /\ Advance(d, "rb_restart", [ctx[d] EXCEPT !.status = "restarting_old"])
     /\ UNCHANGED <<app, disk>>
  \/ ctx[d].old = Nil /\ BeginTier2(d)

\* Mutant of RcStart: a failed start does not roll back.
RcStartNoRollback(d) ==
  /\ pc[d] = "rc_start"
  /\ \/ \E r \in CallRuntime(d) :
          /\ runtime' = r
          /\ Advance(d, "rc_health",
                     [ctx[d] EXCEPT !.new = New(d), !.port = r[New(d)].port,
                                    !.status = "health_checking"])
          /\ UNCHANGED <<app, disk, route>>
     \/ CreateFails(New(d)) /\ Fail(d)

RcStart(d) ==
  /\ pc[d] = "rc_start"
  /\ \/ \E r \in CallRuntime(d) :
          /\ runtime' = r
          /\ Advance(d, "rc_health",
                     [ctx[d] EXCEPT !.new = New(d), !.port = r[New(d)].port,
                                    !.status = "health_checking"])
          /\ UNCHANGED <<app, disk, route>>
     \/ CreateFails(New(d)) /\ BeginRollback(d)

\* An HTTP container must answer and be running (an inspect error counts as
\* running); a worker must be seen running.
RcHealth(d) ==
  /\ pc[d] = "rc_health"
  /\ \/ /\ runtime[New(d)].ok \/ IsWorker(d)
        /\ Running(New(d))
        /\ Advance(d, IF IsWorker(d) THEN "rc_update" ELSE "rc_switch",
                   [ctx[d] EXCEPT !.status = "switching"])
        /\ UNCHANGED runtime
     \/ /\ \/ ~IsWorker(d) /\ ~runtime[New(d)].ok
           \/ IsWorker(d) /\ Fails("inspect")
        /\ Advance(d, "rc_discard", ctx[d])
        /\ UNCHANGED runtime
     \/ /\ Fails("exit")
        /\ runtime' = Stopped(New(d))
        /\ \/ Advance(d, "rc_discard", ctx[d])
           \/ /\ Fails("inspect") /\ runtime[New(d)].ok /\ ~IsWorker(d)
              /\ Advance(d, "rc_switch", [ctx[d] EXCEPT !.status = "switching"])
  /\ UNCHANGED <<app, disk, route>>

RcDiscard(d) ==
  /\ pc[d] = "rc_discard"
  /\ Discard(d)
  /\ BeginRollback(d)

RcSwitch(d) ==
  /\ pc[d] = "rc_switch"
  /\ SetRoutes(d, "rc_update", "rc_discard")

RcUpdate(d) ==
  /\ pc[d] = "rc_update"
  /\ app' = SwitchedContainer(d)
  /\ SaveAppState(SwitchedContainer(d))
  /\ IF ctx[d].old # Nil THEN Advance(d, "rc_remove_old", ctx[d]) ELSE Complete(d)
  /\ UNCHANGED <<runtime, route>>

RcRemoveOld(d) ==
  /\ pc[d] = "rc_remove_old"
  /\ Discard(d)
  /\ Complete(d)
  /\ UNCHANGED <<app, disk>>

\* Tier 1: start the old container again and route to it.
RbRestart(d) ==
  /\ pc[d] = "rb_restart"
  /\ \/ /\ Exists(ctx[d].old)
        /\ runtime' \in CallRuntime(d)
        /\ IF Routed
           THEN Advance(d, "rb_route", ctx[d]) /\ UNCHANGED <<app, disk>>
           ELSE Fail(d)
     \/ /\ Fails("start") \/ ~Exists(ctx[d].old)
        /\ BeginTier2(d)
        /\ UNCHANGED runtime
  /\ UNCHANGED route

\* A rollback restores the route; a failure is only logged.
RestoreRoute(d) ==
  /\ \/ route' \in CallRoute(d)
     \/ Fails("restore") /\ UNCHANGED route
  /\ UNCHANGED runtime

RbRoute(d) ==
  /\ pc[d] = "rb_route"
  /\ RestoreRoute(d)
  /\ Fail(d)

\* Tier 2: a fresh container from the tag the app had.  It is not recorded in
\* the deploy context.
T2Create(d) ==
  /\ pc[d] = "t2_create"
  /\ \/ /\ runtime' \in CallRuntime(d)
        /\ Advance(d, "t2_health", ctx[d])
        /\ UNCHANGED <<app, disk, route>>
     \/ CreateFails(Fallback(d)) /\ Tier3(d)

T2Health(d) ==
  /\ pc[d] = "t2_health"
  /\ Advance(d, IF ~runtime[Fallback(d)].ok THEN "t2_discard"
                ELSE IF Routed THEN "t2_route" ELSE "t2_update", ctx[d])
  /\ UNCHANGED <<app, disk, runtime, route>>

T2Route(d) ==
  /\ pc[d] = "t2_route"
  /\ RestoreRoute(d)
  /\ Advance(d, "t2_update", ctx[d])
  /\ UNCHANGED <<app, disk>>

\* The entry follows the fallback container; the state file does not, and the
\* old container is not removed.
T2Update(d) ==
  /\ pc[d] = "t2_update"
  /\ Return(d, [ctx[d] EXCEPT !.status = "failed"])
  /\ app' \in SetAppFailed(IF app.entry
                           THEN [app EXCEPT !.cid = Fallback(d), !.tag = ctx[d].oldTag,
                                            !.port = runtime[Fallback(d)].port]
                           ELSE app)
  /\ UNCHANGED <<disk, runtime, route>>

T2Discard(d) ==
  /\ pc[d] = "t2_discard"
  /\ Discard(d)
  /\ Tier3(d)

-----------------------------------------------------------------------------
(* The deploy timeout.                                                     *)

\* Mutant of Timeout: the timeout covers the deploy only up to the switch.
TimeoutBeforeSwitch(d) ==
  /\ pc[d] \in DeadlineSteps \ {"bg_drain", "pod_drain", "rc_remove_old"}
  /\ runtime' \in {runtime} \cup CallRuntime(d)
  /\ route' \in {route} \cup CallRoute(d)
  /\ \/ /\ ctx[d].new # Nil
        /\ Advance(d, "timeout_cleanup", ctx[d])
        /\ UNCHANGED <<app, disk>>
     \/ ctx[d].new = Nil /\ Fail(d)

\* tokio::time::timeout drops the task at an await: the pending call took
\* effect or not, and no cleanup or rollback of the task itself runs.
Timeout(d) ==
  /\ pc[d] \in DeadlineSteps
  /\ runtime' \in {runtime} \cup CallRuntime(d)
  /\ route' \in {route} \cup CallRoute(d)
  /\ \/ /\ ctx[d].new # Nil
        /\ Advance(d, "timeout_cleanup", ctx[d])
        /\ UNCHANGED <<app, disk>>
     \/ ctx[d].new = Nil /\ Fail(d)

\* The handler removes the container of the context, a pod it does not.
TimeoutCleanup(d) ==
  /\ pc[d] = "timeout_cleanup"
  /\ Discard(d)
  /\ Fail(d)

-----------------------------------------------------------------------------
BlueGreen(d) == BgStart(d) \/ BgHealth(d) \/ BgVerify(d) \/ BgDiscard(d)
                \/ BgSwitch(d) \/ BgUpdate(d) \/ BgDrain(d)
Pod(d) == PodDeploy(d) \/ PodHealth(d) \/ PodDiscard(d) \/ PodSwitch(d)
          \/ PodUpdate(d) \/ PodDrain(d)
Recreate(d) == RcStop(d) \/ RcUnroute(d) \/ RcStart(d) \/ RcHealth(d)
               \/ RcDiscard(d) \/ RcSwitch(d) \/ RcUpdate(d) \/ RcRemoveOld(d)
Rollback(d) == RbRestart(d) \/ RbRoute(d) \/ T2Create(d) \/ T2Health(d)
               \/ T2Route(d) \/ T2Update(d) \/ T2Discard(d)

Task(d) == LookUpApp(d) \/ PullImages(d) \/ Configure(d) \/ BlueGreen(d)
           \/ Pod(d) \/ Recreate(d) \/ Rollback(d) \/ Timeout(d)
           \/ TimeoutCleanup(d)

Request == \E d \in Deploys, t \in Tags, k \in Kinds, s \in Strategies :
             HandleDeploy(d, t, k, s)

Next == Request \/ \E d \in Deploys : Task(d)

Spec == Init /\ [][Next]_vars

\* The runtime, Caddy or the registry may hang: nothing is assumed of the calls
\* a deploy makes inside its timeout.  The timer fires, and the removal after
\* it, which no timeout covers, returns.
Fairness == \A d \in Deploys : WF_vars(Timeout(d)) /\ WF_vars(TimeoutCleanup(d))

FairSpec == Spec /\ Fairness

-----------------------------------------------------------------------------
(* Properties.                                                             *)

\* Traffic for the app reaches a running container.
Serving == route # 0 /\ \E c \in Containers : Running(c) /\ runtime[c].port = route

RollbackFailed == \E d \in Deploys : ctx[d].rollbackFailed

\* One deploy at a time per app: a task that has not returned owns the lock.
OneDeployAtATime == \A d \in Deploys : InFlight(d) => lock = d

\* While the current version of the app is an HTTP one, the app's route leads to
\* a running container at every moment, through every blue-green deploy that
\* succeeds or fails and after every recreate deploy, unless the recreate ended
\* in tier 3.  (An app that once was a pod and once a container is left out: a
\* failed recreate routes it back to the container, whatever the pod does.)
ZeroDowntime ==
  /\ app.port # 0
  /\ app.cid = Nil \/ app.pod = Nil
  /\ ~RollbackFailed
  /\ \A d \in Deploys : InFlight(d) => ctx[d].strategy # "recreate"
  => Serving

\* While the current version of the app is an HTTP one, traffic never reaches a
\* container that has not passed its health check, whatever port the runtime
\* hands out.
OnlyHealthyServe ==
  app.port # 0 /\ route # 0 =>
    \A c \in Containers : Running(c) /\ runtime[c].port = route => runtime[c].ok

\* The app state never names a container or a pod that failed its health check.
RecordedIsHealthy ==
  \A c \in {app.cid, app.pod} \ {Nil} :
    runtime[c].st # "absent" /\ ctx[c[1]].kind \in {"http", "pod"} => runtime[c].ok

\* A running container belongs to the app state or to the deploy in flight:
\* nothing keeps running that no later deploy or deletion will stop.
NoRunningOrphan ==
  \A c \in Containers : Running(c) =>
    \/ c \in {app.cid, app.pod}
    \/ \E d \in Deploys : InFlight(d) /\ c \in {New(d), Fallback(d), ctx[d].old}

\* Between deploys the container and the pod of the app state are running: a
\* failed deploy puts back, or never touched, what ran before it.
RecordedRuns ==
  lock = Nil /\ ~RollbackFailed =>
    \A c \in {app.cid, app.pod} \ {Nil} : Running(c)

\* "leave the old container serving (it was never touched)": the cleanup after
\* a timeout never takes the container away that traffic is sent to.
TimeoutKeepsServing ==
  [][\A d \in Deploys :
       pc[d] = "timeout_cleanup" /\ pc'[d] = "done" /\ Serving => Serving']_vars

\* Every accepted deploy ends, and with it the app lock is released, even if
\* the calls it makes hang.
EveryDeployEnds == \A d \in Deploys : InFlight(d) ~> pc[d] = "done"

=============================================================================
