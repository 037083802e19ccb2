-------------------------------- MODULE Slipd --------------------------------
(***************************************************************************)
(* The daemon around the deploy orchestrator, for one app: crash and       *)
(* startup (load state, verify containers, reconcile the route), the       *)
(* periodic reconcile loop that works on a snapshot, restarts of Caddy,    *)
(* and creation and deletion of the app through the management API.        *)
(***************************************************************************)
EXTENDS Deploy

CONSTANT Events   \* what happens around the deploys in this instance

AllEvents == {"crash", "reconcile", "caddy_restart", "delete", "disconnect"}

\* The guard of an API handler is told apart from those of the deploys.
ASSUME SlipdAssumption ==
  /\ Events \subseteq AllEvents
  /\ "api" \notin Deploys \cup {Nil}

VARIABLES
  up,       \* whether slipd is serving
  config,   \* whether the app's config file exists
  snap,     \* the reconcile tick's clone of the app state
  snapApp,  \* whether the tick's clone of the apps map holds the app
  ticking,  \* whether a tick is between its snapshot and its last Caddy call
  del       \* where the delete handler is suspended

slipdVars == <<up, config, snap, snapApp, ticking, del>>
allVars == <<vars, slipdVars>>

DeleteSteps == {"none", "stop", "pod", "route", "state", "config"}

SlipdTypeOK ==
  /\ TypeOK
  /\ up \in BOOLEAN /\ config \in BOOLEAN /\ snapApp \in BOOLEAN /\ ticking \in BOOLEAN
  /\ snap \in AppState
  /\ del \in DeleteSteps
  /\ ticking => up
  /\ lock = "api" <=> del # "none"

SlipdInit ==
  /\ Init
  /\ up = TRUE
  /\ config = TRUE
  /\ snap = NoApp
  /\ snapApp = FALSE
  /\ ticking = FALSE
  /\ del = "none"

-----------------------------------------------------------------------------
(* Reconciling the route.                                                  *)

\* Mutant of ReconciledRoute: a route Caddy no longer has is not put back.
ReconciledRoutePatched(a, configured) ==
  IF a.status = "running" /\ a.routes # Nil /\ route # Nil THEN a.routes ELSE route

\* What reconcile_app_routes leaves in Caddy for the app state a: only a
\* running app has a route, from current_routes or from the config's domain
\* and current_port.
ReconciledRoute(a, configured) ==
  IF a.status # "running" THEN route
  ELSE IF a.routes # Nil THEN a.routes
  ELSE IF a.port # 0 /\ configured THEN a.port
  ELSE route

\* from_state: the clone is taken under a short read lock; the app lock is not.
Snapshot ==
  /\ "reconcile" \in Events
  /\ up /\ ~ticking
  /\ ticking' = TRUE
  /\ snap' = app
  /\ snapApp' = registered
  /\ UNCHANGED <<vars, up, config, del>>

\* The rest of the tick: the clone is applied, or Caddy refuses all retries.
ApplySnapshot ==
  /\ ticking
  /\ ticking' = FALSE
  /\ \/ route' = ReconciledRoute(snap, snapApp)
     \/ Fails("route") /\ UNCHANGED route
  /\ snap' = NoApp
  /\ snapApp' = FALSE
  /\ UNCHANGED <<lock, pc, ctx, app, disk, runtime, registered, up, config, del>>

\* Caddy comes back with none of the routes it was given.
CaddyRestart ==
  /\ "caddy_restart" \in Events
  /\ route # Nil
  /\ route' = Nil
  /\ UNCHANGED <<lock, pc, ctx, app, disk, runtime, registered, slipdVars>>

-----------------------------------------------------------------------------
(* Creating and deleting the app.                                          *)

\* handle_create_app: the config file, and a state file if there is none; a
\* state file left by a deleted app of the same name is kept.
CreateApp ==
  /\ up /\ lock = Nil /\ ~registered
  /\ registered' = TRUE
  /\ config' = TRUE
  /\ disk' = [disk EXCEPT !.file = TRUE]
  /\ UNCHANGED <<lock, pc, ctx, app, runtime, route, up, snap, snapApp, ticking, del>>

\* handle_delete_app up to its first call
DeleteApp ==
  /\ "delete" \in Events
  /\ up /\ lock = Nil /\ registered
  /\ lock' = "api"
  /\ registered' = FALSE
  /\ del' = IF app.cid # Nil THEN "stop" ELSE IF app.pod # Nil THEN "pod" ELSE "route"
  /\ UNCHANGED <<pc, ctx, app, disk, runtime, route, up, config, snap, snapApp, ticking>>

\* The calls of the delete handler only log their errors.
DeleteRuntime ==
  CASE del = "stop" -> Removed(app.cid)
    [] del = "pod" -> Removed(app.pod)
    [] OTHER -> runtime

DeleteStop ==
  /\ del \in {"stop", "pod"}
  /\ \/ runtime' = DeleteRuntime
     \/ Fails("remove") /\ UNCHANGED runtime
  /\ del' = IF del = "stop" /\ app.pod # Nil THEN "pod" ELSE "route"
  /\ UNCHANGED <<lock, pc, ctx, app, disk, route, registered, up, config, snap,
                 snapApp, ticking>>

\* Mutant of DeletedRoute: the route of a pod is forgotten.
DeletedRouteContainer == IF del = "route" /\ app.cid # Nil THEN Nil ELSE route

\* remove_routes for current_routes.len() routes, one if there is no entry.
DeletedRoute ==
  IF del = "route" /\ (~app.entry \/ app.routes # Nil) THEN Nil ELSE route

DeleteRoute ==
  /\ del = "route"
  /\ \/ route' = DeletedRoute
     \/ Fails("unroute") /\ UNCHANGED route
  /\ del' = "state"
  /\ UNCHANGED <<lock, pc, ctx, app, disk, runtime, registered, up, config, snap,
                 snapApp, ticking>>

\* The entry goes; the state file stays.
DeleteState ==
  /\ del = "state"
  /\ app' = NoApp
  /\ del' = "config"
  /\ UNCHANGED <<lock, pc, ctx, disk, runtime, route, registered, up, config, snap,
                 snapApp, ticking>>

DeleteConfig ==
  /\ del = "config"
  /\ config' = FALSE
  /\ del' = "none"
  /\ lock' = Nil
  /\ UNCHANGED <<pc, ctx, app, disk, runtime, route, registered, up, snap, snapApp,
                 ticking>>

\* The client goes away: the handler's future is dropped at its await, the
\* pending call took effect or not, and the guard is released.  The blocking
\* task that deletes the config file is not dropped with it.
Disconnect ==
  /\ "disconnect" \in Events
  /\ del # "none"
  /\ runtime' \in {runtime, DeleteRuntime}
  /\ route' \in {route, DeletedRoute}
  /\ config' = (config /\ del # "config")
  /\ del' = "none"
  /\ lock' = Nil
  /\ UNCHANGED <<pc, ctx, app, disk, registered, up, snap, snapApp, ticking>>

-----------------------------------------------------------------------------
(* Crash and startup.                                                      *)

\* slipd dies: everything in memory is gone, and a pending call took effect or
\* not.  Containers, Caddy and the files stay.
Crash ==
  /\ "crash" \in Events
  /\ up
  /\ up' = FALSE
  /\ runtime' \in {runtime, DeleteRuntime}
                  \cup UNION {CallRuntime(d) : d \in {x \in Deploys : InFlight(x)}}
  /\ route' \in {route, DeletedRoute}
                \cup (IF ticking THEN {ReconciledRoute(snap, snapApp)} ELSE {})
                \cup UNION {CallRoute(d) : d \in {x \in Deploys : InFlight(x)}}
  /\ lock' = Nil
  /\ pc' = [d \in Deploys |-> IF InFlight(d) THEN "done" ELSE pc[d]]
  /\ app' = NoApp
  /\ registered' = FALSE
  /\ config' \in {config, config /\ del # "config"}
  /\ snap' = NoApp
  /\ snapApp' = FALSE
  /\ ticking' = FALSE
  /\ del' = "none"
  /\ UNCHANGED <<ctx, disk>>

\* load_app_states: the status is guessed, the deploy id is lost.
Loaded ==
  [entry |-> disk.file,
   status |-> IF disk.cid # Nil \/ disk.pod # Nil THEN "running" ELSE "not_deployed",
   tag |-> disk.tag, prevTag |-> disk.prevTag, cid |-> disk.cid, pod |-> disk.pod,
   port |-> disk.port, routes |-> disk.routes, deployId |-> Nil]

\* verify_containers: only a container that no longer exists clears the state,
\* not the recorded routes; a stopped one does not, and pods are not looked at.
Verified(a) ==
  IF a.pod = Nil /\ a.cid # Nil /\ ~Exists(a.cid)
  THEN [a EXCEPT !.cid = Nil, !.port = 0, !.status = "not_deployed"]
  ELSE a

\* main: load, verify, reconcile the route, serve.
Boot ==
  /\ ~up
  /\ up' = TRUE
  /\ registered' = config
  /\ app' \in {Verified(Loaded)} \cup (IF Fails("inspect") THEN {Loaded} ELSE {})
  /\ \/ route' = ReconciledRoute(app', config)
     \/ Fails("route") /\ UNCHANGED route
  /\ UNCHANGED <<lock, pc, ctx, disk, runtime, config, snap, snapApp, ticking, del>>

-----------------------------------------------------------------------------
DeployStep == up /\ Next /\ UNCHANGED slipdVars

Api == CreateApp \/ DeleteApp \/ DeleteStop \/ DeleteRoute \/ DeleteState
       \/ DeleteConfig \/ Disconnect

SlipdNext == DeployStep \/ Snapshot \/ ApplySnapshot \/ CaddyRestart \/ Api
             \/ Crash \/ Boot

SlipdSpec == SlipdInit /\ [][SlipdNext]_allVars

\* The interval timer of the reconcile loop keeps ticking and every tick is
\* bounded by the retry budget; nothing is assumed of deploys or of Caddy.
SlipdFairness == WF_allVars(Snapshot) /\ WF_allVars(ApplySnapshot)

-----------------------------------------------------------------------------
(* Properties.                                                             *)

\* The port the app state says traffic goes to.
RoutePort(a) == IF a.routes # Nil THEN a.routes ELSE a.port

\* Traffic survives a crash of slipd at any step of a blue-green deploy: while
\* the daemon is down and after it came back, as long as the state file names
\* a version, the route leads to a running container.
CrashKeepsServing == disk.cid # Nil \/ disk.pod # Nil => Serving

\* Between deploys and ticks, an app shown as running is routed to the port its
\* state names, and the container or pod of the state listens there: what
\* startup guesses from the state file is true.
RunningIsRouted ==
  up /\ lock = Nil /\ ~ticking /\ app.status = "running" /\ RoutePort(app) # 0 =>
    /\ route = RoutePort(app)
    /\ \E c \in {app.cid, app.pod} \ {Nil} : Running(c) /\ runtime[c].port = route

\* Once an app is deleted, no route of it is left or comes back.
DeletedIsUnrouted == up /\ ~registered /\ lock = Nil => route = Nil

\* Once an app is deleted, nothing it ran is running.
DeletedIsStopped ==
  up /\ ~registered /\ lock = Nil => \A c \in Containers : ~Running(c)

\* The reconcile loop brings back the route of a running app, however often
\* Caddy loses it and whatever a stale tick wrote over it.
RunningRouteHeals ==
  \A p \in Ports :
    <>[](up /\ lock = Nil /\ app.status = "running" /\ RoutePort(app) = p)
      => []<>(route = p)

=============================================================================
