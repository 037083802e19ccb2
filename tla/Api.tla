-------------------------------- MODULE Api --------------------------------
(* slipd's request handlers and the locks they share (slip-core api.rs with *)
(* the deploy task, the reconcile tick and the service controller as far as *)
(* they take the same locks).                                                *)
(*                                                                           *)
(* Two maps stand behind tokio RwLocks: apps (the registered apps) and       *)
(* app_states (what runs); deploys, the cache of each app's last deploy, is  *)
(* read and written without one.  A service binding holds the bindings mutex, a    *)
(* service operation the service mutex; all four are first come, first       *)
(* served, so a waiting writer holds back every later reader.  A section     *)
(* that awaits nothing while it holds a guard is one step; a guard kept over *)
(* an await is in held.  The app lock is only ever tried.  A client that     *)
(* hangs up drops its handler at the await it is at, guards and all; the     *)
(* deploy task is spawned and goes on.                                       *)
EXTENDS Naturals, Sequences, SequencesExt

CONSTANTS Reqs, Apps, Nil,
          MaxInc,   \* bound: how often an app may be registered
          Scenes    \* which command, for which app, each request may come from

ASSUME ApiAssumption == Nil \notin Reqs

VARIABLES apps,     \* app -> the registration in the apps map, 0: none
          born,     \* app -> registrations so far
          states,   \* app -> its entry in app_states, or Nil
          deploys,  \* app -> the registration the cached last deploy was accepted under,
                    \* 0: none; a delete leaves it
          up,       \* apps with a running container
          appLock,  \* app -> the request that holds its deploy lock, or Nil
          held,     \* lock -> the guards kept over an await
          queue,    \* lock -> who waits for it, in order
          req,      \* request -> where its handler is and what it read
          cut,      \* apps a delete of which was cut short
          scene

apiVars == <<apps, born, states, deploys, up, appLock, held, queue, req, cut, scene>>

Locks == {"apps", "app_states", "bindings", "service"}
Entry == [inc : 1..MaxInc, status : {"deploying", "running", "failed"}]

Idle == [kind |-> Nil, app |-> Nil, at |-> "idle", inc |-> 0, shown |-> {}, code |-> 0,
         did |-> FALSE, won |-> FALSE]

ApiInit ==
  /\ apps = [a \in Apps |-> 1]
  /\ born = apps
  /\ states = [a \in Apps |-> [inc |-> 1, status |-> "running"]]
  /\ deploys = [a \in Apps |-> 0]
  /\ up = Apps
  /\ appLock = [a \in Apps |-> Nil]
  /\ held = [l \in Locks |-> {}]
  /\ queue = [l \in Locks |-> << >>]
  /\ req = [r \in Reqs |-> Idle]
  /\ cut = {}
  /\ scene \in Scenes

(* ------------------------------- the locks ------------------------------- *)

\* The lock a handler asks for at each of its steps, and how.
Wants(at) ==
  CASE at \in {"apps", "usage"}              -> <<"apps", "r">>
    [] at \in {"remove", "publish"}          -> <<"apps", "w">>
    [] at \in {"states", "count", "previous"} -> <<"app_states", "r">>
    [] at \in {"mark", "switch", "forget"}   -> <<"app_states", "w">>
    [] at = "lease"                          -> <<"bindings", "w">>
    [] at = "service"                        -> <<"service", "w">>
    [] OTHER                                 -> <<Nil, Nil>>

Free(l, m) == \A g \in held[l] : m = "r" /\ g[2] = "r"

Lock(r) == Wants(req[r].at)[1]
Mode(r) == Wants(req[r].at)[2]

\* The lock of r's step is r's turn: nobody is ahead of it and no guard excludes it.
Turn(r) == LET l == Lock(r)
           IN  Free(l, Mode(r)) /\ (queue[l] # << >> => Head(queue[l]) = r)

\* RwLock::read, RwLock::write and Mutex::lock when the guard is not to be had.
Wait(r) ==
  /\ Lock(r) # Nil /\ ~Turn(r)
  /\ ~Contains(queue[Lock(r)], r)
  /\ queue' = [queue EXCEPT ![Lock(r)] = Append(@, r)]
  /\ UNCHANGED <<apps, born, states, deploys, up, appLock, held, req, cut, scene>>

\* r takes its turn and drops the guard within the step, or keeps it.
Pass(r) == queue' = [queue EXCEPT ![Lock(r)] = Remove(@, r)]
Short(r) == Turn(r) /\ Pass(r) /\ UNCHANGED held
Keep(r) == Turn(r) /\ Pass(r) /\ held' = [held EXCEPT ![Lock(r)] = @ \cup {<<r, Mode(r)>>}]

\* Everything r holds or waits for, given up: the drop of a handler's future.
Without(r) == [l \in Locks |-> {g \in held[l] : g[1] # r}]
Unlocked(r) == [a \in Apps |-> IF appLock[a] = r THEN Nil ELSE appLock[a]]
Dropped(r) == /\ held' = Without(r)
              /\ queue' = [l \in Locks |-> Remove(queue[l], r)]
              /\ appLock' = Unlocked(r)

A(r) == req[r].app
At(r, k, at) == req[r].kind \in k /\ req[r].at = at
To(r, at) == [req EXCEPT ![r].at = at]
Answered(r, code) == [req EXCEPT ![r].at = "end", ![r].code = code]

\* The handler returns.
Answer(r, code) == /\ req' = Answered(r, code)
                   /\ Dropped(r)

data == <<apps, born, states, deploys, up, cut, scene>>

(* -------------------------- status, logs and lists -------------------------- *)

\* GET /v1/status, after the pings: the app_states guard is kept ...
StatusStates(r) ==
  /\ At(r, {"status"}, "states") /\ Keep(r)
  /\ req' = To(r, "apps")
  /\ UNCHANGED <<data, appLock>>

\* ... while the apps guard is awaited; every registered app is shown with its entry and
\* its last deploy.
StatusApps(r) ==
  /\ At(r, {"status"}, "apps") /\ Turn(r)
  /\ req' = [Answered(r, 200) EXCEPT ![r].shown =
               {<<a, apps[a], states[a].inc, deploys[a]>> :
                  a \in {b \in Apps : apps[b] # 0 /\ states[b] # Nil}}]
  /\ Dropped(r)
  /\ UNCHANGED data

\* GET /v1/apps, /v1/apps/{name}, its secrets, /status and /logs: the app is looked up.
ReadApps(r) ==
  /\ At(r, {"get", "appStatus", "logs"}, "apps") /\ Turn(r)
  /\ \/ apps[A(r)] = 0 /\ Answer(r, 404)
     \/ apps[A(r)] # 0 /\ req[r].kind = "get" /\ Answer(r, 200)
     \/ /\ apps[A(r)] # 0 /\ req[r].kind # "get" /\ Short(r)
        /\ req' = [req EXCEPT ![r].at = IF req[r].kind = "logs" THEN "list" ELSE "states",
                              ![r].inc = apps[A(r)]]
        /\ UNCHANGED appLock
  /\ UNCHANGED data

\* The status of one app clones the entry ...
AppStatusStates(r) ==
  /\ At(r, {"appStatus"}, "states") /\ Short(r)
  /\ req' = [req EXCEPT ![r].at = "query",
               ![r].shown = IF states[A(r)] = Nil THEN {}
                            ELSE {<<A(r), req[r].inc, states[A(r)].inc, 0>>}]
  /\ UNCHANGED <<data, appLock>>

\* ... asks the runtime, the app and Caddy, none of them for longer than its time-out, and
\* adds the last deploy.
AppStatusQuery(r) ==
  /\ At(r, {"appStatus"}, "query")
  /\ \/ Answer(r, 500)
     \/ /\ req' = [Answered(r, 200) EXCEPT ![r].shown =
                    {<<s[1], s[2], s[3], deploys[A(r)]>> : s \in req[r].shown}]
        /\ Dropped(r)
  /\ UNCHANGED data

\* GET /v1/apps/{name}/logs: a bad since, or no running container listed in time ...
LogsList(r) ==
  /\ At(r, {"logs"}, "list")
  /\ \/ \E code \in {400, 404} : Answer(r, code)
     \/ A(r) \in up /\ req' = To(r, "states") /\ UNCHANGED <<held, queue, appLock>>
  /\ UNCHANGED data

\* ... or the streams, each labelled after the entry.
LogsStates(r) ==
  /\ At(r, {"logs"}, "states") /\ Turn(r)
  /\ Answer(r, 200)
  /\ UNCHANGED data

(* ------------------------- creating, changing, deleting ------------------------- *)

\* lock_app: tried, never awaited.
LockApp(r) ==
  /\ At(r, {"create", "update", "delete"}, "lock")
  /\ \/ appLock[A(r)] # Nil /\ Answer(r, 409)
     \/ /\ appLock[A(r)] = Nil
        /\ appLock' = [appLock EXCEPT ![A(r)] = r]
        /\ req' = To(r, IF req[r].kind = "delete" THEN "remove" ELSE "apps")
        /\ UNCHANGED <<held, queue>>
  /\ UNCHANGED data

\* Creating needs the name to be free, changing needs it to be taken; then the needs
\* are validated.
CheckApp(r) ==
  /\ At(r, {"create", "update"}, "apps") /\ Turn(r)
  /\ \/ req[r].kind = "create" /\ apps[A(r)] # 0 /\ Answer(r, 409)
     \/ req[r].kind = "update" /\ apps[A(r)] = 0 /\ Answer(r, 404)
     \/ /\ (req[r].kind = "create") = (apps[A(r)] = 0)
        /\ \/ Answer(r, 400)
           \/ Short(r) /\ req' = To(r, "lease") /\ UNCHANGED appLock
  /\ UNCHANGED data

\* prepare_bindings: the lease is kept until the handler returns.
Lease(r) ==
  /\ At(r, {"create", "update"}, "lease") /\ Keep(r)
  /\ \E at \in {"service", "persist"} : req' = To(r, at)
  /\ UNCHANGED <<data, appLock>>

\* A need's service is locked while its database is made, which may not be had ...
BindService(r) ==
  /\ At(r, {"create", "update"}, "service") /\ Keep(r)
  /\ req' = To(r, "provision")
  /\ UNCHANGED <<data, appLock>>

\* ... and unlocked once it is there; one need, a further one would do the same.
Provision(r) ==
  /\ At(r, {"create", "update"}, "provision")
  /\ \/ \E code \in {404, 409, 500} : Answer(r, code)
     \/ /\ held' = [held EXCEPT !["service"] = @ \ {<<r, "w">>}]
        /\ req' = To(r, "persist")
        /\ UNCHANGED <<queue, appLock>>
  /\ UNCHANGED data

PersistApp(r) ==
  /\ At(r, {"create", "update"}, "persist")
  /\ \/ Answer(r, 500)
     \/ req' = To(r, "publish") /\ UNCHANGED <<held, queue, appLock>>
  /\ UNCHANGED data

\* The new configuration enters the apps map and the handler returns.
Publish(r) ==
  /\ At(r, {"create", "update"}, "publish") /\ Turn(r)
  /\ req' = [Answered(r, 200) EXCEPT ![r].did = TRUE]
  /\ Dropped(r)
  /\ born' = IF req[r].kind = "create" THEN [born EXCEPT ![A(r)] = @ + 1] ELSE born
  /\ apps' = [apps EXCEPT ![A(r)] = born'[A(r)]]
  /\ UNCHANGED <<states, deploys, up, cut, scene>>

\* A delete that would keep the map's guard until it returns.
DeleteRemoveHolds(r) ==
  /\ At(r, {"delete"}, "remove") /\ Turn(r)
  /\ \/ apps[A(r)] = 0 /\ Answer(r, 404) /\ UNCHANGED data
     \/ /\ apps[A(r)] # 0 /\ Keep(r)
        /\ apps' = [apps EXCEPT ![A(r)] = 0]
        /\ req' = [To(r, "states") EXCEPT ![r].did = TRUE]
        /\ UNCHANGED <<born, states, deploys, up, cut, scene, appLock>>

\* DELETE /v1/apps/{name}: the app leaves the map first.
DeleteRemove(r) ==
  /\ At(r, {"delete"}, "remove") /\ Turn(r)
  /\ \/ apps[A(r)] = 0 /\ Answer(r, 404) /\ UNCHANGED data
     \/ /\ apps[A(r)] # 0 /\ Short(r)
        /\ apps' = [apps EXCEPT ![A(r)] = 0]
        /\ req' = [To(r, "states") EXCEPT ![r].did = TRUE]
        /\ UNCHANGED <<born, states, deploys, up, cut, scene, appLock>>

\* The guard the entry is cloned from lives as long as the body of the if let.
DeleteStates(r) ==
  /\ At(r, {"delete"}, "states")
  /\ IF states[A(r)] = Nil THEN Short(r) /\ req' = To(r, "count")
                           ELSE Keep(r) /\ req' = To(r, "stop")
  /\ UNCHANGED <<data, appLock>>

\* The container or the pod is stopped, or it is not; the guard goes with the body.
DeleteStop(r) ==
  /\ At(r, {"delete"}, "stop")
  /\ up' \in {up, up \ {A(r)}}
  /\ held' = Without(r)
  /\ req' = To(r, "count")
  /\ UNCHANGED <<apps, born, states, deploys, appLock, queue, cut, scene>>

DeleteRoutes(r) ==
  /\ \/ At(r, {"delete"}, "count") /\ Short(r) /\ req' = To(r, "routes")
     \/ At(r, {"delete"}, "routes") /\ req' = To(r, "forget") /\ UNCHANGED <<held, queue>>
  /\ UNCHANGED <<data, appLock>>

\* A delete that would return without the entry being gone.
DeleteForgetLeaves(r) ==
  /\ At(r, {"delete"}, "forget") /\ Turn(r)
  /\ Answer(r, 200)
  /\ UNCHANGED data

\* The entry, the secrets and the configuration file go; the lock with the handler.  The
\* cache of the last deploy stays.
DeleteForget(r) ==
  /\ At(r, {"delete"}, "forget") /\ Turn(r)
  /\ states' = [states EXCEPT ![A(r)] = Nil]
  /\ \E code \in {200, 500} : Answer(r, code)
  /\ UNCHANGED <<apps, born, deploys, up, cut, scene>>

(* --------------------------- deploys and rollbacks --------------------------- *)

\* POST /v1/deploy and a rollback look the app up; a deploy's signature, image and needs
\* are checked (a service it needs may be missing, ambiguous or unreadable), a rollback
\* looks for its target in the history and, failing that, in the entry.
DeployApps(r) ==
  /\ At(r, {"deploy", "rollback"}, "apps") /\ Turn(r)
  /\ \/ apps[A(r)] = 0 /\ Answer(r, 404)
     \/ apps[A(r)] # 0 /\ req[r].kind = "rollback" /\ Answer(r, 400)
     \/ /\ apps[A(r)] # 0 /\ req[r].kind = "deploy"
        /\ \E code \in {400, 401, 404, 409, 500} : Answer(r, code)
     \/ /\ apps[A(r)] # 0 /\ Short(r) /\ UNCHANGED appLock
        /\ req' = To(r, IF req[r].kind = "deploy" THEN "trylock" ELSE "count")
  /\ UNCHANGED data

RollbackTarget(r) ==
  /\ \/ /\ At(r, {"rollback"}, "count") /\ Short(r) /\ UNCHANGED appLock
        /\ \E at \in {"trylock", "previous"} : req' = To(r, at)
     \/ /\ At(r, {"rollback"}, "previous") /\ Turn(r)
        /\ \/ Answer(r, 409)
           \/ states[A(r)] # Nil /\ Short(r) /\ req' = To(r, "trylock") /\ UNCHANGED appLock
  /\ UNCHANGED data

\* The deploy is recorded, the guard moves into the spawned task and the request is
\* answered 202.
Accept(r) ==
  /\ At(r, {"deploy", "rollback"}, "trylock")
  /\ \/ appLock[A(r)] # Nil /\ Answer(r, 409) /\ UNCHANGED deploys
     \/ /\ appLock[A(r)] = Nil
        /\ appLock' = [appLock EXCEPT ![A(r)] = r]
        /\ req' = [req EXCEPT ![r].kind = "task", ![r].at = "apps",
                              ![r].code = 202, ![r].did = TRUE]
        /\ deploys' = [deploys EXCEPT ![A(r)] = born[A(r)]]
        /\ UNCHANGED <<held, queue>>
  /\ UNCHANGED <<apps, born, states, up, cut, scene>>

Task(r, at) == At(r, {"task"}, at)
TaskEnd(r) == req' = To(r, "end") /\ Dropped(r)

\* set_app_failed tries the write guard and gives up where it is not free.
SetFailed(r) ==
  IF states[A(r)] # Nil /\ Free("app_states", "w") /\ queue["app_states"] = << >>
    THEN [states EXCEPT ![A(r)].status = "failed"]
    ELSE states

\* The deploy task reads the configuration; the app may be gone by now.
TaskApps(r) ==
  /\ Task(r, "apps") /\ Turn(r)
  /\ \/ apps[A(r)] = 0 /\ TaskEnd(r) /\ states' = SetFailed(r)
     \/ /\ apps[A(r)] # 0 /\ Short(r) /\ UNCHANGED <<states, appLock>>
        /\ req' = [To(r, "mark") EXCEPT ![r].inc = apps[A(r)]]
  /\ UNCHANGED <<apps, born, deploys, up, cut, scene>>

TaskMark(r) ==
  /\ Task(r, "mark") /\ Short(r)
  /\ states' = IF states[A(r)] = Nil THEN states
               ELSE [states EXCEPT ![A(r)].status = "deploying"]
  /\ req' = To(r, "work")
  /\ UNCHANGED <<apps, born, deploys, up, appLock, cut, scene>>

\* Pull, start, check, route; the deploy time-out bounds it all, the drain after the
\* switch included.
TaskWork(r) ==
  /\ Task(r, "work")
  /\ \/ TaskEnd(r) /\ states' = SetFailed(r) /\ UNCHANGED up
     \/ /\ req' = To(r, "switch") /\ up' = up \cup {A(r)}
        /\ UNCHANGED <<states, held, queue, appLock>>
  /\ UNCHANGED <<apps, born, deploys, cut, scene>>

TaskSwitch(r) ==
  /\ Task(r, "switch") /\ Turn(r)
  /\ states' = [states EXCEPT ![A(r)] = [inc |-> req[r].inc, status |-> "running"]]
  /\ \E won \in BOOLEAN : req' = [To(r, "end") EXCEPT ![r].won = won]
  /\ Dropped(r)
  /\ UNCHANGED <<apps, born, deploys, up, cut, scene>>

(* ------------------------- services and the tick ------------------------- *)

\* DELETE /v1/services/{name}: the bindings lease, then the service's lock ...
RemoveServiceLocks(r) ==
  /\ \/ At(r, {"svcRemove"}, "lease") /\ Keep(r) /\ req' = To(r, "service")
     \/ At(r, {"svcRemove"}, "service") /\ Keep(r) /\ req' = To(r, "usage")
  /\ UNCHANGED <<data, appLock>>

\* ... and under both the apps that use it; missing, stale, bound and blocked are refused.
RemoveServiceUsage(r) ==
  /\ At(r, {"svcRemove"}, "usage") /\ Turn(r)
  /\ \/ \E code \in {409, 500} : Answer(r, code)
     \/ Short(r) /\ req' = To(r, "provider") /\ UNCHANGED appLock
  /\ UNCHANGED data

\* POST /v1/services and the tick's ensure work under the service's lock; what is asked
\* for is validated before anything is written.
EnsureService(r) ==
  /\ At(r, {"svcAdd", "tick"}, "service")
  /\ \/ Keep(r) /\ req' = To(r, "provider") /\ UNCHANGED appLock
     \/ req[r].kind = "svcAdd" /\ Turn(r) /\ \E code \in {400, 503} : Answer(r, code)
  /\ UNCHANGED data

\* The provider's work, which may have had its effect when it fails.
Provider(r) ==
  /\ At(r, {"svcAdd", "svcRemove", "tick"}, "provider")
  /\ \E code \in {200, 409, 500}, did \in BOOLEAN :
       /\ code = 200 => did
       /\ req' = [Answered(r, code) EXCEPT ![r].did = did]
  /\ Dropped(r)
  /\ UNCHANGED data

\* A reconcile tick copies both maps, one guard after the other, then works on the copies.
TickReads(r) ==
  /\ \/ At(r, {"tick"}, "states") /\ req' = To(r, "apps")
     \/ At(r, {"tick"}, "apps") /\ req' = To(r, "service")
  /\ Short(r)
  /\ UNCHANGED <<data, appLock>>

(* ------------------------------ the requests ------------------------------ *)

First(k) ==
  CASE k \in {"status", "tick"}                                    -> "states"
    [] k \in {"get", "appStatus", "logs", "deploy", "rollback"}    -> "apps"
    [] k \in {"create", "update", "delete"}                        -> "lock"
    [] k = "svcAdd"                                                -> "service"
    [] k = "svcRemove"                                             -> "lease"
    [] k = "store"                                                 -> "store"

\* The router hands an authenticated request to its handler.
Arrive(r, k, a) ==
  /\ req[r].at = "idle"
  /\ k = "create" => born[a] < MaxInc
  /\ req' = [req EXCEPT ![r] = [Idle EXCEPT !.kind = k, !.app = a, !.at = First(k)]]
  /\ UNCHANGED <<data, appLock, held, queue>>

Open(r) == req[r].at \notin {"idle", "end"}
Background == {"task", "tick"}

\* The client hangs up: the handler is dropped where it waits.
HangUp(r) ==
  /\ Open(r) /\ req[r].kind \notin Background
  /\ req' = [req EXCEPT ![r].at = "end", ![r].code = 0]
  /\ Dropped(r)
  /\ cut' = IF req[r].kind = "delete" /\ req[r].did THEN cut \cup {A(r)} ELSE cut
  /\ UNCHANGED <<apps, born, states, deploys, up, scene>>

Local(r) ==
  \/ StatusStates(r) \/ StatusApps(r) \/ ReadApps(r) \/ AppStatusStates(r)
  \/ AppStatusQuery(r) \/ LogsList(r) \/ LogsStates(r)
  \/ LockApp(r) \/ CheckApp(r) \/ Lease(r) \/ BindService(r) \/ Provision(r) \/ PersistApp(r) \/ Publish(r)
  \/ DeleteRemove(r) \/ DeleteStates(r) \/ DeleteRoutes(r) \/ DeleteForget(r)
  \/ DeployApps(r) \/ RollbackTarget(r) \/ Accept(r)
  \/ TaskApps(r) \/ TaskMark(r) \/ TaskWork(r) \/ TaskSwitch(r)
  \/ RemoveServiceLocks(r) \/ RemoveServiceUsage(r) \/ EnsureService(r) \/ TickReads(r)
  \/ Provider(r)

Serve(r) == Wait(r) \/ Local(r) \/ DeleteStop(r)

(* ------------------------------- properties ------------------------------- *)

\* No status answer shows a registered app as running or failed with what an earlier app
\* of that name left behind, unless the delete of that one was cut short by its client:
\* the entry of app_states is gone before the name is free again, and the last deploy shown
\* beside an entry is never from before it, although a delete leaves the cache of last
\* deploys alone.  (An app shown as not deployed may carry an earlier one's last deploy.)
StatusIsOfThisApp ==
  \A r \in Reqs : \A s \in req[r].shown :
    /\ s[1] \in cut \/ s[3] >= s[2]
    /\ s[4] # 0 => s[4] >= s[3]

\* Whatever requests, deploys and ticks meet, each of them ends: the guards kept over an
\* await, the waiting writers and the two service mutexes never close a circle, and no
\* hang-up leaves a guard behind.
EveryRequestEnds == \A r \in Reqs : Open(r) ~> ~Open(r)

=============================================================================
