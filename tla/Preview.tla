------------------------------- MODULE Preview -------------------------------
(***************************************************************************)
(* The preview deployments of one app: the deploy tasks of its previews,   *)
(* each behind a per-preview lock, and the teardowns (API, expiry reaper,  *)
(* eviction at the limit), which take no lock.  They meet in the shared    *)
(* preview_states map, the state files, the container runtime and Caddy.   *)
(*                                                                         *)
(* pc[d] is the await the task of deploy d is suspended at; td[t] is where *)
(* task t is in teardown_preview, and what it read from the map before.    *)
(* Deploy d creates one container or pod, which is called d too.           *)
(***************************************************************************)
EXTENDS Integers, Sequences, FiniteSets, SequencesExt

CONSTANTS
  Previews,       \* preview ids
  Deploys,        \* preview deploy ids
  Ports,          \* ephemeral host ports the runtime hands out
  Nil,            \* Option::None
  Kinds,          \* app kinds the images of this instance declare
  Ttls,           \* whether the previews of this instance expire
  MaxLimit,       \* resolve_max_limit: the preview limit, or Nil
  FailingCalls,   \* calls that may fail in this instance
  DeadlineSteps,  \* awaits at which the preview timeout may fire
  Events          \* what happens around the deploys in this instance

AllKinds == {"http", "worker", "pod"}

\* "lookup" is an app deleted before the task starts, "domain" the one config
\* error that is not recorded, "inspect" a create call that fails after the
\* container started, "exit" a worker found dead, "reply" a Caddy request that
\* is applied but answered with an error.
AllCalls == {"lookup", "pull", "config", "domain", "stop", "create", "inspect",
             "port", "health", "exit", "hook", "route", "reply", "unroute",
             "save", "delete"}

\* "overlap": a preview is torn down while it is deployed, or deployed while it
\* is torn down.  "restart" is a crash at a calm moment, "disconnect" an API
\* client that goes away.
AllEvents == {"overlap", "crash", "restart", "disconnect"}

TimedSteps == {"pulling", "configuring", "evicting", "unrouting_old", "starting",
               "health", "hooks", "switching", "completing", "discarding"}
Steps == TimedSteps \cup {"idle", "accepted", "done"}

ASSUME PreviewAssumption ==
  /\ Ports \subseteq Nat \ {0}
  /\ Kinds \subseteq AllKinds
  /\ Ttls \subseteq {"none", "live"}
  /\ MaxLimit \in Nat \cup {Nil}
  /\ FailingCalls \subseteq AllCalls
  /\ DeadlineSteps \subseteq TimedSteps
  /\ Events \subseteq AllEvents
  /\ IsFiniteSet(Deploys) /\ IsFiniteSet(Previews)
  /\ Nil \notin Deploys \cup Nat
  /\ {"api", "reaper"} \cap Deploys = {}

VARIABLES
  lock,     \* preview_locks: the deploy that owns the guard, or Nil
  pc,       \* where each deploy task is suspended
  ctx,      \* PreviewDeployContext of each deploy, with the locals of its task
  entry,    \* preview_states, Nil where there is no entry
  file,     \* state/previews/{app}/{id}.json, Nil where there is none
  units,    \* containers and pods: the host port of a running one, or Nil
  route,    \* host port behind the Caddy route of each preview, or Nil
  td,       \* where each task is in teardown_preview, and what is left to do
  clock,    \* number of deploys started: deployed_at
  up        \* whether slipd is serving

vars == <<lock, pc, ctx, entry, file, units, route, td, clock, up>>

-----------------------------------------------------------------------------
(* State.                                                                  *)

Option(S) == S \cup {Nil}
HostPorts == Ports \cup {0}
Tasks == Deploys \cup {"api", "reaper"}

\* PreviewState.  unit is container_id, or pod_name with manifest_path if pod;
\* domain is whether there is one; ttl is expires_at against the present.
Entry == [status : {"not_deployed", "deploying", "running", "failed"},
          unit : Option(Deploys), pod : BOOLEAN, port : Option(HostPorts),
          ttl : {"none", "live", "expired"}, domain : BOOLEAN,
          at : Nat \ {0}]

ASSUME EntryAssumption == Nil \notin Entry

\* The entry a deploy starts with: what an earlier deploy left is overwritten.
Fresh == [status |-> "deploying", unit |-> Nil, pod |-> FALSE, port |-> Nil,
          ttl |-> "none", domain |-> FALSE, at |-> clock + 1]

Context == [preview : Option(Previews), kind : AllKinds, old : Option(Deploys),
            oldPod : BOOLEAN, port : HostPorts]
NewContext(p) ==
  [preview |-> p, kind |-> "http", old |-> Nil, oldPod |-> FALSE, port |-> 0]

Teardown == [step : {"read", "stop", "unroute", "remove"}, queue : Seq(Previews),
             unit : Option(Deploys), routed : BOOLEAN]
NoTeardown == [step |-> "read", queue |-> <<>>, unit |-> Nil, routed |-> FALSE]

PreviewTypeOK ==
  /\ lock \in [Previews -> Option(Deploys)]
  /\ pc \in [Deploys -> Steps]
  /\ ctx \in [Deploys -> Context]
  /\ entry \in [Previews -> Option(Entry)]
  /\ file \in [Previews -> Option(Entry)]
  /\ units \in [Deploys -> Option(HostPorts)]
  /\ route \in [Previews -> Option(HostPorts)]
  /\ td \in [Tasks -> Teardown]
  /\ clock \in Nat
  /\ up \in BOOLEAN
  /\ \A p \in Previews :
       /\ lock[p] # Nil => pc[lock[p]] \notin {"idle", "done"} /\ ctx[lock[p]].preview = p
       /\ entry[p] # Nil => entry[p].at <= clock
       /\ file[p] # Nil => file[p].at <= clock

InFlight(d) == pc[d] \notin {"idle", "done"}
Fails(call) == call \in FailingCalls
IsWorker(d) == ctx[d].kind = "worker"
IsPod(d) == ctx[d].kind = "pod"
Target(d) == ctx[d].preview
RunningPreviews == {p \in Previews : entry[p] # Nil /\ entry[p].status = "running"}

\* A deploy task has written the entry of p, and has not ended.
Deploying(p) == \E d \in Deploys : InFlight(d) /\ pc[d] # "accepted" /\ Target(d) = p

\* A teardown has p on its list.
TearingDown(p) == \E t \in Tasks : Contains(td[t].queue, p)

Init ==
  /\ lock = [p \in Previews |-> Nil]
  /\ pc = [d \in Deploys |-> "idle"]
  /\ ctx = [d \in Deploys |-> NewContext(Nil)]
  /\ entry = [p \in Previews |-> Nil]
  /\ file = [p \in Previews |-> Nil]
  /\ units = [d \in Deploys |-> Nil]
  /\ route = [p \in Previews |-> Nil]
  /\ td = [t \in Tasks |-> NoTeardown]
  /\ clock = 0
  /\ up = TRUE

-----------------------------------------------------------------------------
(* The container runtime and Caddy (external).                             *)

FreePorts == Ports \ {units[u] : u \in Deploys}

\* create_and_start, deploy_pod: a worker publishes no port.
Started(d) ==
  {[units EXCEPT ![d] = p] : p \in IF IsWorker(d) THEN {0} ELSE FreePorts}

\* stop_and_remove, teardown_pod
Stopped(u) == IF u = Nil THEN units ELSE [units EXCEPT ![u] = Nil]

\* A stop whose failure is only logged.
StopBestEffort(u) == units' = Stopped(u) \/ (Fails("stop") /\ UNCHANGED units)

\* A remove_routes whose failure is only logged.
UnrouteBestEffort(p) ==
  route' = [route EXCEPT ![p] = Nil] \/ (Fails("unroute") /\ UNCHANGED route)

-----------------------------------------------------------------------------
(* Ways a step of the task of d ends.                                      *)

Advance(d, step, c) ==
  /\ pc' = [pc EXCEPT ![d] = step]
  /\ ctx' = [ctx EXCEPT ![d] = c]
  /\ UNCHANGED <<lock, clock, up>>

\* The spawned task ends and drops the guard of the preview lock.
Return(d) ==
  /\ pc' = [pc EXCEPT ![d] = "done"]
  /\ lock' = [lock EXCEPT ![Target(d)] = Nil]
  /\ UNCHANGED <<ctx, clock, up>>

\* update_preview_status: the entry may have been removed.
WithStatus(p, s) ==
  IF entry[p] = Nil THEN entry ELSE [entry EXCEPT ![p].status = s]

\* fail_preview, and the deploy returns its error.  The state file of an
\* earlier deploy stays.
Fail(d) ==
  /\ Return(d)
  /\ entry' = WithStatus(Target(d), "failed")
  /\ UNCHANGED file

\* fail_preview, then the container or pod of the deploy is removed.
FailAndDiscard(d) ==
  /\ Advance(d, "discarding", ctx[d])
  /\ entry' = WithStatus(Target(d), "failed")
  /\ UNCHANGED file

-----------------------------------------------------------------------------
(* The deploy task.                                                        *)

\* The preview path of handle_deploy: the guard moves into the spawned task.
HandlePreviewDeploy(d, p) ==
  /\ up /\ pc[d] = "idle" /\ lock[p] = Nil
  /\ lock' = [lock EXCEPT ![p] = d]
  /\ pc' = [pc EXCEPT ![d] = "accepted"]
  /\ ctx' = [ctx EXCEPT ![d] = NewContext(p)]
  /\ UNCHANGED <<entry, file, units, route, td, clock, up>>

\* Mutant of Capture: the ids are read after the entry is overwritten.
CaptureLate(d) ==
  /\ pc[d] = "accepted"
  /\ "overlap" \in Events \/ ~TearingDown(Target(d))
  /\ pc' = [pc EXCEPT ![d] = "pulling"]
  /\ ctx' = [ctx EXCEPT ![d].old = Nil, ![d].oldPod = FALSE]
  /\ entry' = [entry EXCEPT ![Target(d)] = Fresh]
  /\ clock' = clock + 1
  /\ UNCHANGED <<lock, file, units, route, td, up>>

\* Look up the app, remember the ids of the entry, overwrite the entry.
Capture(d) ==
  /\ pc[d] = "accepted"
  /\ "overlap" \in Events \/ ~TearingDown(Target(d))
  /\ LET p == Target(d)
         old == IF entry[p] = Nil THEN Fresh ELSE entry[p]
     IN \/ /\ pc' = [pc EXCEPT ![d] = "pulling"]
           /\ ctx' = [ctx EXCEPT ![d].old = old.unit, ![d].oldPod = old.pod]
           /\ entry' = [entry EXCEPT ![p] = Fresh]
           /\ clock' = clock + 1
           /\ UNCHANGED <<lock, file, up>>
        \/ Fails("lookup") /\ Fail(d)
  /\ UNCHANGED <<units, route, td>>

Pull(d) ==
  /\ pc[d] = "pulling"
  /\ \/ Advance(d, "configuring", ctx[d]) /\ UNCHANGED <<entry, file>>
     \/ Fails("pull") /\ Fail(d)
  /\ UNCHANGED <<units, route, td>>

\* The previews a deploy of p evicts, in order: the oldest running ones, until there
\* is room for one more.
Victims(p) ==
  LET others == RunningPreviews \ {p}
      count == Cardinality(others)
      surplus == IF MaxLimit = Nil \/ count < MaxLimit THEN 0
                 ELSE IF MaxLimit = 0 THEN count ELSE count - MaxLimit + 1
  IN {q \in [1 .. surplus -> others] : \A i \in 1 .. surplus :
        {a \in others : entry[a].at < entry[q[i]].at} = {q[j] : j \in 1 .. i - 1}}

\* Extract, check and merge the repo config, resolve the domain, compute the
\* expiry and collect the victims.
Configure(d) ==
  /\ pc[d] = "configuring"
  /\ LET p == Target(d) IN
     \/ \E k \in Kinds, ttl \in Ttls, victims \in Victims(p) :
          /\ Advance(d, "evicting", [ctx[d] EXCEPT !.kind = k])
          /\ entry' = IF entry[p] = Nil THEN entry
                      ELSE [entry EXCEPT ![p].domain = (k # "worker"), ![p].ttl = ttl]
          /\ td' = [td EXCEPT ![d].queue = victims]
          /\ UNCHANGED file
     \/ Fails("config") /\ Fail(d) /\ UNCHANGED td
     \/ Fails("domain") /\ Return(d) /\ UNCHANGED <<entry, file, td>>
  /\ UNCHANGED <<units, route>>

\* The container or pod the redeployed preview ran before.
TearDownOld(d) ==
  /\ pc[d] = "evicting" /\ td[d].queue = <<>>
  /\ StopBestEffort(ctx[d].old)
  /\ Advance(d, IF ctx[d].oldPod THEN "unrouting_old" ELSE "starting", ctx[d])
  /\ UNCHANGED <<entry, file, route, td>>

\* Only the route of a pod is removed before the redeploy.
UnrouteOld(d) ==
  /\ pc[d] = "unrouting_old"
  /\ UnrouteBestEffort(Target(d))
  /\ Advance(d, "starting", ctx[d])
  /\ UNCHANGED <<entry, file, units, td>>

Start(d) ==
  /\ pc[d] = "starting"
  /\ LET p == Target(d) IN
     \/ /\ units' \in Started(d)
        /\ Advance(d, "health", [ctx[d] EXCEPT !.port = units'[d]])
        /\ entry' = IF entry[p] = Nil THEN entry
                    ELSE [entry EXCEPT ![p].unit = d, ![p].pod = IsPod(d),
                                       ![p].port = units'[d]]
        /\ UNCHANGED file
     \/ Fails("create") /\ Fail(d) /\ UNCHANGED units
     \/ Fails("inspect") /\ Fail(d) /\ units' \in Started(d)
     \/ IsPod(d) /\ Fails("port") /\ FailAndDiscard(d) /\ units' \in Started(d)
  /\ UNCHANGED <<route, td>>

\* A worker that is found dead is removed, one that cannot be inspected stays.
Health(d) ==
  /\ pc[d] = "health"
  /\ \/ /\ Advance(d, IF IsPod(d) THEN "switching" ELSE "hooks", ctx[d])
        /\ UNCHANGED <<entry, file, units>>
     \/ ~IsWorker(d) /\ Fails("health") /\ FailAndDiscard(d) /\ UNCHANGED units
     \/ IsWorker(d) /\ Fails("exit") /\ FailAndDiscard(d) /\ units' = Stopped(d)
     \/ IsWorker(d) /\ Fails("inspect") /\ Fail(d) /\ UNCHANGED units
  /\ UNCHANGED <<route, td>>

\* The migrate and the seed hook run in the container.
Hooks(d) ==
  /\ pc[d] = "hooks"
  /\ \/ /\ Advance(d, IF IsWorker(d) THEN "completing" ELSE "switching", ctx[d])
        /\ UNCHANGED <<entry, file>>
     \/ Fails("hook") /\ FailAndDiscard(d)
  /\ UNCHANGED <<units, route, td>>

\* Mutant of Switch: an error of set_routes is only logged.
SwitchLogsErrors(d) ==
  /\ pc[d] = "switching"
  /\ \/ route' = [route EXCEPT ![Target(d)] = ctx[d].port]
     \/ Fails("route") /\ UNCHANGED route
  /\ Advance(d, "completing", ctx[d])
  /\ UNCHANGED <<entry, file, units, td>>

Switch(d) ==
  /\ pc[d] = "switching"
  /\ LET routed == [route EXCEPT ![Target(d)] = ctx[d].port] IN
     \/ /\ route' = routed
        /\ Advance(d, "completing", ctx[d])
        /\ UNCHANGED <<entry, file>>
     \/ Fails("route") /\ FailAndDiscard(d) /\ UNCHANGED route
     \/ Fails("reply") /\ FailAndDiscard(d) /\ route' = routed
  /\ UNCHANGED <<units, td>>

\* Mark the entry running and write the state file, if the entry is there.
Complete(d) ==
  /\ pc[d] = "completing"
  /\ LET p == Target(d) IN
     /\ entry' = IF entry[p] = Nil THEN entry
                 ELSE [entry EXCEPT ![p].status = "running", ![p].port = ctx[d].port]
     /\ \/ file' = IF entry[p] = Nil THEN file ELSE [file EXCEPT ![p] = entry'[p]]
        \/ Fails("save") /\ UNCHANGED file
  /\ Return(d)
  /\ UNCHANGED <<units, route, td>>

Discard(d) ==
  /\ pc[d] = "discarding"
  /\ StopBestEffort(d)
  /\ Return(d)
  /\ UNCHANGED <<entry, file, route, td>>

\* The preview timeout drops the task at its await; all it does is mark the
\* entry.  A create call may have taken effect unrecorded; a call that took
\* effect before the drop is the step after it.
Timeout(d) ==
  /\ pc[d] \in DeadlineSteps
  /\ Fail(d)
  /\ \/ UNCHANGED units
     \/ pc[d] = "starting" /\ units' \in Started(d)
  /\ td' = [td EXCEPT ![d] = NoTeardown]
  /\ UNCHANGED route

-----------------------------------------------------------------------------
(* teardown_preview, run by task t for the first preview of its list.      *)

\* The list is done with its first preview.
Drop(t) == td' = [td EXCEPT ![t] = [NoTeardown EXCEPT !.queue = Tail(td[t].queue)]]

TeardownRead(t) ==
  /\ td[t].queue # <<>> /\ td[t].step = "read"
  /\ LET e == entry[Head(td[t].queue)] IN
     IF e = Nil THEN Drop(t)
     ELSE td' = [td EXCEPT ![t].step = "stop", ![t].unit = e.unit, ![t].routed = e.domain]
  /\ UNCHANGED <<lock, pc, ctx, entry, file, units, route, clock, up>>

\* Mutant of TeardownStop: the route is not removed.
TeardownStopOnly(t) ==
  /\ td[t].step = "stop"
  /\ StopBestEffort(td[t].unit)
  /\ td' = [td EXCEPT ![t].step = "remove"]
  /\ UNCHANGED <<lock, pc, ctx, entry, file, route, clock, up>>

TeardownStop(t) ==
  /\ td[t].step = "stop"
  /\ StopBestEffort(td[t].unit)
  /\ td' = [td EXCEPT ![t].step = IF td[t].routed THEN "unroute" ELSE "remove"]
  /\ UNCHANGED <<lock, pc, ctx, entry, file, route, clock, up>>

TeardownUnroute(t) ==
  /\ td[t].step = "unroute"
  /\ UnrouteBestEffort(Head(td[t].queue))
  /\ td' = [td EXCEPT ![t].step = "remove"]
  /\ UNCHANGED <<lock, pc, ctx, entry, file, units, clock, up>>

\* The entry goes, whatever was written to it since it was read.
TeardownRemove(t) ==
  /\ td[t].step = "remove"
  /\ LET p == Head(td[t].queue) IN
     /\ entry' = [entry EXCEPT ![p] = Nil]
     /\ \/ file' = [file EXCEPT ![p] = Nil]
        \/ Fails("delete") /\ UNCHANGED file
  /\ Drop(t)
  /\ UNCHANGED <<lock, pc, ctx, units, route, clock, up>>

\* A task that has nothing to tear down takes on the previews S, in any order.
Collect(t, S) ==
  /\ up /\ td[t].queue = <<>>
  /\ "overlap" \in Events \/ \A p \in S : ~Deploying(p)
  /\ \E q \in SetToSeqs(S) : td' = [td EXCEPT ![t].queue = q]
  /\ UNCHANGED <<lock, pc, ctx, entry, file, units, route, clock, up>>

\* DELETE /v1/previews/{app}/{id}, and DELETE /v1/previews/{app}
HandlePreviewTeardown(p) == entry[p] # Nil /\ Collect("api", {p})
HandlePreviewTeardownAll == Collect("api", {p \in Previews : entry[p] # Nil})

\* Mutant of Expired: only running previews are reaped.
ExpiredRunning == {p \in RunningPreviews : entry[p].ttl = "expired"}

\* collect_expired_previews: an expired preview is torn down whatever its status.
Expired == {p \in Previews : entry[p] # Nil /\ entry[p].ttl = "expired"}

\* A scan of the reaper.
ReapExpired == Expired # {} /\ Collect("reaper", Expired)

\* The client of a teardown goes away: the handler's future is dropped.
Disconnect ==
  /\ "disconnect" \in Events
  /\ td["api"].queue # <<>>
  /\ td' = [td EXCEPT !["api"] = NoTeardown]
  /\ UNCHANGED <<lock, pc, ctx, entry, file, units, route, clock, up>>

-----------------------------------------------------------------------------
(* Time, crash and startup.                                                *)

\* The time to live of the preview deployed at n passes, in memory and on disk.
Elapse(n) ==
  LET Live(e) == e # Nil /\ e.at = n /\ e.ttl = "live"
      Past(e) == IF Live(e) THEN [e EXCEPT !.ttl = "expired"] ELSE e
  IN /\ \E p \in Previews : Live(entry[p]) \/ Live(file[p])
     /\ entry' = [p \in Previews |-> Past(entry[p])]
     /\ file' = [p \in Previews |-> Past(file[p])]
     /\ UNCHANGED <<lock, pc, ctx, units, route, td, clock, up>>

\* Nothing is under way and every preview runs.
Calm ==
  /\ \A d \in Deploys : ~InFlight(d)
  /\ \A t \in Tasks : td[t].queue = <<>>
  /\ \A p \in Previews : entry[p] # Nil => entry[p].status = "running"

\* slipd dies.  A create call may take effect after that; the other calls that
\* may are the steps before the crash.
Crash ==
  /\ "crash" \in Events \/ ("restart" \in Events /\ Calm)
  /\ up
  /\ up' = FALSE
  /\ lock' = [p \in Previews |-> Nil]
  /\ pc' = [d \in Deploys |-> IF InFlight(d) THEN "done" ELSE pc[d]]
  /\ entry' = [p \in Previews |-> Nil]
  /\ td' = [t \in Tasks |-> NoTeardown]
  /\ units' \in {units} \cup UNION {Started(d) : d \in {x \in Deploys : pc[x] = "starting"}}
  /\ UNCHANGED <<ctx, file, route, clock>>

\* load_preview_states: the status is guessed from the ids.
Loaded(f) ==
  IF f = Nil THEN Nil
  ELSE [f EXCEPT !.status = IF f.unit # Nil THEN "running" ELSE "not_deployed"]

\* reconcile_preview_routes
Reconciled(p, e) ==
  IF e # Nil /\ e.status = "running" /\ e.port # Nil /\ e.domain THEN e.port ELSE route[p]

\* main: load, reconcile the routes, serve.  No container is verified.
Boot ==
  /\ ~up
  /\ up' = TRUE
  /\ entry' = [p \in Previews |-> Loaded(file[p])]
  /\ \/ route' = [p \in Previews |-> Reconciled(p, entry'[p])]
     \/ Fails("route") /\ UNCHANGED route
  /\ UNCHANGED <<lock, pc, ctx, file, units, td, clock>>

-----------------------------------------------------------------------------
DeployTask(d) ==
  Capture(d) \/ Pull(d) \/ Configure(d) \/ TearDownOld(d) \/ UnrouteOld(d)
    \/ Start(d) \/ Health(d) \/ Hooks(d) \/ Switch(d) \/ Complete(d) \/ Discard(d)

TeardownTask(t) ==
  TeardownRead(t) \/ TeardownStop(t) \/ TeardownUnroute(t) \/ TeardownRemove(t)

Next ==
  \/ \E d \in Deploys : DeployTask(d) \/ Timeout(d)
  \/ \E d \in Deploys, p \in Previews : HandlePreviewDeploy(d, p)
  \/ \E t \in Tasks : TeardownTask(t)
  \/ \E p \in Previews : HandlePreviewTeardown(p)
  \/ \E n \in 1 .. clock : Elapse(n)
  \/ HandlePreviewTeardownAll \/ ReapExpired \/ Disconnect \/ Crash \/ Boot

Spec == Init /\ [][Next]_vars

\* Every call returns, the reaper keeps scanning and slipd is started again.
Fairness ==
  /\ \A d \in Deploys : WF_vars(DeployTask(d))
  /\ \A t \in Tasks : WF_vars(TeardownTask(t))
  /\ WF_vars(ReapExpired)
  /\ WF_vars(Boot)

FairSpec == Spec /\ Fairness

-----------------------------------------------------------------------------
(* Properties.                                                             *)

\* The URL of a preview shown as running leads to the container or pod that
\* its entry names, and to no other one, from the end of its deploy until it
\* is torn down or deployed again.
RunningServes ==
  \A p \in RunningPreviews : ~TearingDown(p) =>
    LET e == entry[p] IN
    /\ e.unit # Nil /\ units[e.unit] = e.port
    /\ e.domain => route[p] = e.port /\ ctx[e.unit].preview = p

\* Nothing runs unowned: what a preview runs is named by its entry, or by a
\* deploy that is still under way and will remove it or record it.
UnitsOwned ==
  up => \A u \in Deploys : units[u] # Nil =>
    \/ \E p \in Previews : entry[p] # Nil /\ entry[p].unit = u
    \/ InFlight(u)
    \/ \E d \in Deploys : InFlight(d) /\ ctx[d].old = u

\* teardown_preview "stops/removes the container or pod, removes the Caddy
\* route": when a preview is gone, so is everything it ran, and its route.
TornDownIsGone ==
  \A p \in Previews :
    up /\ entry[p] = Nil /\ ~Deploying(p) /\ ~TearingDown(p) =>
      /\ route[p] = Nil
      /\ \A u \in Deploys : Target(u) = p => units[u] = Nil

\* An expired preview is torn down or deployed anew, whatever crashes, failed
\* calls and other teardowns come in between.
ExpiredIsReaped ==
  \A p \in Previews :
    (entry[p] # Nil /\ entry[p].ttl = "expired")
      ~> (entry[p] = Nil \/ entry[p].ttl # "expired")

=============================================================================
