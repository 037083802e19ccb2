---------------------------- MODULE DeployProofs ----------------------------
(***************************************************************************)
(* Theorems about Deploy, and at the end about Slipd which puts the daemon *)
(* around it, for every value of their constants: any number of deploys,   *)
(* ports and tags, any subset of failing calls and of awaits at which the  *)
(* deploy timeout may fire.                                                *)
(***************************************************************************)
EXTENDS Slipd, TLAPS

(* The steps whose code runs only under "if let Some(old)": the old        *)
(* container they name exists as an id.                                    *)
OldSteps == {"bg_drain", "pod_drain", "rc_stop", "rc_remove_old",
             "rb_restart", "rb_route"}
OldKnown == \A d \in Deploys : pc[d] \in OldSteps => ctx[d].old \in Containers

TypeInv == TypeOK /\ OldKnown

-----------------------------------------------------------------------------
(* What the external calls leave behind is well typed.                     *)

\* Ports handed to a container are host ports.
LEMMA PortChoicesType == \A c : PortChoices(c) \subseteq HostPorts
  BY ConstantsAssumption DEF PortChoices, FreePorts, HostPorts

\* create_and_start and deploy_pod leave a well-typed runtime.
LEMMA CreatedType ==
  ASSUME TypeOK, NEW c \in Containers
  PROVE  Created(c) \subseteq [Containers -> Container]
  BY DEF Created, TypeOK

\* start_container, stop_container and stop_and_remove do too.
LEMMA ChangedType ==
  ASSUME TypeOK, NEW c \in Containers
  PROVE  /\ Restarted(c) \subseteq [Containers -> Container]
         /\ Stopped(c) \in [Containers -> Container]
         /\ Removed(c) \in [Containers -> Container]
<1>1. Restarted(c) \subseteq [Containers -> Container]
  BY PortChoicesType DEF Restarted, TypeOK, Container, HostPorts
<1>2. Stopped(c) \in [Containers -> Container]
  BY DEF Stopped, TypeOK, Container, HostPorts
<1>3. Removed(c) \in [Containers -> Container]
  BY DEF Removed, TypeOK, Container, HostPorts, Absent
<1> QED BY <1>1, <1>2, <1>3

\* A deploy's own containers are containers.
LEMMA OwnContainers ==
  \A d \in Deploys : New(d) \in Containers /\ Fallback(d) \in Containers
  BY DEF New, Fallback, Containers

\* Nil is none of the ids.
LEMMA NilFresh == Nil \notin Deploys /\ Nil \notin Containers /\ Nil \notin Tags
  BY ConstantsAssumption

\* Whatever call a deploy waits for, the runtime stays well typed.
LEMMA CallRuntimeType ==
  ASSUME TypeInv, NEW d \in Deploys
  PROVE  CallRuntime(d) \subseteq [Containers -> Container]
<1> USE DEF TypeInv
<1>1. ctx[d].old \in Containers \cup {Nil}
  BY DEF TypeOK, Context, Option
<1>2. CASE pc[d] \in {"bg_start", "rc_start", "pod_deploy"}
  BY <1>2, CreatedType, OwnContainers DEF CallRuntime
<1>3. CASE pc[d] = "t2_create"
  BY <1>3, CreatedType, OwnContainers DEF CallRuntime
<1>4. CASE pc[d] = "rb_restart" /\ Exists(ctx[d].old)
  BY <1>4, <1>1, ChangedType DEF CallRuntime, Exists
<1>5. CASE pc[d] = "rc_stop" /\ Exists(ctx[d].old)
  BY <1>5, <1>1, ChangedType DEF CallRuntime, Exists
<1>6. CASE pc[d] \in {"bg_drain", "pod_drain", "rc_remove_old"}
  <2>1. ctx[d].old \in Containers
    BY <1>6 DEF OldKnown, OldSteps
  <2> QED BY <1>6, <2>1, ChangedType DEF CallRuntime
<1>7. CASE pc[d] \in {"bg_discard", "pod_discard", "rc_discard"}
  BY <1>7, ChangedType, OwnContainers DEF CallRuntime
<1>8. CASE pc[d] = "t2_discard"
  BY <1>8, ChangedType, OwnContainers DEF CallRuntime
<1>9. CASE ~ \/ pc[d] \in {"bg_start", "rc_start", "pod_deploy", "t2_create"}
             \/ pc[d] = "rb_restart" /\ Exists(ctx[d].old)
             \/ pc[d] = "rc_stop" /\ Exists(ctx[d].old)
             \/ pc[d] \in {"bg_drain", "pod_drain", "rc_remove_old"}
             \/ pc[d] \in {"bg_discard", "pod_discard", "rc_discard"}
             \/ pc[d] \in {"t2_discard", "timeout_cleanup"}
  <2>1. CallRuntime(d) = {runtime}
    BY <1>9 DEF CallRuntime
  <2> QED BY <2>1 DEF TypeOK
<1>10. CASE pc[d] = "timeout_cleanup"
  <2>1. Removed(ctx[d].new) \in [Containers -> Container]
    BY DEF Removed, Absent, Container, HostPorts, TypeOK
  <2> QED BY <1>10, <2>1 DEF CallRuntime
<1> QED BY <1>2, <1>3, <1>4, <1>5, <1>6, <1>7, <1>8, <1>9, <1>10

\* Whatever call a deploy waits for, the route is a host port or absent.
LEMMA CallRouteType ==
  ASSUME TypeInv, NEW d \in Deploys
  PROVE  CallRoute(d) \subseteq Option(HostPorts)
<1> USE DEF TypeInv
<1>1. ctx[d].port \in HostPorts /\ app.port \in HostPorts
  BY DEF TypeOK, Context, AppState
<1>2. \A c \in Containers : runtime[c].port \in HostPorts
  BY DEF TypeOK, Container
<1>3. CASE pc[d] = "rb_route"
  <2>1. ctx[d].old \in Containers
    BY <1>3 DEF OldKnown, OldSteps
  <2> QED BY <1>3, <2>1, <1>1, <1>2 DEF CallRoute, Option
<1>4. CASE pc[d] # "rb_route"
  BY <1>4, <1>1, <1>2, OwnContainers DEF CallRoute, Option, TypeOK
<1> QED BY <1>3, <1>4

-----------------------------------------------------------------------------
(* What the ways a step ends leave behind is well typed.                   *)

TaskTyped ==
  /\ lock \in Option(Deploys \cup {"api"})
  /\ pc \in [Deploys -> Steps]
  /\ ctx \in [Deploys -> Context]
  /\ registered \in BOOLEAN
  /\ OldKnown

StateTyped == app \in AppState /\ disk \in PersistedState

WorldTyped == runtime \in [Containers -> Container] /\ route \in Option(HostPorts)

\* The three parts make up the inductive type invariant.
LEMMA TypeParts == TypeInv <=> TaskTyped /\ StateTyped /\ WorldTyped
  BY DEF TypeInv, TypeOK, TaskTyped, StateTyped, WorldTyped

\* Also after a step.
LEMMA TypeJoin == TaskTyped' /\ StateTyped' /\ WorldTyped' => TypeInv'
  BY DEF TypeInv, TypeOK, TaskTyped, StateTyped, WorldTyped

\* A task that goes on stays well typed if it names an old container wherever
\* it needs one.
LEMMA AdvanceType ==
  ASSUME TaskTyped, NEW d \in Deploys, NEW step \in Steps, NEW c \in Context,
         step \in OldSteps => c.old \in Containers, Advance(d, step, c)
  PROVE  TaskTyped'
<1> HIDE DEF Context, Steps, OldSteps, Containers
<1>1. lock' \in Option(Deploys \cup {"api"}) /\ registered' \in BOOLEAN
  BY DEF Advance, TaskTyped
<1>2. pc' \in [Deploys -> Steps] /\ ctx' \in [Deploys -> Context]
  BY DEF Advance, TaskTyped
<1>3. OldKnown'
  BY DEF Advance, TaskTyped, OldKnown
<1> QED BY <1>1, <1>2, <1>3 DEF TaskTyped

\* A task that returns is well typed.
LEMMA ReturnType ==
  ASSUME TaskTyped, NEW d \in Deploys, NEW c \in Context, Return(d, c)
  PROVE  TaskTyped'
<1>1. lock' \in Option(Deploys \cup {"api"}) /\ registered' \in BOOLEAN
  BY DEF Return, TaskTyped, Option
<1>2. "done" \in Steps /\ "done" \notin OldSteps
  BY DEF Steps, OldSteps
<1> HIDE DEF Context, Steps, OldSteps, Containers
<1>3. pc' \in [Deploys -> Steps] /\ ctx' \in [Deploys -> Context]
  BY <1>2 DEF Return, TaskTyped
<1>4. OldKnown'
  BY <1>2 DEF Return, TaskTyped, OldKnown
<1> QED BY <1>1, <1>3, <1>4 DEF TaskTyped

\* set_app_failed keeps the app state well typed.
LEMMA SetAppFailedType ==
  ASSUME NEW a \in AppState
  PROVE  SetAppFailed(a) \subseteq AppState
  BY DEF SetAppFailed, AppState, AppStatus

\* A change of status keeps a context well typed.
LEMMA StatusType ==
  ASSUME NEW c \in Context, NEW s \in DeployStatus
  PROVE  [c EXCEPT !.status = s] \in Context
  BY DEF Context

\* ctx.fail + record_deploy + set_app_failed keeps everything well typed.
LEMMA FailType ==
  ASSUME TypeInv, NEW d \in Deploys, Fail(d)
  PROVE  TaskTyped' /\ StateTyped'
<1>1. [ctx[d] EXCEPT !.status = "failed"] \in Context
  BY StatusType, TypeParts DEF TaskTyped, DeployStatus
<1>2. TaskTyped'
  BY <1>1, ReturnType, TypeParts DEF Fail
<1>3. StateTyped'
  BY SetAppFailedType, TypeParts DEF Fail, StateTyped
<1> QED BY <1>2, <1>3

\* So does tier 3.
LEMMA Tier3Type ==
  ASSUME TypeInv, NEW d \in Deploys, Tier3(d)
  PROVE  TaskTyped' /\ StateTyped'
<1>0. ctx[d] \in Context /\ "failed" \in DeployStatus
  BY TypeParts DEF TaskTyped, DeployStatus
<1>1. [ctx[d] EXCEPT !.status = "failed", !.rollbackFailed = TRUE] \in Context
  BY <1>0 DEF Context
<1>2. TaskTyped'
  BY <1>1, ReturnType, TypeParts DEF Tier3
<1>3. StateTyped'
  BY SetAppFailedType, TypeParts DEF Tier3, StateTyped
<1> QED BY <1>2, <1>3

\* So does the choice of a rollback tier.
LEMMA RollbackType ==
  ASSUME TypeInv, NEW d \in Deploys, BeginRollback(d) \/ BeginTier2(d)
  PROVE  TaskTyped' /\ StateTyped'
<1>0. ctx[d] \in Context /\ ctx[d].old \in Option(Containers)
  BY TypeParts DEF TaskTyped, Context
<1>1. CASE Tier3(d)
  BY <1>1, Tier3Type
<1>2. CASE Advance(d, "t2_create", ctx[d]) /\ UNCHANGED <<app, disk>>
  BY <1>2, <1>0, AdvanceType, TypeParts
     DEF StateTyped, Steps, TimedSteps, RollbackSteps, OldSteps
<1>3. CASE /\ ctx[d].old # Nil
           /\ Advance(d, "rb_restart", [ctx[d] EXCEPT !.status = "restarting_old"])
           /\ UNCHANGED <<app, disk>>
  <2>1. [ctx[d] EXCEPT !.status = "restarting_old"] \in Context
    BY <1>0, StatusType DEF DeployStatus
  <2>2. [ctx[d] EXCEPT !.status = "restarting_old"].old \in Containers
    BY <1>0, <1>3 DEF Option, Context
  <2>3. "rb_restart" \in Steps
    BY DEF Steps, TimedSteps, RollbackSteps
  <2>4. TaskTyped'
    BY <1>3, <2>1, <2>2, <2>3, AdvanceType, TypeParts
  <2> QED BY <1>3, <2>4, TypeParts DEF StateTyped
<1> QED BY <1>1, <1>2, <1>3 DEF BeginRollback, BeginTier2

-----------------------------------------------------------------------------
(* Every action keeps the type invariant.                                  *)

\* The names the actions use are steps; the ones without "old" need no old
\* container.
LEMMA StepNames ==
  /\ TimedSteps \subseteq Steps
  /\ {"pulling", "configuring", "timeout_cleanup"} \cup BlueGreenSteps
       \cup PodSteps \cup RecreateSteps \cup RollbackSteps \subseteq Steps
  BY DEF Steps, TimedSteps, BlueGreenSteps, PodSteps, RecreateSteps, RollbackSteps

\* The typed values an action starts from.
LEMMA TypeFacts ==
  ASSUME TypeInv, NEW d \in Deploys
  PROVE  /\ TaskTyped /\ StateTyped /\ WorldTyped
         /\ ctx[d] \in Context
         /\ ctx[d].old \in Option(Containers) /\ ctx[d].new \in Option(Containers)
         /\ ctx[d].pod \in Option(Containers) /\ ctx[d].port \in HostPorts
         /\ ctx[d].tag \in Option(Tags) /\ ctx[d].oldTag \in Option(Tags)
         /\ New(d) \in Containers /\ Fallback(d) \in Containers
         /\ app \in AppState /\ app.cid \in Option(Containers)
         /\ app.pod \in Option(Containers) /\ app.tag \in Option(Tags)
         /\ \A c \in Containers : runtime[c].port \in HostPorts
         /\ runtime \in [Containers -> Container]
         /\ CallRuntime(d) \subseteq [Containers -> Container]
         /\ CallRoute(d) \subseteq Option(HostPorts)
<1>1. TaskTyped /\ StateTyped /\ WorldTyped
  BY TypeParts
<1>2. ctx[d] \in Context /\ app \in AppState /\ runtime \in [Containers -> Container]
  BY <1>1 DEF TaskTyped, StateTyped, WorldTyped
<1>3. /\ ctx[d].old \in Option(Containers) /\ ctx[d].new \in Option(Containers)
      /\ ctx[d].pod \in Option(Containers) /\ ctx[d].port \in HostPorts
      /\ ctx[d].tag \in Option(Tags) /\ ctx[d].oldTag \in Option(Tags)
  BY <1>2 DEF Context
<1>4. /\ app.cid \in Option(Containers) /\ app.pod \in Option(Containers)
      /\ app.tag \in Option(Tags)
  BY <1>2 DEF AppState
<1>5. \A c \in Containers : runtime[c].port \in HostPorts
  BY <1>2 DEF Container
<1> QED BY <1>1, <1>2, <1>3, <1>4, <1>5, OwnContainers, CallRuntimeType, CallRouteType

\* A create that fails leaves a well-typed runtime.
LEMMA CreateFailsType ==
  ASSUME TypeInv, NEW c \in Containers, CreateFails(c)
  PROVE  WorldTyped'
<1>0. runtime \in [Containers -> Container] /\ route \in Option(HostPorts)
  BY TypeParts DEF WorldTyped
<1>1. [st |-> "exited", port |-> 0, ok |-> FALSE] \in Container
  BY DEF Container, HostPorts
<1>2. Created(c) \subseteq [Containers -> Container]
  BY CreatedType DEF TypeInv
<1> HIDE DEF Container
<1>3. runtime' \in [Containers -> Container]
  BY <1>0, <1>1, <1>2 DEF CreateFails
<1> QED BY <1>0, <1>3 DEF CreateFails, WorldTyped

\* A removal leaves a well-typed runtime.
LEMMA DiscardType ==
  ASSUME TypeInv, NEW d \in Deploys, Discard(d)
  PROVE  WorldTyped'
  BY TypeFacts DEF Discard, WorldTyped

\* A set_routes and what follows it keeps everything well typed.
LEMMA SetRoutesType ==
  ASSUME TypeInv, NEW d \in Deploys, NEW x \in Steps \ OldSteps,
         NEW y \in Steps \ OldSteps, SetRoutes(d, x, y)
  PROVE  TypeInv'
<1>1. WorldTyped' /\ StateTyped'
  BY TypeFacts DEF SetRoutes, WorldTyped, StateTyped
<1>2. TaskTyped'
  BY TypeFacts, AdvanceType DEF SetRoutes
<1> QED BY <1>1, <1>2, TypeJoin

\* The entry a switch writes, and what is saved of it, are well typed.
LEMMA SwitchedType ==
  ASSUME TypeInv, NEW d \in Deploys
  PROVE  /\ SwitchedContainer(d) \in AppState
         /\ SwitchedPod(d) \in AppState
         /\ Persisted(SwitchedContainer(d)) \in PersistedState
         /\ Persisted(SwitchedPod(d)) \in PersistedState
<1>1. SwitchedContainer(d) \in AppState /\ SwitchedPod(d) \in AppState
  <2>1. /\ (IF RepoConfig /\ Routed THEN ctx[d].port ELSE Nil) \in Option(HostPorts)
        /\ (IF IsHttp(d) THEN ctx[d].port ELSE Nil) \in Option(HostPorts)
    BY TypeFacts DEF Option
  <2>2. /\ app \in AppState /\ app.tag \in Option(Tags)
        /\ ctx[d].tag \in Option(Tags) /\ ctx[d].port \in HostPorts
        /\ ctx[d].new \in Option(Containers) /\ ctx[d].pod \in Option(Containers)
        /\ d \in Option(Deploys) /\ "running" \in AppStatus
    BY TypeFacts DEF AppState, Option, AppStatus
  <2>3. SwitchedContainer(d) \in AppState
    BY <2>1, <2>2 DEF SwitchedContainer, AppState
  <2>4. SwitchedPod(d) \in AppState
    BY <2>1, <2>2 DEF SwitchedPod, AppState
  <2> QED BY <2>3, <2>4
<1>2. \A a \in AppState : Persisted(a) \in PersistedState
  BY DEF Persisted, AppState, PersistedState
<1> QED BY <1>1, <1>2

\* The steps a deploy takes before its strategy starts.
LEMMA SharedStepsType ==
  ASSUME TypeInv, NEW d \in Deploys,
         LookUpApp(d) \/ PullImages(d) \/ Configure(d)
  PROVE  TypeInv'
<1> USE TypeFacts
<1>1. WorldTyped'
  BY DEF LookUpApp, PullImages, Configure, WorldTyped
<1>2. CASE Fail(d)
  BY <1>1, <1>2, FailType, TypeJoin
<1>3. \A st \in DeployStatus : [ctx[d] EXCEPT !.status = st] \in Context
  BY StatusType
<1>4. CASE LookUpApp(d) /\ ~Fail(d)
  <2>1. TaskTyped'
    BY <1>3, <1>4, AdvanceType DEF LookUpApp, DeployStatus, Steps, TimedSteps, OldSteps
  <2>2. StateTyped'
    BY <1>4 DEF LookUpApp, StateTyped, AppState, AppStatus
  <2> QED BY <1>1, <2>1, <2>2, TypeJoin
<1>5. CASE PullImages(d) /\ ~Fail(d)
  <2>1. TaskTyped'
    BY <1>3, <1>5, AdvanceType DEF PullImages, DeployStatus, Steps, TimedSteps, OldSteps
  <2>2. StateTyped'
    BY <1>5 DEF PullImages, StateTyped
  <2> QED BY <1>1, <2>1, <2>2, TypeJoin
<1>6. CASE Configure(d) /\ ~Fail(d)
  <2>1. StateTyped'
    BY <1>6 DEF Configure, StateTyped
  <2>2. CASE BeginRecreate(d)
    <3> DEFINE c == [ctx[d] EXCEPT !.old = app.cid, !.oldTag = app.tag]
    <3>1. \A st \in DeployStatus : [c EXCEPT !.status = st] \in Context
      BY DEF Context
    <3>2. app.cid # Nil => [c EXCEPT !.status = "stopping_old"].old \in Containers
      BY DEF Context, Option
    <3>3. {"rc_stop", "rc_unroute"} \subseteq Steps /\ "rc_unroute" \notin OldSteps
      BY DEF Steps, TimedSteps, RecreateSteps, OldSteps
    <3>4. {"stopping_old", "removing_route"} \subseteq DeployStatus
      BY DEF DeployStatus
    <3>5. TaskTyped'
      BY <2>2, <3>1, <3>2, <3>3, <3>4, AdvanceType DEF BeginRecreate
    <3> QED BY <1>1, <2>1, <3>5, TypeJoin
  <2>3. CASE ~BeginRecreate(d)
    <3>1. TaskTyped'
      BY <1>3, <1>6, <2>3, AdvanceType
         DEF Configure, DeployStatus, Steps, TimedSteps, BlueGreenSteps, PodSteps, OldSteps
    <3> QED BY <1>1, <2>1, <3>1, TypeJoin
  <2> QED BY <2>2, <2>3
<1> QED BY <1>2, <1>4, <1>5, <1>6

\* The blue-green container path.
LEMMA BlueGreenType ==
  ASSUME TypeInv, NEW d \in Deploys, BlueGreen(d)
  PROVE  TypeInv'
<1> USE TypeFacts
<1>1. CASE BgStart(d)
  <2>1. CASE CreateFails(New(d)) /\ Fail(d)
    BY <2>1, CreateFailsType, FailType, TypeJoin
  <2>2. CASE ~(CreateFails(New(d)) /\ Fail(d))
    <3>1. PICK r \in CallRuntime(d) :
            /\ runtime' = r
            /\ Advance(d, IF IsWorker(d) THEN "bg_verify" ELSE "bg_health",
                       [ctx[d] EXCEPT !.new = New(d), !.port = r[New(d)].port,
                                      !.status = "health_checking"])
            /\ UNCHANGED <<app, disk, route>>
      BY <1>1, <2>2 DEF BgStart
    <3>2. r \in [Containers -> Container] /\ r[New(d)].port \in HostPorts
      BY DEF Container
    <3>3. [ctx[d] EXCEPT !.new = New(d), !.port = r[New(d)].port,
                         !.status = "health_checking"] \in Context
      BY <3>2 DEF Context, Option, DeployStatus
    <3>4. TaskTyped'
      BY <3>1, <3>3, AdvanceType DEF Steps, TimedSteps, BlueGreenSteps, OldSteps
    <3> QED BY <3>1, <3>2, <3>4, TypeJoin DEF StateTyped, WorldTyped
  <2> QED BY <2>1, <2>2
<1>2. CASE BgHealth(d)
  <2>1. TaskTyped'
    BY <1>2, AdvanceType DEF BgHealth, Steps, TimedSteps, BlueGreenSteps, OldSteps
  <2> QED BY <1>2, <2>1, TypeJoin DEF BgHealth, StateTyped, WorldTyped
<1>3. CASE BgVerify(d)
  <2>1. CASE Fail(d)
    <3>1. WorldTyped'
      BY <1>3, ChangedType DEF BgVerify, Refused, WorldTyped, TypeInv
    <3> QED BY <2>1, <3>1, FailType, TypeJoin
  <2>2. CASE ~Fail(d)
    <3>1. [ctx[d] EXCEPT !.status = "switching", !.old = app.cid] \in Context
      BY DEF Context, DeployStatus
    <3>2. TaskTyped'
      BY <1>3, <2>2, <3>1, AdvanceType
         DEF BgVerify, Steps, TimedSteps, BlueGreenSteps, OldSteps
    <3> QED BY <1>3, <2>2, <3>2, TypeJoin DEF BgVerify, StateTyped, WorldTyped
  <2> QED BY <2>1, <2>2
<1>4. CASE BgDiscard(d)
  BY <1>4, DiscardType, FailType, TypeJoin DEF BgDiscard
<1>5. CASE BgSwitch(d)
  BY <1>5, SetRoutesType DEF BgSwitch, Steps, TimedSteps, BlueGreenSteps, OldSteps
<1>6. CASE BgUpdate(d)
  <2>1. StateTyped'
    BY <1>6, SwitchedType DEF BgUpdate, SaveAppState, StateTyped
  <2>2. TaskTyped'
    BY <1>6, AdvanceType, ReturnType, StatusType
       DEF BgUpdate, Complete, DeployStatus, Steps, TimedSteps, BlueGreenSteps,
           OldSteps, Option
  <2> QED BY <1>6, <2>1, <2>2, TypeJoin DEF BgUpdate, WorldTyped
<1>7. CASE BgDrain(d)
  <2>1. TaskTyped'
    BY <1>7, ReturnType, StatusType DEF BgDrain, Complete, DeployStatus
  <2> QED BY <1>7, <2>1, DiscardType, TypeJoin DEF BgDrain, StateTyped
<1> QED BY <1>1, <1>2, <1>3, <1>4, <1>5, <1>6, <1>7 DEF BlueGreen

\* The blue-green pod path.
LEMMA PodType ==
  ASSUME TypeInv, NEW d \in Deploys, Pod(d)
  PROVE  TypeInv'
<1> USE TypeFacts
<1>1. CASE PodDeploy(d)
  <2>1. CASE CreateFails(New(d)) /\ Fail(d)
    BY <2>1, CreateFailsType, FailType, TypeJoin
  <2>2. CASE ~(CreateFails(New(d)) /\ Fail(d))
    <3>1. [ctx[d] EXCEPT !.pod = New(d), !.status = "health_checking"] \in Context
      BY DEF Context, Option, DeployStatus
    <3>2. TaskTyped'
      BY <1>1, <2>2, <3>1, AdvanceType
         DEF PodDeploy, Steps, TimedSteps, PodSteps, OldSteps
    <3> QED BY <1>1, <2>2, <3>2, TypeJoin DEF PodDeploy, StateTyped, WorldTyped
  <2> QED BY <2>1, <2>2
<1>2. CASE PodHealth(d)
  <2>1. [ctx[d] EXCEPT !.port = runtime[New(d)].port, !.status = "switching",
                       !.old = app.pod] \in Context
    BY DEF Context, DeployStatus
  <2>2. TaskTyped'
    BY <1>2, <2>1, AdvanceType DEF PodHealth, Steps, TimedSteps, PodSteps, OldSteps
  <2> QED BY <1>2, <2>2, TypeJoin DEF PodHealth, StateTyped, WorldTyped
<1>3. CASE PodDiscard(d)
  BY <1>3, DiscardType, FailType, TypeJoin DEF PodDiscard
<1>4. CASE PodSwitch(d)
  BY <1>4, SetRoutesType DEF PodSwitch, Steps, TimedSteps, PodSteps, OldSteps
<1>5. CASE PodUpdate(d)
  <2>1. StateTyped'
    BY <1>5, SwitchedType DEF PodUpdate, SaveAppState, StateTyped
  <2>2. TaskTyped'
    BY <1>5, AdvanceType, ReturnType, StatusType
       DEF PodUpdate, Complete, DeployStatus, Steps, TimedSteps, PodSteps,
           OldSteps, Option
  <2> QED BY <1>5, <2>1, <2>2, TypeJoin DEF PodUpdate, WorldTyped
<1>6. CASE PodDrain(d)
  <2>1. TaskTyped'
    BY <1>6, ReturnType, StatusType DEF PodDrain, Complete, DeployStatus
  <2> QED BY <1>6, <2>1, DiscardType, TypeJoin DEF PodDrain, StateTyped
<1> QED BY <1>1, <1>2, <1>3, <1>4, <1>5, <1>6 DEF Pod

\* The recreate path.
LEMMA RecreateType ==
  ASSUME TypeInv, NEW d \in Deploys, Recreate(d)
  PROVE  TypeInv'
<1> USE TypeFacts
<1>0. \A st \in DeployStatus : [ctx[d] EXCEPT !.status = st] \in Context
  BY StatusType
<1>1. CASE RcStop(d)
  <2>1. CASE Fail(d)
    BY <1>1, <2>1, FailType, TypeJoin DEF RcStop, WorldTyped
  <2>2. CASE ~Fail(d)
    <3>1. TaskTyped'
      BY <1>0, <1>1, <2>2, AdvanceType
         DEF RcStop, DeployStatus, Steps, TimedSteps, RecreateSteps, OldSteps
    <3> QED BY <1>1, <2>2, <3>1, TypeJoin DEF RcStop, StateTyped, WorldTyped
  <2> QED BY <2>1, <2>2
<1>2. CASE RcUnroute(d)
  <2>1. TaskTyped'
    BY <1>0, <1>2, AdvanceType
       DEF RcUnroute, DeployStatus, Steps, TimedSteps, RecreateSteps, OldSteps
  <2> QED BY <1>2, <2>1, TypeJoin DEF RcUnroute, StateTyped, WorldTyped
<1>3. CASE RcStart(d)
  <2>1. CASE CreateFails(New(d)) /\ BeginRollback(d)
    BY <2>1, CreateFailsType, RollbackType, TypeJoin
  <2>2. CASE ~(CreateFails(New(d)) /\ BeginRollback(d))
    <3>1. PICK r \in CallRuntime(d) :
            /\ runtime' = r
            /\ Advance(d, "rc_health",
                       [ctx[d] EXCEPT !.new = New(d), !.port = r[New(d)].port,
                                      !.status = "health_checking"])
            /\ UNCHANGED <<app, disk, route>>
      BY <1>3, <2>2 DEF RcStart
    <3>2. r \in [Containers -> Container] /\ r[New(d)].port \in HostPorts
      BY DEF Container
    <3>3. [ctx[d] EXCEPT !.new = New(d), !.port = r[New(d)].port,
                         !.status = "health_checking"] \in Context
      BY <3>2 DEF Context, Option, DeployStatus
    <3>4. TaskTyped'
      BY <3>1, <3>3, AdvanceType DEF Steps, TimedSteps, RecreateSteps, OldSteps
    <3> QED BY <3>1, <3>2, <3>4, TypeJoin DEF StateTyped, WorldTyped
  <2> QED BY <2>1, <2>2
<1>4. CASE RcHealth(d)
  <2>1. TaskTyped'
    BY <1>0, <1>4, AdvanceType
       DEF RcHealth, DeployStatus, Steps, TimedSteps, RecreateSteps, OldSteps
  <2>2. WorldTyped'
    BY <1>4, ChangedType DEF RcHealth, WorldTyped, TypeInv
  <2> QED BY <1>4, <2>1, <2>2, TypeJoin DEF RcHealth, StateTyped
<1>5. CASE RcDiscard(d)
  BY <1>5, DiscardType, RollbackType, TypeJoin DEF RcDiscard
<1>6. CASE RcSwitch(d)
  BY <1>6, SetRoutesType DEF RcSwitch, Steps, TimedSteps, RecreateSteps, OldSteps
<1>7. CASE RcUpdate(d)
  <2>1. StateTyped'
    BY <1>7, SwitchedType DEF RcUpdate, SaveAppState, StateTyped
  <2>2. TaskTyped'
    BY <1>0, <1>7, AdvanceType, ReturnType
       DEF RcUpdate, Complete, DeployStatus, Steps, TimedSteps, RecreateSteps,
           OldSteps, Option
  <2> QED BY <1>7, <2>1, <2>2, TypeJoin DEF RcUpdate, WorldTyped
<1>8. CASE RcRemoveOld(d)
  <2>1. TaskTyped'
    BY <1>0, <1>8, ReturnType DEF RcRemoveOld, Complete, DeployStatus
  <2> QED BY <1>8, <2>1, DiscardType, TypeJoin DEF RcRemoveOld, StateTyped
<1> QED BY <1>1, <1>2, <1>3, <1>4, <1>5, <1>6, <1>7, <1>8 DEF Recreate

\* The three tiers of the rollback.
LEMMA TiersType ==
  ASSUME TypeInv, NEW d \in Deploys, Rollback(d)
  PROVE  TypeInv'
<1> USE TypeFacts
<1>1. CASE RbRestart(d)
  <2>1. WorldTyped'
    BY <1>1 DEF RbRestart, WorldTyped
  <2>2. CASE Fail(d) \/ BeginTier2(d)
    BY <2>1, <2>2, FailType, RollbackType, TypeJoin
  <2>3. CASE ~(Fail(d) \/ BeginTier2(d))
    <3>1. pc[d] = "rb_restart" /\ Advance(d, "rb_route", ctx[d]) /\ UNCHANGED <<app, disk>>
      BY <1>1, <2>3 DEF RbRestart
    <3>2. ctx[d].old \in Containers
      BY <3>1 DEF TypeInv, OldKnown, OldSteps
    <3>3. TaskTyped'
      BY <3>1, <3>2, AdvanceType DEF Steps, TimedSteps, RollbackSteps
    <3> QED BY <2>1, <3>1, <3>3, TypeJoin DEF StateTyped
  <2> QED BY <2>2, <2>3
<1>2. CASE RbRoute(d)
  BY <1>2, FailType, TypeJoin DEF RbRoute, RestoreRoute, WorldTyped
<1>3. CASE T2Create(d)
  <2>1. CASE CreateFails(Fallback(d)) /\ Tier3(d)
    BY <2>1, CreateFailsType, Tier3Type, TypeJoin
  <2>2. CASE ~(CreateFails(Fallback(d)) /\ Tier3(d))
    <3>1. TaskTyped'
      BY <1>3, <2>2, AdvanceType DEF T2Create, Steps, TimedSteps, RollbackSteps, OldSteps
    <3> QED BY <1>3, <2>2, <3>1, TypeJoin DEF T2Create, StateTyped, WorldTyped
  <2> QED BY <2>1, <2>2
<1>4. CASE T2Health(d)
  <2>1. TaskTyped'
    BY <1>4, AdvanceType DEF T2Health, Steps, TimedSteps, RollbackSteps, OldSteps
  <2> QED BY <1>4, <2>1, TypeJoin DEF T2Health, StateTyped, WorldTyped
<1>5. CASE T2Route(d)
  <2>1. TaskTyped'
    BY <1>5, AdvanceType DEF T2Route, Steps, TimedSteps, RollbackSteps, OldSteps
  <2> QED BY <1>5, <2>1, TypeJoin DEF T2Route, RestoreRoute, StateTyped, WorldTyped
<1>6. CASE T2Update(d)
  <2>1. TaskTyped'
    BY <1>6, ReturnType, StatusType DEF T2Update, DeployStatus
  <2>2. [app EXCEPT !.cid = Fallback(d), !.tag = ctx[d].oldTag,
                    !.port = runtime[Fallback(d)].port] \in AppState
    BY DEF AppState, Option
  <2>3. StateTyped'
    BY <1>6, <2>2, SetAppFailedType DEF T2Update, StateTyped
  <2> QED BY <1>6, <2>1, <2>3, TypeJoin DEF T2Update, WorldTyped
<1>7. CASE T2Discard(d)
  BY <1>7, DiscardType, Tier3Type, TypeJoin DEF T2Discard
<1> QED BY <1>1, <1>2, <1>3, <1>4, <1>5, <1>6, <1>7 DEF Rollback

\* The timeout and its cleanup.
LEMMA TimeoutType ==
  ASSUME TypeInv, NEW d \in Deploys, Timeout(d) \/ TimeoutCleanup(d)
  PROVE  TypeInv'
<1> USE TypeFacts
<1>1. CASE Timeout(d)
  <2>1. WorldTyped'
    BY <1>1 DEF Timeout, WorldTyped
  <2>2. CASE Fail(d)
    BY <2>1, <2>2, FailType, TypeJoin
  <2>3. CASE ~Fail(d)
    <3>1. TaskTyped'
      BY <1>1, <2>3, AdvanceType DEF Timeout, Steps, OldSteps
    <3> QED BY <1>1, <2>1, <2>3, <3>1, TypeJoin DEF Timeout, StateTyped
  <2> QED BY <2>2, <2>3
<1>2. CASE TimeoutCleanup(d)
  BY <1>2, DiscardType, FailType, TypeJoin DEF TimeoutCleanup
<1> QED BY <1>1, <1>2

\* Accepting a deploy.
LEMMA RequestType ==
  ASSUME TypeInv, Request
  PROVE  TypeInv'
<1>1. PICK d \in Deploys, t \in Tags, k \in Kinds, s \in Strategies :
        HandleDeploy(d, t, k, s)
  BY DEF Request
<1>2. NewContext(t, k, s) \in Context
  BY ConstantsAssumption DEF NewContext, Context, Option, HostPorts, DeployStatus
<1>3. "accepted" \in Steps /\ "accepted" \notin OldSteps
  BY DEF Steps, TimedSteps, OldSteps
<1> HIDE DEF Context, Steps, OldSteps, Containers, NewContext
<1>4. pc' \in [Deploys -> Steps] /\ ctx' \in [Deploys -> Context] /\ lock' \in Option(Deploys \cup {"api"})
  BY <1>1, <1>2, <1>3, TypeFacts DEF HandleDeploy, TaskTyped, Option
<1>5. OldKnown'
  BY <1>1, <1>3, TypeFacts DEF HandleDeploy, TaskTyped, OldKnown
<1>6. TaskTyped'
  BY <1>1, <1>4, <1>5, TypeFacts DEF HandleDeploy, TaskTyped
<1> QED BY <1>1, <1>6, TypeFacts, TypeJoin DEF HandleDeploy, StateTyped, WorldTyped

\* Every step keeps the type invariant.
LEMMA NextType ==
  ASSUME TypeInv, [Next]_vars
  PROVE  TypeInv'
<1>1. CASE Request
  BY <1>1, RequestType
<1>2. ASSUME NEW d \in Deploys, Task(d) PROVE TypeInv'
  BY <1>2, SharedStepsType, BlueGreenType, PodType, RecreateType, TiersType,
     TimeoutType DEF Task
<1>3. CASE UNCHANGED vars
  BY <1>3 DEF vars, TypeInv, TypeOK, OldKnown
<1> QED BY <1>1, <1>2, <1>3 DEF Next

\* It holds before the first deploy.
LEMMA InitType == Init => TypeInv
  BY ConstantsAssumption
     DEF Init, TypeInv, TypeOK, OldKnown, OldSteps, Option, Steps, Context, NewContext,
         AllKinds, AllStrategies, DeployStatus, HostPorts, AppState, AppStatus, NoApp,
         PersistedState, NoFile, Container, Absent

\* The type invariant with what the rollback needs to know of the old container.
LEMMA TypeInvariant == Spec => []TypeInv
<1>1. TypeInv /\ [Next]_vars => TypeInv'
  BY NextType
<1> QED BY InitType, <1>1, PTL DEF Spec

\* Every state a deploy can reach is well typed, whatever fails and wherever
\* the timeout strikes: in particular no step of a recreate or of its rollback
\* runs without the old container it names.
THEOREM TypeCorrect == Spec => []TypeOK
<1>1. TypeInv => TypeOK
  BY DEF TypeInv
<1> QED BY <1>1, TypeInvariant, PTL

-----------------------------------------------------------------------------
(* One deploy at a time.                                                   *)

\* What a step of the task of d does to the tasks and to the lock: it goes on
\* and keeps the lock, or it returns and frees it.
Goes(d) ==
  /\ \A e \in Deploys \ {d} : pc'[e] = pc[e]
  /\ \/ lock' = lock
     \/ lock' = Nil /\ pc'[d] = "done"

\* A step that advances or returns is of this shape.
LEMMA AdvanceGoes ==
  ASSUME NEW d \in Deploys, NEW step, NEW c, TypeOK, Advance(d, step, c)
  PROVE  Goes(d)
  BY DEF Advance, Goes, TypeOK

\* So is one that returns.
LEMMA ReturnGoes ==
  ASSUME NEW d \in Deploys, NEW c, TypeOK, Return(d, c)
  PROVE  Goes(d)
  BY DEF Return, Goes, TypeOK

\* Every step of a task is of this shape, and taken by a deploy in flight.
LEMMA TaskGoes ==
  ASSUME TypeOK, NEW d \in Deploys, Task(d)
  PROVE  InFlight(d) /\ Goes(d)
<1> USE AdvanceGoes, ReturnGoes
<1>1. Fail(d) \/ Tier3(d) \/ Complete(d) => Goes(d)
  BY DEF Fail, Tier3, Complete
<1>2. BeginTier2(d) \/ BeginRollback(d) => Goes(d)
  BY <1>1 DEF BeginTier2, BeginRollback
<1>3. ASSUME NEW x, NEW y, SetRoutes(d, x, y) PROVE Goes(d)
  BY <1>3 DEF SetRoutes
<1>4. CASE LookUpApp(d) \/ PullImages(d) \/ Configure(d)
  BY <1>1, <1>4 DEF LookUpApp, PullImages, Configure, BeginRecreate, InFlight
<1>5. CASE BlueGreen(d)
  BY <1>1, <1>3, <1>5 DEF BlueGreen, BgStart, BgHealth, BgVerify, BgDiscard, BgSwitch,
                      BgUpdate, BgDrain, InFlight
<1>6. CASE Pod(d)
  BY <1>1, <1>3, <1>6 DEF Pod, PodDeploy, PodHealth, PodDiscard, PodSwitch, PodUpdate,
                      PodDrain, InFlight
<1>7. CASE Recreate(d)
  BY <1>1, <1>2, <1>3, <1>7 DEF Recreate, RcStop, RcUnroute, RcStart, RcHealth,
                      RcDiscard, RcSwitch, RcUpdate, RcRemoveOld, InFlight
<1>8. CASE Rollback(d)
  BY <1>1, <1>2, <1>8 DEF Rollback, RbRestart, RbRoute, T2Create, T2Health, T2Route,
                      T2Update, T2Discard, InFlight
<1>9. CASE Timeout(d) \/ TimeoutCleanup(d)
  BY <1>1, <1>9, ConstantsAssumption
     DEF Timeout, TimeoutCleanup, InFlight, TimedSteps, BlueGreenSteps, PodSteps,
         RecreateSteps, RollbackSteps
<1> QED BY <1>4, <1>5, <1>6, <1>7, <1>8, <1>9 DEF Task

\* Every step keeps the exclusion.
LEMMA NextExclusive ==
  ASSUME TypeOK, OneDeployAtATime, [Next]_vars
  PROVE  OneDeployAtATime'
<1>1. CASE Request
  BY <1>1, NilFresh DEF Request, HandleDeploy, OneDeployAtATime, InFlight, TypeOK
<1>2. ASSUME NEW d \in Deploys, Task(d) PROVE OneDeployAtATime'
  BY <1>2, TaskGoes, NilFresh DEF Goes, OneDeployAtATime, InFlight
<1>3. CASE UNCHANGED vars
  BY <1>3 DEF vars, OneDeployAtATime, InFlight
<1> QED BY <1>1, <1>2, <1>3 DEF Next

\* At most one deploy of an app is in flight, and it owns the app lock, through
\* every failure, rollback and timeout: try_lock_owned in the handlers and the
\* guard moved into the spawned task are enough.
THEOREM MutualExclusion == Spec => []OneDeployAtATime
<1>1. Init => OneDeployAtATime
  BY DEF Init, OneDeployAtATime, InFlight
<1>2. TypeOK /\ OneDeployAtATime /\ [Next]_vars => OneDeployAtATime'
  BY NextExclusive
<1> QED BY <1>1, <1>2, TypeCorrect, PTL DEF Spec

-----------------------------------------------------------------------------
(* The app state names no container that failed its health check.          *)

\* The steps at which a deploy has seen its new container, or the fallback
\* container of tier 2, pass the check.
NewChecked == {"bg_verify", "bg_switch", "bg_update", "pod_switch", "pod_update",
               "rc_switch", "rc_update"}
FallbackChecked == {"t2_route", "t2_update"}

\* The steps from which the app state may name a container of the deploy.
MayBeNamed == {"bg_drain", "pod_drain", "rc_remove_old", "timeout_cleanup", "done"}

\* What the app state and the state file name: a restart reads the file.
Named == {app.cid, app.pod, disk.cid, disk.pod} \ {Nil}

\* A worker and a pod of workers are not probed, their fallback container is.
Healthy(c) ==
  runtime[c].st # "absent" /\ (c = Fallback(c[1]) \/ ctx[c[1]].kind \in {"http", "pod"})
  => runtime[c].ok

\* What is known of deploy d.
DeployHealth(d) ==
  /\ pc[d] \in NewChecked => Healthy(New(d))
  /\ pc[d] \in FallbackChecked => Healthy(Fallback(d))
  /\ ctx[d].new \in {Nil, New(d)} /\ ctx[d].pod \in {Nil, New(d)}
  /\ pc[d] \notin MayBeNamed => New(d) \notin Named /\ Fallback(d) \notin Named

HealthInv ==
  /\ \A c \in Named : Healthy(c)
  /\ \A d \in Deploys : DeployHealth(d)

\* A change of the runtime to r spares c: c goes, or its health stays what it was.
Spares(r, c) ==
  \/ r[c].st = "absent"
  \/ runtime[c].st # "absent" /\ r[c].ok = runtime[c].ok

\* What a step of d may do to the containers: only a deploy that the app state
\* cannot name yet makes its own containers.
SparesOthers(d, r) ==
  \A c \in Containers :
    Spares(r, c) \/ (pc[d] \notin MayBeNamed /\ c \in {New(d), Fallback(d)})

\* A step of d that keeps to the order: check, then switch, then record.
HealthyStep(d) ==
  /\ \A e \in Deploys \ {d} : pc'[e] = pc[e] /\ ctx'[e] = ctx[e]
  /\ ctx'[d].kind = ctx[d].kind
  /\ ctx'[d].new \in {Nil, New(d)} /\ ctx'[d].pod \in {Nil, New(d)}
  /\ SparesOthers(d, runtime')
  /\ pc'[d] \notin MayBeNamed => pc[d] \notin MayBeNamed
  /\ pc'[d] \in NewChecked => Healthy(New(d))'
  /\ pc'[d] \in FallbackChecked => Healthy(Fallback(d))'
  /\ \/ Named' \subseteq Named
     \/ /\ pc[d] \in NewChecked /\ runtime' = runtime /\ pc'[d] \in MayBeNamed
        /\ Named' \subseteq Named \cup {New(d)}
     \/ /\ pc[d] \in FallbackChecked /\ runtime' = runtime /\ pc'[d] \in MayBeNamed
        /\ Named' \subseteq Named \cup {Fallback(d)}

\* A container belongs to the deploy its name begins with.
LEMMA ContainerNames ==
  /\ \A c \in Containers : c[1] \in Deploys /\ (c = New(c[1]) \/ c = Fallback(c[1]))
  /\ \A d \in Deploys : New(d)[1] = d /\ Fallback(d)[1] = d /\ New(d) # Fallback(d)
  BY DEF Containers, New, Fallback

\* What is named is a container.
LEMMA NamedType == ASSUME TypeOK PROVE Named \subseteq Containers
  BY DEF TypeOK, AppState, PersistedState, Option, Named

\* Such a step keeps the invariant: the other deploys are not in flight.
LEMMA HealthyStepInv ==
  ASSUME TypeOK, OneDeployAtATime, HealthInv, NEW d \in Deploys, InFlight(d),
         HealthyStep(d)
  PROVE  HealthInv'
<1>1. \A e \in Deploys : ctx'[e].kind = ctx[e].kind
  BY DEF HealthyStep
<1>2. ASSUME NEW c \in Containers, Spares(runtime', c), Healthy(c) PROVE Healthy(c)'
  <2>1. ctx'[c[1]].kind = ctx[c[1]].kind
    BY <1>1, ContainerNames
  <2> QED BY <1>2, <2>1 DEF Spares, Healthy
<1>3. ASSUME NEW c \in Named PROVE Healthy(c)'
  <2>1. c \in Containers /\ Healthy(c)
    BY NamedType DEF HealthInv
  <2>2. Spares(runtime', c)
    BY <2>1 DEF HealthyStep, SparesOthers, HealthInv, DeployHealth
  <2> QED BY <1>2, <2>1, <2>2
<1>4. ASSUME NEW c \in Named' PROVE Healthy(c)'
  <2>1. CASE c \in Named
    BY <1>3, <2>1
  <2>2. CASE pc[d] \in NewChecked /\ runtime' = runtime /\ c = New(d)
    BY <2>2, <1>1, ContainerNames DEF HealthInv, DeployHealth, Healthy
  <2>3. CASE pc[d] \in FallbackChecked /\ runtime' = runtime /\ c = Fallback(d)
    BY <2>3, <1>1, ContainerNames DEF HealthInv, DeployHealth, Healthy
  <2> QED BY <2>1, <2>2, <2>3 DEF HealthyStep
<1>5. Named' \subseteq Named \cup {New(d), Fallback(d)}
  BY DEF HealthyStep
<1>6. ASSUME NEW e \in Deploys \ {d} PROVE DeployHealth(e)'
  <2>1. pc'[e] = pc[e] /\ ctx'[e] = ctx[e] /\ pc[e] \in {"idle", "done"}
    BY DEF HealthyStep, OneDeployAtATime, InFlight
  <2>2. New(e) \notin {New(d), Fallback(d)} /\ Fallback(e) \notin {New(d), Fallback(d)}
    BY DEF New, Fallback
  <2>3. DeployHealth(e)
    BY DEF HealthInv
  <2> QED BY <2>1, <2>2, <2>3, <1>5 DEF DeployHealth, NewChecked, FallbackChecked, MayBeNamed
<1>7. DeployHealth(d)'
  <2>1. ASSUME pc'[d] \notin MayBeNamed
        PROVE  New(d) \notin Named' /\ Fallback(d) \notin Named'
    BY <2>1 DEF HealthyStep, HealthInv, DeployHealth
  <2> QED BY <2>1 DEF HealthyStep, DeployHealth
<1> QED BY <1>4, <1>6, <1>7 DEF HealthInv

\* The task goes on with a context that keeps what it names.
SameNames(d, c) ==
  /\ c.kind = ctx[d].kind
  /\ c.new \in {ctx[d].new, New(d)} /\ c.pod \in {ctx[d].pod, New(d)}

\* What all steps of a task do to the contexts.
TaskKeeps(d) ==
  /\ \A e \in Deploys \ {d} : pc'[e] = pc[e] /\ ctx'[e] = ctx[e]
  /\ SameNames(d, ctx'[d])

\* A task that goes on keeps the contexts of the others and its own names.
LEMMA AdvanceKeeps ==
  ASSUME TypeOK, NEW d \in Deploys, NEW step, NEW c, SameNames(d, c), Advance(d, step, c)
  PROVE  TaskKeeps(d) /\ pc'[d] = step /\ ctx'[d] = c
  BY DEF Advance, TaskKeeps, TypeOK

\* So does one that returns.
LEMMA ReturnKeeps ==
  ASSUME TypeOK, NEW d \in Deploys, NEW c, SameNames(d, c), Return(d, c)
  PROVE  TaskKeeps(d) /\ pc'[d] = "done" /\ ctx'[d] = c
  BY DEF Return, TaskKeeps, TypeOK

\* Changing other fields of a context keeps the names.
LEMMA SameNamesKept ==
  ASSUME TypeOK, NEW d \in Deploys
  PROVE  /\ SameNames(d, ctx[d])
         /\ \A s : SameNames(d, [ctx[d] EXCEPT !.status = s])
         /\ \A s, b : SameNames(d, [ctx[d] EXCEPT !.status = s, !.rollbackFailed = b])
         /\ \A s, o : SameNames(d, [ctx[d] EXCEPT !.status = s, !.old = o])
         /\ \A s, o, p : SameNames(d, [ctx[d] EXCEPT !.port = p, !.status = s, !.old = o])
         /\ \A s, p : SameNames(d, [ctx[d] EXCEPT !.new = New(d), !.port = p, !.status = s])
         /\ \A s : SameNames(d, [ctx[d] EXCEPT !.pod = New(d), !.status = s])
         /\ \A s, o, t : SameNames(d, [[ctx[d] EXCEPT !.old = o, !.oldTag = t] EXCEPT !.status = s])
<1>1. ctx[d] \in Context
  BY DEF TypeOK
<1> QED BY <1>1 DEF SameNames, Context

\* set_app_failed changes no name.
LEMMA FailedNames ==
  ASSUME NEW a \in AppState, NEW b \in SetAppFailed(a)
  PROVE  b.cid = a.cid /\ b.pod = a.pod
  BY DEF SetAppFailed, AppState

\* A failing task returns, and nothing new is named.
LEMMA FailKeeps ==
  ASSUME TypeOK, NEW d \in Deploys, Fail(d) \/ Tier3(d)
  PROVE  TaskKeeps(d) /\ pc'[d] = "done" /\ Named' = Named
<1>1. app' \in SetAppFailed(app) /\ disk' = disk /\ app \in AppState
  BY DEF Fail, Tier3, TypeOK
<1>2. Named' = Named
  BY <1>1, FailedNames DEF Named
<1>3. TaskKeeps(d) /\ pc'[d] = "done"
  BY ReturnKeeps, SameNamesKept DEF Fail, Tier3
<1> QED BY <1>2, <1>3

\* A recreate that fails rolls back, or returns.
LEMMA RollbackKeeps ==
  ASSUME TypeOK, NEW d \in Deploys, BeginRollback(d) \/ BeginTier2(d)
  PROVE  /\ TaskKeeps(d) /\ Named' = Named
         /\ pc'[d] \in {"rb_restart", "t2_create", "done"}
<1>1. CASE Tier3(d)
  BY <1>1, FailKeeps
<1>2. CASE Advance(d, "t2_create", ctx[d]) /\ UNCHANGED <<app, disk>>
  BY <1>2, AdvanceKeeps, SameNamesKept DEF Named
<1>3. CASE Advance(d, "rb_restart", [ctx[d] EXCEPT !.status = "restarting_old"])
           /\ UNCHANGED <<app, disk>>
  <2>1. SameNames(d, [ctx[d] EXCEPT !.status = "restarting_old"])
    BY SameNamesKept
  <2> QED BY <1>3, <2>1, AdvanceKeeps DEF Named
<1> QED BY <1>1, <1>2, <1>3 DEF BeginRollback, BeginTier2

\* The calls: create and deploy make a container of the deploy, the others spare all.
LEMMA CreatedSpares ==
  ASSUME TypeOK, NEW c \in Containers, NEW r \in Created(c), NEW x \in Containers \ {c}
  PROVE  Spares(r, x)
<1>1. r[x] = runtime[x]
  BY DEF Created, TypeOK
<1>2. runtime[x].st = "absent" \/ runtime[x].st # "absent"
  OBVIOUS
<1> QED BY <1>1, <1>2 DEF Spares

\* start, stop of a container that exists, and removal spare every container.
LEMMA ChangedSpares ==
  ASSUME TypeOK, NEW c \in Containers, NEW x \in Containers
  PROVE  /\ Spares(runtime, x)
         /\ Exists(c) => \A r \in Restarted(c) : Spares(r, x)
         /\ Exists(c) \/ x # c => Spares(Stopped(c), x)
         /\ Spares(Removed(c), x)
<1>1. Spares(runtime, x)
  BY DEF Spares
<1>2. ASSUME Exists(c), NEW r \in Restarted(c) PROVE Spares(r, x)
  BY <1>2 DEF Restarted, Exists, Spares, TypeOK
<1>3. ASSUME Exists(c) \/ x # c PROVE Spares(Stopped(c), x)
  BY <1>3 DEF Stopped, Exists, Spares, TypeOK
<1>4. Spares(Removed(c), x)
  BY DEF Removed, Absent, Spares, TypeOK
<1> QED BY <1>1, <1>2, <1>3, <1>4

\* Whatever call d waits for, the containers of the other deploys are spared.
LEMMA CallSpares ==
  ASSUME TypeInv, NEW d \in Deploys, NEW r \in CallRuntime(d)
  PROVE  SparesOthers(d, r)
<1> USE DEF TypeInv
<1> SUFFICES ASSUME NEW x \in Containers
             PROVE  Spares(r, x) \/ (pc[d] \notin MayBeNamed /\ x \in {New(d), Fallback(d)})
  BY DEF SparesOthers
<1>0. ctx[d].old \in Containers \cup {Nil} /\ ctx[d].new \in Containers \cup {Nil}
  BY DEF TypeOK, Context, Option
<1>1. CASE pc[d] \in {"bg_start", "rc_start", "pod_deploy"}
  BY <1>1, CreatedSpares, OwnContainers DEF CallRuntime, MayBeNamed
<1>2. CASE pc[d] = "t2_create"
  BY <1>2, CreatedSpares, OwnContainers DEF CallRuntime, MayBeNamed
<1>3. CASE pc[d] = "rb_restart" /\ Exists(ctx[d].old)
  BY <1>0, <1>3, ChangedSpares DEF CallRuntime, Exists
<1>4. CASE pc[d] = "rc_stop" /\ Exists(ctx[d].old)
  BY <1>0, <1>4, ChangedSpares DEF CallRuntime, Exists
<1>5. CASE pc[d] \in {"bg_drain", "pod_drain", "rc_remove_old"}
  <2>1. ctx[d].old \in Containers
    BY <1>5 DEF OldKnown, OldSteps
  <2> QED BY <1>5, <2>1, ChangedSpares DEF CallRuntime
<1>6. CASE pc[d] \in {"bg_discard", "pod_discard", "rc_discard"}
  BY <1>6, OwnContainers, ChangedSpares DEF CallRuntime
<1>7. CASE pc[d] = "t2_discard"
  BY <1>7, OwnContainers, ChangedSpares DEF CallRuntime
<1>8. CASE pc[d] = "timeout_cleanup"
  <2>1. CASE ctx[d].new \in Containers
    BY <1>8, <2>1, ChangedSpares DEF CallRuntime
  <2>2. CASE ctx[d].new = Nil
    <3>1. Removed(Nil) = runtime
      BY NilFresh DEF Removed, TypeOK
    <3> QED BY <1>8, <2>2, <3>1, OwnContainers, ChangedSpares DEF CallRuntime
  <2> QED BY <1>0, <2>1, <2>2
<1>9. CASE /\ pc[d] \notin {"bg_start", "rc_start", "pod_deploy", "t2_create", "bg_drain",
                            "pod_drain", "rc_remove_old", "bg_discard", "pod_discard",
                            "rc_discard", "t2_discard", "timeout_cleanup"}
           /\ ~(pc[d] = "rb_restart" /\ Exists(ctx[d].old))
           /\ ~(pc[d] = "rc_stop" /\ Exists(ctx[d].old))
  <2>1. r = runtime
    BY <1>9 DEF CallRuntime
  <2> QED BY <2>1, ChangedSpares
<1> QED BY <1>1, <1>2, <1>3, <1>4, <1>5, <1>6, <1>7, <1>8, <1>9

\* Nothing changes in the runtime.
LEMMA UnchangedSpares ==
  ASSUME TypeOK, NEW d \in Deploys, runtime' = runtime
  PROVE  SparesOthers(d, runtime')
  BY ChangedSpares DEF SparesOthers

\* A create that fails leaves at most a container of the deploy behind.
LEMMA CreateFailsSpares ==
  ASSUME TypeOK, NEW d \in Deploys, NEW c \in {New(d), Fallback(d)}, CreateFails(c),
         pc[d] \notin MayBeNamed
  PROVE  SparesOthers(d, runtime')
<1>1. CASE runtime' = runtime
  BY <1>1, UnchangedSpares
<1>2. CASE runtime' \in Created(c)
  BY <1>2, CreatedSpares, OwnContainers DEF SparesOthers
<1>3. CASE runtime' = [runtime EXCEPT ![c] = [st |-> "exited", port |-> 0, ok |-> FALSE]]
  <2> SUFFICES ASSUME NEW x \in Containers \ {c} PROVE Spares(runtime', x)
    BY DEF SparesOthers
  <2>1. runtime'[x] = runtime[x]
    BY <1>3 DEF TypeOK
  <2> QED BY <2>1 DEF Spares
<1> QED BY <1>1, <1>2, <1>3 DEF CreateFails

\* A removal whose error is ignored.
LEMMA DiscardSpares ==
  ASSUME TypeInv, NEW d \in Deploys, Discard(d)
  PROVE  SparesOthers(d, runtime')
  BY CallSpares, UnchangedSpares DEF Discard, TypeInv

\* The parts of HealthyStep, put together.
LEMMA HealthyStepParts ==
  ASSUME HealthInv, NEW d \in Deploys, TaskKeeps(d), SparesOthers(d, runtime'),
         pc'[d] \notin MayBeNamed => pc[d] \notin MayBeNamed,
         pc'[d] \in NewChecked => Healthy(New(d))',
         pc'[d] \in FallbackChecked => Healthy(Fallback(d))',
         \/ Named' \subseteq Named
         \/ /\ pc[d] \in NewChecked /\ runtime' = runtime /\ pc'[d] \in MayBeNamed
            /\ Named' \subseteq Named \cup {New(d)}
         \/ /\ pc[d] \in FallbackChecked /\ runtime' = runtime /\ pc'[d] \in MayBeNamed
            /\ Named' \subseteq Named \cup {Fallback(d)}
  PROVE  HealthyStep(d)
<1>1. ctx[d].new \in {Nil, New(d)} /\ ctx[d].pod \in {Nil, New(d)}
  BY DEF HealthInv, DeployHealth
<1> QED BY <1>1 DEF HealthyStep, TaskKeeps, SameNames

\* A task that goes on at a step where nothing is checked yet, or returns.
LEMMA PlainStep ==
  ASSUME HealthInv, NEW d \in Deploys, TaskKeeps(d), SparesOthers(d, runtime'),
         pc'[d] \notin MayBeNamed => pc[d] \notin MayBeNamed,
         pc'[d] \notin NewChecked \cup FallbackChecked,
         Named' \subseteq Named
  PROVE  HealthyStep(d)
  BY HealthyStepParts

\* Health depends on the runtime and on the kind.
LEMMA HealthyKept ==
  ASSUME NEW d \in Deploys, NEW c \in {New(d), Fallback(d)}, Healthy(c),
         runtime' = runtime, TaskKeeps(d)
  PROVE  Healthy(c)'
  BY ContainerNames DEF Healthy, TaskKeeps, SameNames

\* Every failing end is such a step.
LEMMA FailHealth ==
  ASSUME TypeOK, HealthInv, NEW d \in Deploys, SparesOthers(d, runtime'),
         Fail(d) \/ Tier3(d)
  PROVE  HealthyStep(d)
  BY FailKeeps, PlainStep DEF MayBeNamed, NewChecked, FallbackChecked

\* So is the beginning of a rollback.
LEMMA RollbackHealth ==
  ASSUME TypeOK, HealthInv, NEW d \in Deploys, SparesOthers(d, runtime'),
         BeginRollback(d) \/ BeginTier2(d), pc[d] \notin MayBeNamed
  PROVE  HealthyStep(d)
  BY RollbackKeeps, PlainStep DEF MayBeNamed, NewChecked, FallbackChecked

\* The end of a deploy that switched.
LEMMA CompleteHealth ==
  ASSUME TypeOK, HealthInv, NEW d \in Deploys, SparesOthers(d, runtime'), Complete(d),
         UNCHANGED <<app, disk>>
  PROVE  HealthyStep(d)
<1>1. SameNames(d, [ctx[d] EXCEPT !.status = "completed"])
  BY SameNamesKept
<1>2. TaskKeeps(d) /\ pc'[d] = "done"
  BY <1>1, ReturnKeeps DEF Complete
<1>3. Named' = Named
  BY DEF Named
<1> QED BY <1>2, <1>3, PlainStep DEF MayBeNamed, NewChecked, FallbackChecked

\* A task that goes on before anything is checked.
LEMMA AdvanceHealth ==
  ASSUME TypeOK, HealthInv, NEW d \in Deploys, NEW step, NEW c, SameNames(d, c),
         Advance(d, step, c), SparesOthers(d, runtime'), pc[d] \notin MayBeNamed,
         step \notin NewChecked \cup FallbackChecked, Named' = Named
  PROVE  HealthyStep(d)
  BY AdvanceKeeps, PlainStep

\* Before the strategy is chosen nothing is made or named.
LEMMA SharedHealth ==
  ASSUME TypeInv, HealthInv, NEW d \in Deploys,
         LookUpApp(d) \/ PullImages(d) \/ Configure(d)
  PROVE  HealthyStep(d)
<1>0. TypeOK /\ SparesOthers(d, runtime') /\ pc[d] \notin MayBeNamed
  BY UnchangedSpares
     DEF TypeInv, LookUpApp, PullImages, Configure, MayBeNamed
<1>1. CASE Fail(d)
  BY <1>0, <1>1, FailHealth
<1>2. CASE ~Fail(d)
  <2>1. Named' = Named
    <3>1. app' = app \/ app' = [app EXCEPT !.status = "deploying"]
      BY <1>2 DEF LookUpApp, PullImages, Configure
    <3>2. app'.cid = app.cid /\ app'.pod = app.pod
      BY <3>1, <1>0 DEF TypeOK, AppState
    <3>3. disk' = disk
      BY <1>2 DEF LookUpApp, PullImages, Configure
    <3> QED BY <3>2, <3>3 DEF Named
  <2>2. \E step \in {"pulling", "configuring", "pod_deploy", "bg_start", "rc_stop",
                     "rc_unroute"} :
          \E c : SameNames(d, c) /\ Advance(d, step, c)
    <3> USE <1>2
    <3>1. CASE LookUpApp(d)
      <4>1. SameNames(d, [ctx[d] EXCEPT !.status = "pulling"])
        BY <1>0, SameNamesKept
      <4> QED BY <3>1, <4>1 DEF LookUpApp
    <3>2. CASE PullImages(d)
      <4>1. SameNames(d, [ctx[d] EXCEPT !.status = "configuring"])
        BY <1>0, SameNamesKept
      <4> QED BY <3>2, <4>1 DEF PullImages
    <3>3. CASE Configure(d)
      <4>1. SameNames(d, [ctx[d] EXCEPT !.status = "starting"])
        BY <1>0, SameNamesKept
      <4>2. \A s : SameNames(d, [[ctx[d] EXCEPT !.old = app.cid, !.oldTag = app.tag]
                                    EXCEPT !.status = s])
        BY <1>0, SameNamesKept
      <4>3. CASE BeginRecreate(d)
        BY <4>2, <4>3 DEF BeginRecreate
      <4>4. CASE ~BeginRecreate(d)
        BY <3>3, <4>1, <4>4 DEF Configure
      <4> QED BY <4>3, <4>4
    <3> QED BY <3>1, <3>2, <3>3
  <2> QED BY <1>0, <2>1, <2>2, AdvanceHealth DEF NewChecked, FallbackChecked
<1> QED BY <1>1, <1>2

\* A switch that goes on to the record, or discards the container.
LEMMA SetRoutesHealth ==
  ASSUME TypeOK, HealthInv, NEW d \in Deploys, NEW ok \in NewChecked,
         NEW err \in {"bg_discard", "pod_discard", "rc_discard"},
         pc[d] \in NewChecked, SetRoutes(d, ok, err)
  PROVE  HealthyStep(d)
<1>1. runtime' = runtime /\ Named' = Named
  BY DEF SetRoutes, Named
<1>2. TaskKeeps(d) /\ pc'[d] \in {ok, err}
  BY SameNamesKept, AdvanceKeeps DEF SetRoutes
<1>3. Healthy(New(d))'
  BY <1>1, <1>2, HealthyKept DEF HealthInv, DeployHealth
<1>4. SparesOthers(d, runtime') /\ pc[d] \notin MayBeNamed
  BY <1>1, UnchangedSpares DEF NewChecked, MayBeNamed
<1> QED BY <1>1, <1>2, <1>3, <1>4, HealthyStepParts DEF NewChecked, FallbackChecked

\* The record of a checked container.
LEMMA UpdateHealth ==
  ASSUME TypeOK, HealthInv, NEW d \in Deploys, pc[d] \in NewChecked, runtime' = runtime,
         NEW a \in {SwitchedContainer(d), SwitchedPod(d)}, app' = a, SaveAppState(a),
         NEW drain \in MayBeNamed,
         Advance(d, drain, ctx[d]) \/ Complete(d)
  PROVE  HealthyStep(d)
<1>1. SameNames(d, ctx[d]) /\ SameNames(d, [ctx[d] EXCEPT !.status = "completed"])
  BY SameNamesKept
<1>2. TaskKeeps(d) /\ pc'[d] \in MayBeNamed
  BY <1>1, AdvanceKeeps, ReturnKeeps DEF Complete, MayBeNamed
<1>3. Named' \subseteq Named \cup {New(d)}
  <2>1. ctx[d].new \in {Nil, New(d)} /\ ctx[d].pod \in {Nil, New(d)}
    BY DEF HealthInv, DeployHealth
  <2>2. /\ a.cid \in {app.cid, ctx[d].new} /\ a.pod \in {app.pod, ctx[d].pod}
    BY DEF SwitchedContainer, SwitchedPod, TypeOK, AppState
  <2>3. disk' = disk \/ (disk'.cid = a.cid /\ disk'.pod = a.pod)
    BY DEF SaveAppState, Persisted
  <2> QED BY <2>1, <2>2, <2>3 DEF Named
<1>4. SparesOthers(d, runtime')
  BY UnchangedSpares
<1> QED BY <1>2, <1>3, <1>4, HealthyStepParts DEF NewChecked, FallbackChecked, MayBeNamed

\* A stop of the container under check is one of a container nothing names yet.
LEMMA StoppedOwnSpares ==
  ASSUME TypeOK, NEW d \in Deploys, runtime' = Stopped(New(d)), pc[d] \notin MayBeNamed
  PROVE  SparesOthers(d, runtime')
  BY ChangedSpares, OwnContainers DEF SparesOthers

\* Blue-green: bg_update is reached only through bg_health and bg_verify.
LEMMA BlueGreenHealth ==
  ASSUME TypeInv, HealthInv, NEW d \in Deploys, BlueGreen(d)
  PROVE  HealthyStep(d)
<1>0. TypeOK /\ SameNames(d, ctx[d])
  BY SameNamesKept DEF TypeInv
<1>1. CASE BgStart(d)
  <2>1. CASE CreateFails(New(d)) /\ Fail(d)
    BY <1>0, <1>1, <2>1, CreateFailsSpares, FailHealth DEF BgStart, MayBeNamed
  <2>2. CASE ~(CreateFails(New(d)) /\ Fail(d))
    <3>1. PICK r \in CallRuntime(d) :
            /\ runtime' = r
            /\ Advance(d, IF IsWorker(d) THEN "bg_verify" ELSE "bg_health",
                       [ctx[d] EXCEPT !.new = New(d), !.port = r[New(d)].port,
                                      !.status = "health_checking"])
            /\ UNCHANGED <<app, disk, route>>
      BY <1>1, <2>2 DEF BgStart
    <3>2. SameNames(d, [ctx[d] EXCEPT !.new = New(d), !.port = r[New(d)].port,
                                      !.status = "health_checking"])
      BY <1>0, SameNamesKept
    <3>3. /\ TaskKeeps(d)
          /\ pc'[d] = IF IsWorker(d) THEN "bg_verify" ELSE "bg_health"
      BY <1>0, <3>1, <3>2, AdvanceKeeps
    <3>4. SparesOthers(d, runtime') /\ pc[d] \notin MayBeNamed
      BY <1>1, <3>1, CallSpares DEF BgStart, MayBeNamed
    <3>5. IsWorker(d) => Healthy(New(d))'
      BY <3>3, ContainerNames DEF TaskKeeps, SameNames, Healthy, IsWorker
    <3>6. Named' = Named
      BY <3>1 DEF Named
    <3> QED BY <3>3, <3>4, <3>5, <3>6, HealthyStepParts DEF NewChecked, FallbackChecked
  <2> QED BY <2>1, <2>2
<1>2. CASE BgHealth(d)
  <2>1. /\ TaskKeeps(d) /\ runtime' = runtime /\ Named' = Named
        /\ pc'[d] = IF runtime[New(d)].ok THEN "bg_verify" ELSE "bg_discard"
    BY <1>0, <1>2, AdvanceKeeps DEF BgHealth, Named
  <2>2. runtime[New(d)].ok => Healthy(New(d))'
    BY <2>1 DEF Healthy
  <2>3. SparesOthers(d, runtime') /\ pc[d] \notin MayBeNamed
    BY <1>0, <1>2, <2>1, UnchangedSpares DEF BgHealth, MayBeNamed
  <2> QED BY <2>1, <2>2, <2>3, HealthyStepParts DEF NewChecked, FallbackChecked
<1>3. CASE BgVerify(d)
  <2>0. pc[d] = "bg_verify" /\ pc[d] \notin MayBeNamed /\ Healthy(New(d))
    BY <1>3 DEF BgVerify, MayBeNamed, HealthInv, DeployHealth, NewChecked
  <2>1. CASE Fail(d)
    <3>1. SparesOthers(d, runtime')
      BY <1>0, <1>3, <2>0, StoppedOwnSpares, UnchangedSpares DEF BgVerify, Refused
    <3> QED BY <1>0, <2>1, <3>1, FailHealth
  <2>2. CASE ~Fail(d)
    <3>1. SameNames(d, [ctx[d] EXCEPT !.status = "switching", !.old = app.cid])
      BY <1>0, SameNamesKept
    <3>2. /\ TaskKeeps(d) /\ runtime' = runtime /\ Named' = Named
          /\ pc'[d] = IF IsWorker(d) THEN "bg_update" ELSE "bg_switch"
      BY <1>0, <1>3, <2>2, <3>1, AdvanceKeeps DEF BgVerify, Named
    <3>3. Healthy(New(d))' /\ SparesOthers(d, runtime')
      BY <1>0, <2>0, <3>2, HealthyKept, UnchangedSpares
    <3> QED BY <2>0, <3>2, <3>3, HealthyStepParts DEF NewChecked, FallbackChecked
  <2> QED BY <2>1, <2>2
<1>4. CASE BgDiscard(d)
  BY <1>0, <1>4, DiscardSpares, FailHealth DEF BgDiscard
<1>5. CASE BgSwitch(d)
  BY <1>0, <1>5, SetRoutesHealth DEF BgSwitch, NewChecked
<1>6. CASE BgUpdate(d)
  BY <1>0, <1>6, UpdateHealth DEF BgUpdate, NewChecked, MayBeNamed
<1>7. CASE BgDrain(d)
  BY <1>0, <1>7, DiscardSpares, CompleteHealth DEF BgDrain
<1> QED BY <1>1, <1>2, <1>3, <1>4, <1>5, <1>6, <1>7 DEF BlueGreen

\* Pods: pod_update is reached only through pod_health.
LEMMA PodHealthy ==
  ASSUME TypeInv, HealthInv, NEW d \in Deploys, Pod(d)
  PROVE  HealthyStep(d)
<1>0. TypeOK /\ SameNames(d, ctx[d])
  BY SameNamesKept DEF TypeInv
<1>1. CASE PodDeploy(d)
  <2>1. CASE CreateFails(New(d)) /\ Fail(d)
    BY <1>0, <1>1, <2>1, CreateFailsSpares, FailHealth DEF PodDeploy, MayBeNamed
  <2>2. CASE ~(CreateFails(New(d)) /\ Fail(d))
    <3>1. SameNames(d, [ctx[d] EXCEPT !.pod = New(d), !.status = "health_checking"])
      BY <1>0, SameNamesKept
    <3>2. /\ runtime' \in CallRuntime(d) /\ Named' = Named
          /\ Advance(d, "pod_health", [ctx[d] EXCEPT !.pod = New(d),
                                                    !.status = "health_checking"])
      BY <1>1, <2>2 DEF PodDeploy, Named
    <3>3. SparesOthers(d, runtime') /\ pc[d] \notin MayBeNamed
      BY <1>1, <3>2, CallSpares DEF PodDeploy, MayBeNamed
    <3> QED BY <1>0, <3>1, <3>2, <3>3, AdvanceHealth DEF NewChecked, FallbackChecked
  <2> QED BY <2>1, <2>2
<1>2. CASE PodHealth(d)
  <2>0. SameNames(d, [ctx[d] EXCEPT !.port = runtime[New(d)].port,
                                    !.status = "switching", !.old = app.pod])
    BY <1>0, SameNamesKept
  <2>1. runtime' = runtime /\ Named' = Named
    BY <1>2 DEF PodHealth, Named
  <2>2. SparesOthers(d, runtime') /\ pc[d] \notin MayBeNamed
    BY <1>0, <1>2, <2>1, UnchangedSpares DEF PodHealth, MayBeNamed
  <2>3. CASE Advance(d, "pod_discard", ctx[d])
    BY <1>0, <2>1, <2>2, <2>3, AdvanceHealth DEF NewChecked, FallbackChecked
  <2>4. CASE ~Advance(d, "pod_discard", ctx[d])
    <3>1. TaskKeeps(d) /\ pc'[d] \in {"pod_switch", "pod_update"}
      BY <1>0, <1>2, <2>0, <2>4, AdvanceKeeps DEF PodHealth
    <3>2. runtime[New(d)].ok \/ ctx[d].kind \notin {"http", "pod"}
      BY <1>2, <2>4 DEF PodHealth, IsHttp
    <3>3. Healthy(New(d))'
      BY <3>1, <3>2, <2>1, ContainerNames DEF Healthy, TaskKeeps, SameNames
    <3> QED BY <2>1, <2>2, <3>1, <3>3, HealthyStepParts DEF NewChecked, FallbackChecked
  <2> QED BY <2>3, <2>4
<1>3. CASE PodDiscard(d)
  BY <1>0, <1>3, DiscardSpares, FailHealth DEF PodDiscard
<1>4. CASE PodSwitch(d)
  BY <1>0, <1>4, SetRoutesHealth DEF PodSwitch, NewChecked
<1>5. CASE PodUpdate(d)
  BY <1>0, <1>5, UpdateHealth DEF PodUpdate, NewChecked, MayBeNamed
<1>6. CASE PodDrain(d)
  BY <1>0, <1>6, DiscardSpares, CompleteHealth DEF PodDrain
<1> QED BY <1>1, <1>2, <1>3, <1>4, <1>5, <1>6 DEF Pod

\* Recreate: rc_update is reached only through rc_health.
LEMMA RecreateHealth ==
  ASSUME TypeInv, HealthInv, NEW d \in Deploys, Recreate(d)
  PROVE  HealthyStep(d)
<1>0. TypeOK /\ SameNames(d, ctx[d])
  BY SameNamesKept DEF TypeInv
<1>1. CASE RcStop(d)
  <2>0. SparesOthers(d, runtime') /\ pc[d] \notin MayBeNamed
    BY <1>0, <1>1, CallSpares, UnchangedSpares DEF RcStop, MayBeNamed
  <2>1. CASE Fail(d)
    BY <1>0, <2>0, <2>1, FailHealth
  <2>2. CASE ~Fail(d)
    <3>1. SameNames(d, [ctx[d] EXCEPT !.status = "removing_route"])
      BY <1>0, SameNamesKept
    <3>2. /\ Advance(d, "rc_unroute", [ctx[d] EXCEPT !.status = "removing_route"])
          /\ Named' = Named
      BY <1>1, <2>2 DEF RcStop, Named
    <3> QED BY <1>0, <2>0, <3>1, <3>2, AdvanceHealth DEF NewChecked, FallbackChecked
  <2> QED BY <2>1, <2>2
<1>2. CASE RcUnroute(d)
  <2>1. SameNames(d, [ctx[d] EXCEPT !.status = "starting"])
    BY <1>0, SameNamesKept
  <2>2. /\ Advance(d, "rc_start", [ctx[d] EXCEPT !.status = "starting"])
        /\ Named' = Named /\ runtime' = runtime /\ pc[d] \notin MayBeNamed
    BY <1>2 DEF RcUnroute, Named, MayBeNamed
  <2>3. SparesOthers(d, runtime')
    BY <1>0, <2>2, UnchangedSpares
  <2> QED BY <1>0, <2>1, <2>2, <2>3, AdvanceHealth DEF NewChecked, FallbackChecked
<1>3. CASE RcStart(d)
  <2>0. pc[d] \notin MayBeNamed
    BY <1>3 DEF RcStart, MayBeNamed
  <2>1. CASE CreateFails(New(d)) /\ BeginRollback(d)
    BY <1>0, <2>0, <2>1, CreateFailsSpares, RollbackHealth
  <2>2. CASE ~(CreateFails(New(d)) /\ BeginRollback(d))
    <3>1. PICK r \in CallRuntime(d) :
            /\ runtime' = r
            /\ Advance(d, "rc_health",
                       [ctx[d] EXCEPT !.new = New(d), !.port = r[New(d)].port,
                                      !.status = "health_checking"])
            /\ UNCHANGED <<app, disk, route>>
      BY <1>3, <2>2 DEF RcStart
    <3>2. SameNames(d, [ctx[d] EXCEPT !.new = New(d), !.port = r[New(d)].port,
                                      !.status = "health_checking"])
      BY <1>0, SameNamesKept
    <3>3. SparesOthers(d, runtime') /\ Named' = Named
      BY <3>1, CallSpares DEF Named
    <3> QED BY <1>0, <2>0, <3>1, <3>2, <3>3, AdvanceHealth DEF NewChecked, FallbackChecked
  <2> QED BY <2>1, <2>2
<1>4. CASE RcHealth(d)
  <2>0. Named' = Named /\ pc[d] \notin MayBeNamed
    BY <1>4 DEF RcHealth, Named, MayBeNamed
  <2>1. CASE Advance(d, "rc_discard", ctx[d])
    <3>1. SparesOthers(d, runtime')
      BY <1>0, <1>4, <2>0, StoppedOwnSpares, UnchangedSpares DEF RcHealth
    <3> QED BY <1>0, <2>0, <2>1, <3>1, AdvanceHealth DEF NewChecked, FallbackChecked
  <2>2. CASE ~Advance(d, "rc_discard", ctx[d])
    <3>1. SameNames(d, [ctx[d] EXCEPT !.status = "switching"])
      BY <1>0, SameNamesKept
    <3>2. /\ TaskKeeps(d)
          /\ runtime' = runtime \/ runtime' = Stopped(New(d))
          /\ pc'[d] \in {"rc_update", "rc_switch"}
      BY <1>0, <1>4, <2>2, <3>1, AdvanceKeeps DEF RcHealth
    <3>3. runtime[New(d)].ok \/ ctx[d].kind \notin {"http", "pod"}
      BY <1>4, <2>2 DEF RcHealth, IsWorker
    <3>6. runtime'[New(d)].ok = runtime[New(d)].ok
      BY <1>0, <3>2, OwnContainers DEF Stopped, TypeOK
    <3>4. Healthy(New(d))'
      BY <3>2, <3>3, <3>6, ContainerNames DEF Healthy, TaskKeeps, SameNames
    <3>5. SparesOthers(d, runtime')
      BY <1>0, <2>0, <3>2, UnchangedSpares, StoppedOwnSpares
    <3> QED BY <2>0, <3>2, <3>4, <3>5, HealthyStepParts DEF NewChecked, FallbackChecked, MayBeNamed
  <2> QED BY <2>1, <2>2
<1>5. CASE RcDiscard(d)
  BY <1>0, <1>5, DiscardSpares, RollbackHealth DEF RcDiscard, MayBeNamed
<1>6. CASE RcSwitch(d)
  BY <1>0, <1>6, SetRoutesHealth DEF RcSwitch, NewChecked
<1>7. CASE RcUpdate(d)
  BY <1>0, <1>7, UpdateHealth DEF RcUpdate, NewChecked, MayBeNamed
<1>8. CASE RcRemoveOld(d)
  BY <1>0, <1>8, DiscardSpares, CompleteHealth DEF RcRemoveOld
<1> QED BY <1>1, <1>2, <1>3, <1>4, <1>5, <1>6, <1>7, <1>8 DEF Recreate

\* Rollback: the old container keeps its health, the fallback is checked.
LEMMA TiersHealth ==
  ASSUME TypeInv, HealthInv, NEW d \in Deploys, Rollback(d)
  PROVE  HealthyStep(d)
<1>0. TypeOK /\ SameNames(d, ctx[d])
  BY SameNamesKept DEF TypeInv
<1>1. CASE RbRestart(d)
  <2>0. SparesOthers(d, runtime') /\ pc[d] \notin MayBeNamed
    BY <1>0, <1>1, CallSpares, UnchangedSpares DEF RbRestart, MayBeNamed
  <2>1. CASE Fail(d) \/ BeginTier2(d)
    BY <1>0, <2>0, <2>1, FailHealth, RollbackHealth
  <2>2. CASE ~(Fail(d) \/ BeginTier2(d))
    <3>1. Advance(d, "rb_route", ctx[d]) /\ Named' = Named
      BY <1>1, <2>2 DEF RbRestart, Named
    <3> QED BY <1>0, <2>0, <3>1, AdvanceHealth DEF NewChecked, FallbackChecked
  <2> QED BY <2>1, <2>2
<1>2. CASE RbRoute(d)
  BY <1>0, <1>2, UnchangedSpares, FailHealth DEF RbRoute, RestoreRoute
<1>3. CASE T2Create(d)
  <2>0. pc[d] \notin MayBeNamed
    BY <1>3 DEF T2Create, MayBeNamed
  <2>1. CASE CreateFails(Fallback(d)) /\ Tier3(d)
    BY <1>0, <2>0, <2>1, CreateFailsSpares, FailHealth
  <2>2. CASE ~(CreateFails(Fallback(d)) /\ Tier3(d))
    <3>1. /\ SparesOthers(d, runtime') /\ Named' = Named
          /\ Advance(d, "t2_health", ctx[d])
      BY <1>3, <2>2, CallSpares DEF T2Create, Named
    <3> QED BY <1>0, <2>0, <3>1, AdvanceHealth DEF NewChecked, FallbackChecked
  <2> QED BY <2>1, <2>2
<1>4. CASE T2Health(d)
  <2>1. /\ TaskKeeps(d) /\ runtime' = runtime /\ Named' = Named
        /\ pc'[d] = IF ~runtime[Fallback(d)].ok THEN "t2_discard"
                    ELSE IF Routed THEN "t2_route" ELSE "t2_update"
    BY <1>0, <1>4, AdvanceKeeps DEF T2Health, Named
  <2>2. runtime[Fallback(d)].ok => Healthy(Fallback(d))'
    BY <2>1 DEF Healthy
  <2>3. SparesOthers(d, runtime') /\ pc[d] \notin MayBeNamed
    BY <1>0, <1>4, <2>1, UnchangedSpares DEF T2Health, MayBeNamed
  <2> QED BY <2>1, <2>2, <2>3, HealthyStepParts DEF NewChecked, FallbackChecked
<1>5. CASE T2Route(d)
  <2>1. /\ TaskKeeps(d) /\ runtime' = runtime /\ Named' = Named /\ pc'[d] = "t2_update"
    BY <1>0, <1>5, AdvanceKeeps DEF T2Route, RestoreRoute, Named
  <2>2. Healthy(Fallback(d))'
    BY <1>5, <2>1, HealthyKept DEF T2Route, HealthInv, DeployHealth, FallbackChecked
  <2>3. SparesOthers(d, runtime') /\ pc[d] \notin MayBeNamed
    BY <1>0, <1>5, <2>1, UnchangedSpares DEF T2Route, MayBeNamed
  <2> QED BY <2>1, <2>2, <2>3, HealthyStepParts DEF NewChecked, FallbackChecked
<1>6. CASE T2Update(d)
  <2>1. SameNames(d, [ctx[d] EXCEPT !.status = "failed"])
    BY <1>0, SameNamesKept
  <2>2. TaskKeeps(d) /\ pc'[d] = "done" /\ runtime' = runtime
    BY <1>0, <1>6, <2>1, ReturnKeeps DEF T2Update
  <2>3. app'.cid \in {app.cid, Fallback(d)} /\ app'.pod = app.pod /\ disk' = disk
    <3> DEFINE a == IF app.entry
                    THEN [app EXCEPT !.cid = Fallback(d), !.tag = ctx[d].oldTag,
                                     !.port = runtime[Fallback(d)].port]
                    ELSE app
    <3>1. a \in AppState /\ a.cid \in {app.cid, Fallback(d)} /\ a.pod = app.pod
      <4>1. Fallback(d) \in Option(Containers) /\ ctx[d].oldTag \in Option(Tags)
            /\ runtime[Fallback(d)].port \in HostPorts /\ app \in AppState
        BY <1>0, OwnContainers DEF TypeOK, Context, Container, Option
      <4> QED BY <4>1 DEF AppState
    <3>2. app' \in SetAppFailed(a) /\ disk' = disk
      BY <1>6 DEF T2Update
    <3> QED BY <3>1, <3>2, FailedNames
  <2>4. Named' \subseteq Named \cup {Fallback(d)}
    BY <2>3 DEF Named
  <2>5. SparesOthers(d, runtime')
    BY <1>0, <2>2, UnchangedSpares
  <2> QED BY <1>6, <2>2, <2>4, <2>5, HealthyStepParts
          DEF T2Update, NewChecked, FallbackChecked, MayBeNamed
<1>7. CASE T2Discard(d)
  BY <1>0, <1>7, DiscardSpares, FailHealth DEF T2Discard
<1> QED BY <1>1, <1>2, <1>3, <1>4, <1>5, <1>6, <1>7 DEF Rollback

\* The timeout records nothing, and its cleanup only removes.
LEMMA TimeoutHealth ==
  ASSUME TypeInv, HealthInv, NEW d \in Deploys, Timeout(d) \/ TimeoutCleanup(d)
  PROVE  HealthyStep(d)
<1>0. TypeOK /\ SameNames(d, ctx[d])
  BY SameNamesKept DEF TypeInv
<1>1. SparesOthers(d, runtime')
  BY <1>0, CallSpares, UnchangedSpares, DiscardSpares DEF Timeout, TimeoutCleanup
<1>2. CASE Fail(d)
  BY <1>0, <1>1, <1>2, FailHealth
<1>3. CASE ~Fail(d)
  <2>1. TaskKeeps(d) /\ pc'[d] = "timeout_cleanup" /\ Named' = Named
    BY <1>0, <1>3, AdvanceKeeps DEF Timeout, TimeoutCleanup, Named
  <2> QED BY <1>1, <2>1, PlainStep DEF NewChecked, FallbackChecked, MayBeNamed
<1> QED BY <1>2, <1>3

\* Every step of a task keeps to the order.
LEMMA TaskHealth ==
  ASSUME TypeInv, HealthInv, NEW d \in Deploys, Task(d)
  PROVE  HealthyStep(d)
  BY SharedHealth, BlueGreenHealth, PodHealthy, RecreateHealth, TiersHealth, TimeoutHealth
     DEF Task

\* An accepted deploy makes nothing yet, and nothing names what it will make.
LEMMA RequestHealth ==
  ASSUME TypeOK, HealthInv, Request
  PROVE  HealthInv'
<1>1. PICK d \in Deploys, t \in Tags, k \in Kinds, s \in Strategies :
        HandleDeploy(d, t, k, s)
  BY DEF Request
<1>2. /\ pc' = [pc EXCEPT ![d] = "accepted"]
      /\ ctx' = [ctx EXCEPT ![d] = NewContext(t, k, s)]
      /\ runtime' = runtime /\ Named' = Named /\ pc[d] = "idle"
  BY <1>1 DEF HandleDeploy, Named
<1>3. New(d) \notin Named /\ Fallback(d) \notin Named
  BY <1>2 DEF HealthInv, DeployHealth, MayBeNamed
<1>4. \A e \in Deploys \ {d} : pc'[e] = pc[e] /\ ctx'[e] = ctx[e]
  BY <1>2 DEF TypeOK
<1>5. ASSUME NEW c \in Named' PROVE Healthy(c)'
  <2>1. c \in Named /\ c \in Containers
    BY <1>2, <1>5, NamedType
  <2>2. c[1] \in Deploys \ {d}
    BY <2>1, <1>3, ContainerNames
  <2> QED BY <2>1, <2>2, <1>2, <1>4 DEF HealthInv, Healthy
<1>6. ASSUME NEW e \in Deploys \ {d} PROVE DeployHealth(e)'
  <2>1. DeployHealth(e) /\ New(e)[1] = e /\ Fallback(e)[1] = e
    BY ContainerNames DEF HealthInv
  <2> QED BY <2>1, <1>2, <1>4 DEF DeployHealth, Healthy
<1>7. DeployHealth(d)'
  <2>1. pc'[d] = "accepted" /\ ctx'[d].new = Nil /\ ctx'[d].pod = Nil
    BY <1>2 DEF TypeOK, NewContext
  <2> QED BY <2>1, <1>2, <1>3 DEF DeployHealth, NewChecked, FallbackChecked
<1> QED BY <1>5, <1>6, <1>7 DEF HealthInv

\* Nothing is named at the start.
LEMMA InitHealth == Init => HealthInv
  BY DEF Init, HealthInv, DeployHealth, Named, NoApp, NoFile, NewContext, NewChecked,
         FallbackChecked

\* All that is known of the deploys, and what it says.
LEMMA HealthTells == HealthInv => RecordedIsHealthy
  BY DEF HealthInv, Named, Healthy, RecordedIsHealthy

\* Every step keeps the health invariant.
LEMMA NextHealth ==
  ASSUME TypeInv, OneDeployAtATime, HealthInv, [Next]_vars
  PROVE  HealthInv'
<1>1. CASE Request
  BY <1>1, RequestHealth DEF TypeInv
<1>2. ASSUME NEW d \in Deploys, Task(d) PROVE HealthInv'
  BY <1>2, TaskGoes, TaskHealth, HealthyStepInv DEF TypeInv
<1>3. CASE UNCHANGED vars
  BY <1>3 DEF vars, HealthInv, DeployHealth, Named, Healthy
<1> QED BY <1>1, <1>2, <1>3 DEF Next

\* The app state never names a container or a pod of an HTTP deploy that failed its
\* health check: through every failing call, rollback and timeout, what is recorded
\* was seen healthy by the deploy that recorded it (BgHealth, PodHealth, RcHealth,
\* T2Health come before the record on every path), and no later deploy replaces it
\* under the same name.
THEOREM RecordsHealthy == Spec => []RecordedIsHealthy
<1>1. TypeInv /\ OneDeployAtATime /\ HealthInv /\ [Next]_vars => HealthInv'
  BY NextHealth
<1>2. Spec => []HealthInv
  BY <1>1, InitHealth, TypeInvariant, MutualExclusion, PTL DEF Spec
<1> QED BY <1>2, HealthTells, PTL

-----------------------------------------------------------------------------
(* What a step of a deploy changes, apart from statuses: the steps of the  *)
(* other deploys, the contexts, the names and ports of the app state, one  *)
(* container of the runtime, the route.                                    *)

\* The other deploys keep theirs.
OthersStay(d) == \A e \in Deploys \ {d} : pc'[e] = pc[e] /\ ctx'[e] = ctx[e]

SameTask(d) ==
  /\ ctx'[d].tag = ctx[d].tag /\ ctx'[d].kind = ctx[d].kind
  /\ ctx'[d].strategy = ctx[d].strategy

SameCtx(d) ==
  /\ SameTask(d)
  /\ ctx'[d].new = ctx[d].new /\ ctx'[d].pod = ctx[d].pod /\ ctx'[d].port = ctx[d].port
  /\ ctx'[d].old = ctx[d].old /\ ctx'[d].oldTag = ctx[d].oldTag

SameApp ==
  /\ app'.entry = app.entry /\ app'.tag = app.tag
  /\ app'.cid = app.cid /\ app'.pod = app.pod /\ app'.port = app.port

\* d goes on to, or returns at, one of the steps.
MovesTo(d, to) ==
  /\ OthersStay(d) /\ SameTask(d) /\ pc'[d] \in to
  /\ ctx'[d].rollbackFailed = ctx[d].rollbackFailed

Plain(d, to) == MovesTo(d, to) /\ SameCtx(d) /\ SameApp

\* It ends in tier 3, or rolls back.
AppIsDown(d) ==
  /\ OthersStay(d) /\ SameCtx(d) /\ SameApp
  /\ pc'[d] = "done" /\ ctx'[d].rollbackFailed

RollsBack(d) ==
  \/ Plain(d, {"rb_restart"}) /\ ctx[d].old # Nil
  \/ Plain(d, {"t2_create"}) /\ ctx[d].oldTag # Nil
  \/ AppIsDown(d)


\* The runtime: nothing happens, one container starts, or one is gone.
Still == runtime' = runtime
OnlyAt(c) == \A x \in Containers \ {c} : runtime'[x] = runtime[x]
Starts(c) ==
  /\ OnlyAt(c)
  /\ runtime'[c].st = "running" /\ runtime'[c].port \in PortChoices(c)
Halts(c) == OnlyAt(c) /\ runtime'[c].st # "running" /\ runtime'[c].port = 0
Discards(c) == Halts(c) \/ (Fails("remove") /\ Still)
FailsToStart(c) == Still \/ Halts(c) \/ (Fails("inspect") /\ Starts(c))

\* What the call that d waits for does when it takes effect.
Effect(d) ==
  /\ pc[d] \in {"bg_start", "rc_start", "pod_deploy"} => Starts(New(d))
  /\ pc[d] = "t2_create" => Starts(Fallback(d))
  /\ pc[d] = "rb_restart" => IF Exists(ctx[d].old) THEN Starts(ctx[d].old) ELSE Still
  /\ pc[d] = "rc_stop" => IF Exists(ctx[d].old) THEN Halts(ctx[d].old) ELSE Still
  /\ pc[d] \in {"bg_drain", "pod_drain", "rc_remove_old"} => Halts(ctx[d].old)
  /\ pc[d] \in {"bg_discard", "pod_discard", "rc_discard"} => Halts(New(d))
  /\ pc[d] = "t2_discard" => Halts(Fallback(d))
  /\ pc[d] = "timeout_cleanup" /\ ctx[d].new # Nil => Halts(ctx[d].new)
  /\ pc[d] \notin {"bg_start", "rc_start", "pod_deploy", "t2_create", "rb_restart", "rc_stop",
                   "bg_drain", "pod_drain", "rc_remove_old", "bg_discard", "pod_discard",
                   "rc_discard", "t2_discard", "timeout_cleanup"} => Still

\* A container of another deploy that never was stays so.
NoneAppears(d) ==
  \A x \in Containers : x[1] # d /\ runtime[x] = Absent => runtime'[x] = Absent
-----------------------------------------------------------------------------
(* The calls.                                                              *)

\* create, deploy and start start a container with a port of its own.
LEMMA StartsWhenCalled ==
  ASSUME TypeOK, NEW c \in Containers, runtime' \in Created(c) \cup Restarted(c)
  PROVE  Starts(c)
<1>1. CASE runtime' \in Created(c)
  BY <1>1 DEF Created, Starts, OnlyAt, TypeOK
<1>2. CASE runtime' \in Restarted(c)
  BY <1>2 DEF Restarted, Starts, OnlyAt, TypeOK
<1> QED BY <1>1, <1>2

\* stop and remove end one, whatever it was; so does a failed create.
LEMMA HaltsWhenCalled ==
  ASSUME TypeOK, NEW c \in Containers,
         \/ runtime' \in {Stopped(c), Removed(c)}
         \/ runtime' = [runtime EXCEPT ![c] = [st |-> "exited", port |-> 0, ok |-> FALSE]]
  PROVE  Halts(c)
<1>1. CASE runtime' = Stopped(c)
  BY <1>1 DEF Stopped, Halts, OnlyAt, TypeOK
<1>2. CASE runtime' = Removed(c)
  BY <1>2 DEF Removed, Absent, Halts, OnlyAt, TypeOK
<1>3. CASE runtime' = [runtime EXCEPT ![c] = [st |-> "exited", port |-> 0, ok |-> FALSE]]
  BY <1>3 DEF Halts, OnlyAt, TypeOK
<1> QED BY <1>1, <1>2, <1>3

\* A change of one container, that stands where one of another deploy never was only
\* if it leaves it absent.
LEMMA NoneAppearsAt ==
  ASSUME NEW d \in Deploys, NEW c, OnlyAt(c),
         c \notin Containers \/ c[1] = d \/ runtime[c] # Absent \/ runtime'[c] = Absent
  PROVE  NoneAppears(d)
  BY DEF OnlyAt, NoneAppears

\* Nothing changes.
LEMMA NoneAppearsStill ==
  ASSUME NEW d \in Deploys, Still
  PROVE  NoneAppears(d)
  BY DEF Still, NoneAppears

\* What the call that d waits for does.
LEMMA CallEffect ==
  ASSUME TypeInv, NEW d \in Deploys, runtime' \in CallRuntime(d)
  PROVE  Effect(d) /\ NoneAppears(d)
<1>0. /\ TypeOK /\ New(d) \in Containers /\ Fallback(d) \in Containers
      /\ New(d)[1] = d /\ Fallback(d)[1] = d
      /\ ctx[d].old \in Containers \cup {Nil} /\ ctx[d].new \in Containers \cup {Nil}
  BY OwnContainers, ContainerNames DEF TypeInv, TypeOK, Context, Option
<1>1. CASE pc[d] \in {"bg_start", "rc_start", "pod_deploy"}
  <2>1. Starts(New(d))
    BY <1>0, <1>1, StartsWhenCalled DEF CallRuntime
  <2> QED BY <1>0, <1>1, <2>1, NoneAppearsAt DEF Effect, Starts
<1>2. CASE pc[d] = "t2_create"
  <2>1. Starts(Fallback(d))
    BY <1>0, <1>2, StartsWhenCalled DEF CallRuntime
  <2> QED BY <1>0, <1>2, <2>1, NoneAppearsAt DEF Effect, Starts
<1>3. CASE pc[d] = "rb_restart" /\ Exists(ctx[d].old)
  <2>1. Starts(ctx[d].old) /\ runtime[ctx[d].old] # Absent
    BY <1>0, <1>3, StartsWhenCalled DEF CallRuntime, Exists, Absent
  <2> QED BY <1>0, <1>3, <2>1, NoneAppearsAt DEF Effect, Starts
<1>4. CASE pc[d] = "rc_stop" /\ Exists(ctx[d].old)
  <2>1. Halts(ctx[d].old) /\ runtime[ctx[d].old] # Absent
    BY <1>0, <1>4, HaltsWhenCalled DEF CallRuntime, Exists, Absent
  <2> QED BY <1>0, <1>4, <2>1, NoneAppearsAt DEF Effect, Halts
<1>5. CASE pc[d] \in {"bg_drain", "pod_drain", "rc_remove_old"}
  <2>1. ctx[d].old \in Containers
    BY <1>5 DEF TypeInv, OldKnown, OldSteps
  <2>2. runtime' = Removed(ctx[d].old)
    BY <1>5 DEF CallRuntime
  <2>3. Halts(ctx[d].old) /\ runtime'[ctx[d].old] = Absent
    BY <1>0, <2>1, <2>2, HaltsWhenCalled DEF Removed, TypeOK
  <2> QED BY <1>0, <1>5, <2>3, NoneAppearsAt DEF Effect, Halts
<1>6. CASE pc[d] \in {"bg_discard", "pod_discard", "rc_discard"}
  <2>1. Halts(New(d))
    BY <1>0, <1>6, HaltsWhenCalled DEF CallRuntime
  <2> QED BY <1>0, <1>6, <2>1, NoneAppearsAt DEF Effect, Halts
<1>7. CASE pc[d] = "t2_discard"
  <2>1. Halts(Fallback(d))
    BY <1>0, <1>7, HaltsWhenCalled DEF CallRuntime
  <2> QED BY <1>0, <1>7, <2>1, NoneAppearsAt DEF Effect, Halts
<1>8. CASE pc[d] = "timeout_cleanup"
  <2>1. runtime' = Removed(ctx[d].new)
    BY <1>8 DEF CallRuntime
  <2>2. CASE ctx[d].new = Nil
    <3>1. runtime' = runtime
      BY <1>0, <2>1, <2>2, NilFresh DEF Removed, TypeOK
    <3> QED BY <1>8, <2>2, <3>1, NoneAppearsStill DEF Still, Effect
  <2>3. CASE ctx[d].new # Nil
    <3>1. Halts(ctx[d].new) /\ runtime'[ctx[d].new] = Absent
      BY <1>0, <2>1, <2>3, HaltsWhenCalled DEF Removed, TypeOK
    <3> QED BY <1>0, <1>8, <3>1, NoneAppearsAt DEF Effect, Halts
  <2> QED BY <2>2, <2>3
<1>9. CASE /\ pc[d] \notin {"bg_start", "rc_start", "pod_deploy", "t2_create", "bg_drain",
                            "pod_drain", "rc_remove_old", "bg_discard", "pod_discard",
                            "rc_discard", "t2_discard", "timeout_cleanup"}
           /\ ~(pc[d] = "rb_restart" /\ Exists(ctx[d].old))
           /\ ~(pc[d] = "rc_stop" /\ Exists(ctx[d].old))
  <2>1. Still
    BY <1>9 DEF CallRuntime, Still
  <2> QED BY <1>9, <2>1, NoneAppearsStill DEF Effect
<1> QED BY <1>1, <1>2, <1>3, <1>4, <1>5, <1>6, <1>7, <1>8, <1>9

\* A create that fails makes nothing, or leaves a container of the deploy behind.
LEMMA CreateFailsEffect ==
  ASSUME TypeOK, NEW d \in Deploys, NEW c \in {New(d), Fallback(d)}, CreateFails(c)
  PROVE  FailsToStart(c) /\ NoneAppears(d) /\ route' = route
<1>0. c \in Containers /\ c[1] = d
  BY OwnContainers, ContainerNames
<1>1. FailsToStart(c)
  BY <1>0, StartsWhenCalled, HaltsWhenCalled DEF CreateFails, FailsToStart, Still
<1>2. Still \/ OnlyAt(c)
  BY <1>1 DEF FailsToStart, Starts, Halts
<1> QED BY <1>0, <1>1, <1>2, NoneAppearsAt, NoneAppearsStill DEF CreateFails

\* A removal whose error is ignored.
LEMMA DiscardEffect ==
  ASSUME TypeInv, NEW d \in Deploys, Discard(d)
  PROVE  /\ Effect(d) \/ (Fails("remove") /\ Still)
         /\ NoneAppears(d) /\ route' = route
  BY CallEffect, NoneAppearsStill DEF Discard, Still

-----------------------------------------------------------------------------
(* The ways a step ends.                                                   *)

\* A change of the status changes nothing else of a context.
LEMMA StatusChange ==
  ASSUME TypeOK, NEW d \in Deploys, NEW s, ctx'[d] = [ctx[d] EXCEPT !.status = s]
  PROVE  SameCtx(d) /\ ctx'[d].rollbackFailed = ctx[d].rollbackFailed
<1>1. ctx[d] \in Context
  BY DEF TypeOK
<1> QED BY <1>1 DEF SameCtx, SameTask, Context

\* set_app_failed changes at most the status.
LEMMA FailedApp ==
  ASSUME NEW a \in AppState, NEW b \in SetAppFailed(a)
  PROVE  /\ b.entry = a.entry /\ b.tag = a.tag
         /\ b.cid = a.cid /\ b.pod = a.pod /\ b.port = a.port
  BY DEF SetAppFailed, AppState

\* Going on moves one task.
LEMMA AdvanceMoves ==
  ASSUME TypeOK, NEW d \in Deploys, NEW step, NEW c, Advance(d, step, c)
  PROVE  OthersStay(d) /\ pc'[d] = step /\ ctx'[d] = c
  BY DEF Advance, OthersStay, TypeOK

\* So does returning.
LEMMA ReturnMoves ==
  ASSUME TypeOK, NEW d \in Deploys, NEW c, Return(d, c)
  PROVE  OthersStay(d) /\ pc'[d] = "done" /\ ctx'[d] = c
  BY DEF Return, OthersStay, TypeOK

\* An app state that does not change.
LEMMA AppKept == ASSUME app' = app PROVE SameApp
  BY DEF SameApp

\* Going on with a new status only.
LEMMA AdvancePlain ==
  ASSUME TypeOK, NEW d \in Deploys, NEW step, NEW s, SameApp,
         Advance(d, step, ctx[d]) \/ Advance(d, step, [ctx[d] EXCEPT !.status = s])
  PROVE  Plain(d, {step})
<1>1. CASE Advance(d, step, ctx[d])
  BY <1>1, AdvanceMoves DEF Plain, MovesTo, SameCtx, SameTask
<1>2. CASE Advance(d, step, [ctx[d] EXCEPT !.status = s])
  BY <1>2, AdvanceMoves, StatusChange DEF Plain, MovesTo, SameCtx
<1> QED BY <1>1, <1>2

\* Returning with a new status only.
LEMMA ReturnPlain ==
  ASSUME TypeOK, NEW d \in Deploys, NEW s, SameApp, Return(d, [ctx[d] EXCEPT !.status = s])
  PROVE  Plain(d, {"done"})
  BY ReturnMoves, StatusChange DEF Plain, MovesTo, SameCtx

\* ctx.fail.
LEMMA FailPlain ==
  ASSUME TypeOK, NEW d \in Deploys, Fail(d)
  PROVE  Plain(d, {"done"})
<1>1. SameApp
  BY FailedApp DEF Fail, TypeOK, SameApp
<1> QED BY <1>1, ReturnPlain DEF Fail

\* Completion.
LEMMA CompletePlain ==
  ASSUME TypeOK, NEW d \in Deploys, Complete(d), app' = app
  PROVE  Plain(d, {"done"})
  BY AppKept, ReturnPlain DEF Complete

\* Tier 3.
LEMMA Tier3Down ==
  ASSUME TypeOK, NEW d \in Deploys, Tier3(d)
  PROVE  AppIsDown(d)
<1>1. SameApp
  BY FailedApp DEF Tier3, TypeOK, SameApp
<1>2. ctx[d] \in Context /\ OthersStay(d) /\ pc'[d] = "done"
      /\ ctx'[d] = [ctx[d] EXCEPT !.status = "failed", !.rollbackFailed = TRUE]
  BY ReturnMoves DEF Tier3, TypeOK
<1>3. SameCtx(d) /\ ctx'[d].rollbackFailed
  BY <1>2 DEF SameCtx, SameTask, Context
<1> QED BY <1>1, <1>2, <1>3 DEF AppIsDown

\* The choice of a tier.
LEMMA RollbackMoves ==
  ASSUME TypeOK, NEW d \in Deploys, BeginRollback(d) \/ BeginTier2(d)
  PROVE  /\ RollsBack(d)
         /\ BeginTier2(d) => ~Plain(d, {"rb_restart"})
<1>1. CASE Tier3(d)
  BY <1>1, Tier3Down DEF RollsBack, AppIsDown, Plain, MovesTo
<1>2. CASE ctx[d].oldTag # Nil /\ Advance(d, "t2_create", ctx[d]) /\ UNCHANGED <<app, disk>>
  <2>1. Plain(d, {"t2_create"})
    BY <1>2, AppKept, AdvancePlain
  <2>2. ~Plain(d, {"rb_restart"})
    BY <2>1 DEF Plain, MovesTo
  <2> QED BY <1>2, <2>1, <2>2 DEF RollsBack
<1>3. CASE /\ ctx[d].old # Nil
           /\ Advance(d, "rb_restart", [ctx[d] EXCEPT !.status = "restarting_old"])
           /\ UNCHANGED <<app, disk>>
  <2>1. Plain(d, {"rb_restart"}) /\ pc'[d] = "rb_restart"
    BY <1>3, AppKept, AdvancePlain, AdvanceMoves
  <2>2. ~BeginTier2(d)
    BY <2>1, ReturnMoves, AdvanceMoves DEF BeginTier2, Tier3
  <2> QED BY <1>3, <2>1, <2>2 DEF RollsBack
<1> QED BY <1>1, <1>2, <1>3 DEF BeginRollback, BeginTier2

\* A switch of the route.
LEMMA SwitchMoves ==
  ASSUME TypeOK, NEW d \in Deploys, NEW ok, NEW err, SetRoutes(d, ok, err)
  PROVE  /\ Still
         /\ \/ Plain(d, {ok}) /\ route' \in CallRoute(d)
            \/ Plain(d, {err}) /\ (route' = route \/ Fails("reply"))
<1>1. app' = app /\ runtime' = runtime
  BY DEF SetRoutes
<1> QED BY <1>1, AppKept, AdvancePlain DEF SetRoutes, Still

-----------------------------------------------------------------------------
(* The steps before the strategy is chosen, and the deadline.              *)

\* Up to the configuration nothing but the status changes.
LEMMA LookUpMoves ==
  ASSUME TypeOK, NEW d \in Deploys, LookUpApp(d) \/ PullImages(d)
  PROVE  /\ Still /\ route' = route /\ pc[d] \in {"accepted", "pulling"}
         /\ Plain(d, {"done"}) \/ Plain(d, {"pulling"}) \/ Plain(d, {"configuring"})
<1>1. Still /\ route' = route /\ pc[d] \in {"accepted", "pulling"}
  BY DEF LookUpApp, PullImages, Still
<1>2. CASE Fail(d)
  BY <1>1, <1>2, FailPlain
<1>3. CASE ~Fail(d) /\ LookUpApp(d)
  <2>1. SameApp
    BY <1>3 DEF LookUpApp, SameApp, TypeOK, AppState
  <2> QED BY <1>1, <1>3, <2>1, AdvancePlain DEF LookUpApp
<1>4. CASE ~Fail(d) /\ PullImages(d)
  BY <1>1, <1>4, AppKept, AdvancePlain DEF PullImages
<1> QED BY <1>2, <1>3, <1>4

\* A recreate remembers what it replaces.
RecreateBegins(d) ==
  /\ OthersStay(d) /\ SameTask(d) /\ SameApp
  /\ pc'[d] = IF app.cid # Nil THEN "rc_stop" ELSE "rc_unroute"
  /\ ctx'[d].new = ctx[d].new /\ ctx'[d].pod = ctx[d].pod
  /\ ctx'[d].old = app.cid /\ ctx'[d].oldTag = app.tag
  /\ ctx'[d].rollbackFailed = ctx[d].rollbackFailed

\* The choice of the strategy.
LEMMA ConfigureMoves ==
  ASSUME TypeOK, NEW d \in Deploys, Configure(d)
  PROVE  /\ pc[d] = "configuring" /\ Still /\ route' = route
         /\ \/ Plain(d, {"done"})
            \/ Plain(d, {"pod_deploy"}) /\ IsPod(d) /\ Routed
            \/ Plain(d, {"bg_start"}) /\ ~IsPod(d) /\ (Routed \/ IsWorker(d))
            \/ /\ RecreateBegins(d) /\ ~IsPod(d) /\ (Routed \/ IsWorker(d))
               /\ ctx[d].strategy = "recreate"
<1>1. pc[d] = "configuring" /\ Still /\ route' = route
  BY DEF Configure, Still
<1>2. CASE Fail(d)
  BY <1>1, <1>2, FailPlain
<1>3. BeginRecreate(d) /\ app' = app /\ ~Fail(d) =>
        /\ ~IsPod(d) /\ (Routed \/ IsWorker(d)) /\ ctx[d].strategy = "recreate"
  <2>1. \A s : BeginRecreate(d) => ~Advance(d, "pod_deploy", s) /\ ~Advance(d, "bg_start", s)
    BY AdvanceMoves DEF BeginRecreate
  <2> QED BY <2>1 DEF Configure
<1>4. CASE BeginRecreate(d) /\ app' = app
  <2> DEFINE c == [ctx[d] EXCEPT !.old = app.cid, !.oldTag = app.tag]
  <2>1. ctx[d] \in Context
    BY DEF TypeOK
  <2>2. \A s : LET x == [c EXCEPT !.status = s] IN
          /\ x.tag = ctx[d].tag /\ x.kind = ctx[d].kind /\ x.strategy = ctx[d].strategy
          /\ x.new = ctx[d].new /\ x.pod = ctx[d].pod
          /\ x.rollbackFailed = ctx[d].rollbackFailed
          /\ x.old = app.cid /\ x.oldTag = app.tag
    BY <2>1 DEF Context
  <2>3. PICK s \in {"stopping_old", "removing_route"} :
          Advance(d, IF app.cid # Nil THEN "rc_stop" ELSE "rc_unroute", [c EXCEPT !.status = s])
    BY <1>4 DEF BeginRecreate
  <2>4. /\ OthersStay(d) /\ ctx'[d] = [c EXCEPT !.status = s]
        /\ pc'[d] = IF app.cid # Nil THEN "rc_stop" ELSE "rc_unroute"
    BY <2>3, AdvanceMoves
  <2> HIDE DEF c
  <2>5. SameTask(d) /\ ctx'[d].new = ctx[d].new /\ ctx'[d].pod = ctx[d].pod
        /\ ctx'[d].old = app.cid /\ ctx'[d].oldTag = app.tag
        /\ ctx'[d].rollbackFailed = ctx[d].rollbackFailed
    BY <2>2, <2>4 DEF SameTask
  <2>6. RecreateBegins(d)
    BY <1>4, <2>4, <2>5, AppKept DEF RecreateBegins
  <2> QED BY <1>1, <1>3, <1>4, <2>6, FailPlain
<1>5. CASE ~Fail(d) /\ ~(BeginRecreate(d) /\ app' = app)
  <2>1. app' = app
    BY <1>5 DEF Configure
  <2>2. \/ /\ IsPod(d) /\ Routed
           /\ Advance(d, "pod_deploy", [ctx[d] EXCEPT !.status = "starting"])
        \/ /\ ~IsPod(d) /\ (Routed \/ IsWorker(d))
           /\ Advance(d, "bg_start", [ctx[d] EXCEPT !.status = "starting"])
    BY <1>5 DEF Configure
  <2> QED BY <1>1, <2>1, <2>2, AppKept, AdvancePlain
<1> QED BY <1>2, <1>4, <1>5

\* The deadline: the pending call took effect or not, and the handler removes the
\* container that the context names.
LEMMA TimeoutMoves ==
  ASSUME TypeInv, NEW d \in Deploys, Timeout(d)
  PROVE  /\ pc[d] \in DeadlineSteps /\ (Still \/ Effect(d)) /\ NoneAppears(d)
         /\ route' = route \/ route' \in CallRoute(d)
         /\ \/ Plain(d, {"timeout_cleanup"}) /\ ctx[d].new # Nil
            \/ Plain(d, {"done"}) /\ ctx[d].new = Nil
<1>1. /\ pc[d] \in DeadlineSteps /\ (Still \/ Effect(d)) /\ NoneAppears(d)
      /\ route' = route \/ route' \in CallRoute(d)
  BY CallEffect, NoneAppearsStill DEF Timeout, Still
<1>2. \/ Plain(d, {"timeout_cleanup"}) /\ ctx[d].new # Nil
      \/ Plain(d, {"done"}) /\ ctx[d].new = Nil
  BY AppKept, AdvancePlain, FailPlain DEF Timeout, TypeInv
<1> QED BY <1>1, <1>2

\* What the cleanup removes.
LEMMA CleanupMoves ==
  ASSUME TypeInv, NEW d \in Deploys, TimeoutCleanup(d)
  PROVE  /\ pc[d] = "timeout_cleanup" /\ Plain(d, {"done"})
         /\ ctx[d].new # Nil => Discards(ctx[d].new)
         /\ NoneAppears(d) /\ route' = route
<1>1. pc[d] = "timeout_cleanup" /\ Plain(d, {"done"})
  BY FailPlain DEF TimeoutCleanup, TypeInv
<1>2. ctx[d].new # Nil => Discards(ctx[d].new)
  BY <1>1, DiscardEffect DEF TimeoutCleanup, Effect, Discards
<1> QED BY <1>1, <1>2, DiscardEffect DEF TimeoutCleanup

-----------------------------------------------------------------------------
(* Blue-green, and pods.                                                   *)

\* A new container is made, or none is left running.
Makes(d, to) ==
  /\ Starts(New(d)) /\ NoneAppears(d) /\ route' = route
  /\ MovesTo(d, to) /\ SameApp
  /\ ctx'[d].new = New(d) /\ ctx'[d].pod = ctx[d].pod
  /\ ctx'[d].port = runtime'[New(d)].port
  /\ ctx'[d].old = ctx[d].old /\ ctx'[d].oldTag = ctx[d].oldTag

\* The making of a container, by either strategy.
LEMMA StartMakes ==
  ASSUME TypeInv, NEW d \in Deploys, pc[d] \in {"bg_start", "rc_start"}, NEW to,
         \E r \in CallRuntime(d) :
            /\ runtime' = r
            /\ Advance(d, to, [ctx[d] EXCEPT !.new = New(d), !.port = r[New(d)].port,
                                             !.status = "health_checking"])
            /\ UNCHANGED <<app, disk, route>>
  PROVE  Makes(d, {to})
<1>1. /\ runtime' \in CallRuntime(d) /\ app' = app /\ route' = route
      /\ Advance(d, to, [ctx[d] EXCEPT !.new = New(d), !.port = runtime'[New(d)].port,
                                       !.status = "health_checking"])
  OBVIOUS
<1>2. /\ OthersStay(d) /\ pc'[d] = to
      /\ ctx'[d] = [ctx[d] EXCEPT !.new = New(d), !.port = runtime'[New(d)].port,
                                  !.status = "health_checking"]
  BY <1>1, AdvanceMoves DEF TypeInv
<1>3. ctx[d] \in Context
  BY DEF TypeInv, TypeOK
<1>4. /\ SameTask(d)
      /\ ctx'[d].new = New(d) /\ ctx'[d].pod = ctx[d].pod
      /\ ctx'[d].port = runtime'[New(d)].port
      /\ ctx'[d].old = ctx[d].old /\ ctx'[d].oldTag = ctx[d].oldTag
      /\ ctx'[d].rollbackFailed = ctx[d].rollbackFailed
  BY <1>2, <1>3 DEF Context, SameTask
<1>5. Starts(New(d)) /\ NoneAppears(d)
  BY <1>1, CallEffect DEF Effect
<1> QED BY <1>1, <1>2, <1>4, <1>5, AppKept DEF Makes, MovesTo

\* The container is made.
LEMMA BgStartMoves ==
  ASSUME TypeInv, NEW d \in Deploys, BgStart(d)
  PROVE  /\ pc[d] = "bg_start"
         /\ \/ Makes(d, {IF IsWorker(d) THEN "bg_verify" ELSE "bg_health"})
            \/ /\ Plain(d, {"done"}) /\ FailsToStart(New(d)) /\ NoneAppears(d)
               /\ route' = route
<1>1. pc[d] = "bg_start"
  BY DEF BgStart
<1>2. CASE CreateFails(New(d)) /\ Fail(d)
  BY <1>1, <1>2, CreateFailsEffect, FailPlain DEF TypeInv
<1>3. CASE ~(CreateFails(New(d)) /\ Fail(d))
  BY <1>1, <1>3, StartMakes DEF BgStart
<1> QED BY <1>2, <1>3

\* It is probed.
LEMMA BgHealthMoves ==
  ASSUME TypeOK, NEW d \in Deploys, BgHealth(d)
  PROVE  pc[d] = "bg_health" /\ Plain(d, {"bg_verify", "bg_discard"}) /\ Still /\ route' = route
<1>1. pc[d] = "bg_health" /\ Still /\ route' = route /\ app' = app
  BY DEF BgHealth, Still
<1>2. \E s \in {"bg_verify", "bg_discard"} : Plain(d, {s})
  BY <1>1, AppKept, AdvancePlain DEF BgHealth
<1> QED BY <1>1, <1>2 DEF Plain, MovesTo

\* The old container is read when the new one has passed.
ReadsOld(d, old, to) ==
  /\ MovesTo(d, to) /\ SameApp /\ Still /\ route' = route
  /\ ctx'[d].new = ctx[d].new /\ ctx'[d].pod = ctx[d].pod
  /\ ctx'[d].old = old

\* It is looked at again.
LEMMA BgVerifyMoves ==
  ASSUME TypeOK, NEW d \in Deploys, BgVerify(d)
  PROVE  /\ pc[d] = "bg_verify" /\ route' = route
         /\ \/ /\ ReadsOld(d, app.cid, {IF IsWorker(d) THEN "bg_update" ELSE "bg_switch"})
               /\ ctx'[d].port = ctx[d].port /\ Running(New(d))
            \/ Plain(d, {"done"}) /\ (Halts(New(d)) \/ (Fails("inspect") /\ Still))
<1>0. pc[d] = "bg_verify" /\ route' = route /\ ctx[d] \in Context
  BY DEF BgVerify, TypeOK, Refused
<1>1. CASE Fail(d)
  <2>1. runtime' = Stopped(New(d)) \/ (Fails("inspect") /\ Still) \/ ~Fail(d)
    <3>1. \A s, c : ~(Advance(d, s, c) /\ s # "done" /\ Fail(d))
      BY AdvanceMoves, ReturnMoves DEF Fail
    <3> QED BY <1>1, <3>1 DEF BgVerify, Refused, Still
  <2> QED BY <1>0, <1>1, <2>1, FailPlain, OwnContainers, HaltsWhenCalled
<1>2. CASE ~Fail(d)
  <2>1. /\ Running(New(d)) /\ app' = app /\ runtime' = runtime
        /\ Advance(d, IF IsWorker(d) THEN "bg_update" ELSE "bg_switch",
                   [ctx[d] EXCEPT !.status = "switching", !.old = app.cid])
    BY <1>2 DEF BgVerify
  <2>2. /\ OthersStay(d) /\ pc'[d] = (IF IsWorker(d) THEN "bg_update" ELSE "bg_switch")
        /\ ctx'[d] = [ctx[d] EXCEPT !.status = "switching", !.old = app.cid]
    BY <2>1, AdvanceMoves
  <2>3. /\ SameTask(d) /\ ctx'[d].port = ctx[d].port
        /\ ctx'[d].new = ctx[d].new /\ ctx'[d].pod = ctx[d].pod /\ ctx'[d].old = app.cid
        /\ ctx'[d].rollbackFailed = ctx[d].rollbackFailed
    BY <1>0, <2>2 DEF Context, SameTask
  <2> QED BY <1>0, <2>1, <2>2, <2>3, AppKept DEF ReadsOld, MovesTo, Still
<1> QED BY <1>1, <1>2

\* A container that fails the probe is removed, or left behind.
LEMMA DiscardMoves ==
  ASSUME TypeInv, NEW d \in Deploys, BgDiscard(d) \/ PodDiscard(d)
  PROVE  /\ pc[d] \in {"bg_discard", "pod_discard"} /\ Plain(d, {"done"})
         /\ Discards(New(d)) /\ NoneAppears(d) /\ route' = route
<1>1. pc[d] \in {"bg_discard", "pod_discard"} /\ Discard(d) /\ Fail(d)
  BY DEF BgDiscard, PodDiscard
<1>2. Discards(New(d))
  BY <1>1, DiscardEffect DEF Effect, Discards
<1> QED BY <1>1, <1>2, DiscardEffect, FailPlain DEF TypeInv

\* The switch of a blue-green deploy and of a recreate.
LEMMA RouteMoves ==
  ASSUME TypeOK, NEW d \in Deploys, BgSwitch(d) \/ PodSwitch(d) \/ RcSwitch(d)
  PROVE  /\ pc[d] \in {"bg_switch", "pod_switch", "rc_switch"} /\ Still
         /\ \/ /\ route' = ctx[d].port
               /\ Plain(d, {IF pc[d] = "bg_switch" THEN "bg_update"
                            ELSE IF pc[d] = "pod_switch" THEN "pod_update" ELSE "rc_update"})
            \/ /\ route' = route \/ Fails("reply")
               /\ Plain(d, {IF pc[d] = "bg_switch" THEN "bg_discard"
                            ELSE IF pc[d] = "pod_switch" THEN "pod_discard" ELSE "rc_discard"})
<1>1. pc[d] \in {"bg_switch", "pod_switch", "rc_switch"}
  BY DEF BgSwitch, PodSwitch, RcSwitch
<1>2. CallRoute(d) = {ctx[d].port}
  BY <1>1 DEF CallRoute
<1> QED BY <1>1, <1>2, SwitchMoves DEF BgSwitch, PodSwitch, RcSwitch

\* The app state after a record.
Records(d, cid, pod, drain) ==
  /\ OthersStay(d) /\ SameCtx(d) /\ ctx'[d].rollbackFailed = ctx[d].rollbackFailed
  /\ Still /\ route' = route
  /\ app'.entry /\ app'.tag = ctx[d].tag /\ app'.port = ctx[d].port
  /\ app'.cid = cid /\ app'.pod = pod
  /\ pc'[d] = IF ctx[d].old # Nil THEN drain ELSE "done"

\* What the ends of a record have in common.
LEMMA RecordEnds ==
  ASSUME TypeOK, NEW d \in Deploys, NEW drain, Still, route' = route,
         NEW a \in {SwitchedContainer(d), SwitchedPod(d)}, app' = a,
         IF ctx[d].old # Nil THEN Advance(d, drain, ctx[d]) ELSE Complete(d)
  PROVE  Records(d, a.cid, a.pod, drain)
<1>1. OthersStay(d) /\ SameCtx(d) /\ ctx'[d].rollbackFailed = ctx[d].rollbackFailed
  BY AdvanceMoves, ReturnMoves, StatusChange DEF Complete, SameCtx, SameTask
<1>2. pc'[d] = IF ctx[d].old # Nil THEN drain ELSE "done"
  BY AdvanceMoves, ReturnMoves DEF Complete
<1>3. a.entry /\ a.tag = ctx[d].tag /\ a.port = ctx[d].port
  BY DEF SwitchedContainer, SwitchedPod, TypeOK, AppState
<1> QED BY <1>1, <1>2, <1>3 DEF Records

\* The record of a new container.
LEMMA ContainerRecorded ==
  ASSUME TypeOK, NEW d \in Deploys, BgUpdate(d) \/ RcUpdate(d)
  PROVE  /\ pc[d] \in {"bg_update", "rc_update"}
         /\ Records(d, ctx[d].new, app.pod,
                    IF pc[d] = "bg_update" THEN "bg_drain" ELSE "rc_remove_old")
<1>1. /\ pc[d] \in {"bg_update", "rc_update"} /\ Still /\ route' = route
      /\ app' = SwitchedContainer(d)
      /\ IF ctx[d].old # Nil
         THEN Advance(d, IF pc[d] = "bg_update" THEN "bg_drain" ELSE "rc_remove_old", ctx[d])
         ELSE Complete(d)
  BY DEF BgUpdate, RcUpdate, Still
<1>2. SwitchedContainer(d).cid = ctx[d].new /\ SwitchedContainer(d).pod = app.pod
  BY DEF SwitchedContainer, TypeOK, AppState
<1>3. Records(d, SwitchedContainer(d).cid, SwitchedContainer(d).pod,
              IF pc[d] = "bg_update" THEN "bg_drain" ELSE "rc_remove_old")
  BY <1>1, RecordEnds
<1> QED BY <1>1, <1>2, <1>3

\* The record of a new pod.
LEMMA PodRecorded ==
  ASSUME TypeOK, NEW d \in Deploys, PodUpdate(d)
  PROVE  pc[d] = "pod_update" /\ Records(d, app.cid, ctx[d].pod, "pod_drain")
<1>1. /\ pc[d] = "pod_update" /\ Still /\ route' = route /\ app' = SwitchedPod(d)
      /\ IF ctx[d].old # Nil THEN Advance(d, "pod_drain", ctx[d]) ELSE Complete(d)
  BY DEF PodUpdate, Still
<1>2. SwitchedPod(d).cid = app.cid /\ SwitchedPod(d).pod = ctx[d].pod
  BY DEF SwitchedPod, TypeOK, AppState
<1>3. Records(d, SwitchedPod(d).cid, SwitchedPod(d).pod, "pod_drain")
  BY <1>1, RecordEnds
<1> QED BY <1>1, <1>2, <1>3

\* What a deploy replaced is removed, or left behind.
LEMMA DrainMoves ==
  ASSUME TypeInv, NEW d \in Deploys, BgDrain(d) \/ PodDrain(d) \/ RcRemoveOld(d)
  PROVE  /\ pc[d] \in {"bg_drain", "pod_drain", "rc_remove_old"} /\ Plain(d, {"done"})
         /\ Discards(ctx[d].old) /\ NoneAppears(d) /\ route' = route
<1>1. /\ pc[d] \in {"bg_drain", "pod_drain", "rc_remove_old"} /\ Discard(d) /\ Complete(d)
      /\ app' = app
  BY DEF BgDrain, PodDrain, RcRemoveOld
<1>2. Discards(ctx[d].old)
  BY <1>1, DiscardEffect DEF Effect, Discards
<1> QED BY <1>1, <1>2, DiscardEffect, CompletePlain DEF TypeInv

\* A pod is made.
LEMMA PodDeployMoves ==
  ASSUME TypeInv, NEW d \in Deploys, PodDeploy(d)
  PROVE  /\ pc[d] = "pod_deploy" /\ NoneAppears(d) /\ route' = route
         /\ \/ /\ Starts(New(d)) /\ MovesTo(d, {"pod_health"}) /\ SameApp
               /\ ctx'[d].new = ctx[d].new /\ ctx'[d].pod = New(d)
            \/ Plain(d, {"done"}) /\ FailsToStart(New(d))
<1>0. pc[d] = "pod_deploy" /\ TypeOK /\ ctx[d] \in Context
  BY DEF PodDeploy, TypeInv, TypeOK
<1>1. CASE CreateFails(New(d)) /\ Fail(d)
  BY <1>0, <1>1, CreateFailsEffect, FailPlain
<1>2. CASE ~(CreateFails(New(d)) /\ Fail(d))
  <2>1. /\ runtime' \in CallRuntime(d) /\ app' = app /\ route' = route
        /\ Advance(d, "pod_health", [ctx[d] EXCEPT !.pod = New(d),
                                                  !.status = "health_checking"])
    BY <1>2 DEF PodDeploy
  <2>2. /\ OthersStay(d) /\ pc'[d] = "pod_health"
        /\ ctx'[d] = [ctx[d] EXCEPT !.pod = New(d), !.status = "health_checking"]
    BY <1>0, <2>1, AdvanceMoves
  <2>3. /\ SameTask(d) /\ ctx'[d].new = ctx[d].new /\ ctx'[d].pod = New(d)
        /\ ctx'[d].rollbackFailed = ctx[d].rollbackFailed
    BY <1>0, <2>2 DEF Context, SameTask
  <2>4. Starts(New(d)) /\ NoneAppears(d)
    BY <1>0, <2>1, CallEffect DEF Effect
  <2> QED BY <1>0, <2>1, <2>2, <2>3, <2>4, AppKept DEF MovesTo
<1> QED BY <1>1, <1>2

\* Its containers are probed, and the old pod is read.
LEMMA PodHealthMoves ==
  ASSUME TypeOK, NEW d \in Deploys, PodHealth(d)
  PROVE  /\ pc[d] = "pod_health" /\ Still /\ route' = route
         /\ \/ /\ ReadsOld(d, app.pod, {IF IsHttp(d) THEN "pod_switch" ELSE "pod_update"})
               /\ ctx'[d].port = runtime[New(d)].port
            \/ Plain(d, {"pod_discard"})
<1>0. pc[d] = "pod_health" /\ Still /\ route' = route /\ app' = app /\ ctx[d] \in Context
  BY DEF PodHealth, TypeOK, Still
<1>1. CASE Advance(d, "pod_discard", ctx[d])
  BY <1>0, <1>1, AppKept, AdvancePlain
<1>2. CASE ~Advance(d, "pod_discard", ctx[d])
  <2>1. Advance(d, IF IsHttp(d) THEN "pod_switch" ELSE "pod_update",
                [ctx[d] EXCEPT !.port = runtime[New(d)].port,
                               !.status = "switching", !.old = app.pod])
    BY <1>2 DEF PodHealth
  <2>2. /\ OthersStay(d) /\ pc'[d] = (IF IsHttp(d) THEN "pod_switch" ELSE "pod_update")
        /\ ctx'[d] = [ctx[d] EXCEPT !.port = runtime[New(d)].port,
                                    !.status = "switching", !.old = app.pod]
    BY <2>1, AdvanceMoves
  <2>3. /\ SameTask(d) /\ ctx'[d].port = runtime[New(d)].port
        /\ ctx'[d].new = ctx[d].new /\ ctx'[d].pod = ctx[d].pod /\ ctx'[d].old = app.pod
        /\ ctx'[d].rollbackFailed = ctx[d].rollbackFailed
    BY <1>0, <2>2 DEF Context, SameTask
  <2> QED BY <1>0, <2>2, <2>3, AppKept DEF ReadsOld, MovesTo
<1> QED BY <1>1, <1>2

-----------------------------------------------------------------------------
(* Recreate, and its rollback.                                             *)

\* The old container is stopped.
LEMMA RcStopMoves ==
  ASSUME TypeInv, NEW d \in Deploys, RcStop(d)
  PROVE  /\ pc[d] = "rc_stop" /\ NoneAppears(d) /\ route' = route
         /\ \/ Plain(d, {"rc_unroute"}) /\ Exists(ctx[d].old) /\ Halts(ctx[d].old)
            \/ Plain(d, {"done"}) /\ Still
<1>1. pc[d] = "rc_stop" /\ route' = route
  BY DEF RcStop
<1>2. CASE /\ Exists(ctx[d].old) /\ runtime' \in CallRuntime(d) /\ app' = app
           /\ Advance(d, "rc_unroute", [ctx[d] EXCEPT !.status = "removing_route"])
  BY <1>1, <1>2, CallEffect, AppKept, AdvancePlain DEF Effect, TypeInv
<1>3. CASE Fail(d) /\ Still
  BY <1>1, <1>3, FailPlain, NoneAppearsStill DEF TypeInv
<1> QED BY <1>2, <1>3 DEF RcStop, Still

\* The route is removed.
LEMMA RcUnrouteMoves ==
  ASSUME TypeOK, NEW d \in Deploys, RcUnroute(d)
  PROVE  /\ pc[d] = "rc_unroute" /\ Plain(d, {"rc_start"}) /\ Still
         /\ route' = Nil \/ (Fails("unroute") /\ route' = route)
<1>1. pc[d] = "rc_unroute" /\ Still /\ app' = app
  BY DEF RcUnroute, Still
<1>2. route' = Nil \/ (Fails("unroute") /\ route' = route)
  BY DEF RcUnroute, CallRoute
<1> QED BY <1>1, <1>2, AppKept, AdvancePlain DEF RcUnroute

\* The new container is made, or a rollback begins.
LEMMA RcStartMoves ==
  ASSUME TypeInv, NEW d \in Deploys, RcStart(d)
  PROVE  /\ pc[d] = "rc_start"
         /\ \/ Makes(d, {"rc_health"})
            \/ RollsBack(d) /\ FailsToStart(New(d)) /\ NoneAppears(d) /\ route' = route
<1>1. pc[d] = "rc_start"
  BY DEF RcStart
<1>2. CASE CreateFails(New(d)) /\ BeginRollback(d)
  BY <1>1, <1>2, CreateFailsEffect, RollbackMoves DEF TypeInv
<1>3. CASE ~(CreateFails(New(d)) /\ BeginRollback(d))
  BY <1>1, <1>3, StartMakes DEF RcStart
<1> QED BY <1>2, <1>3

\* It is probed.
LEMMA RcHealthMoves ==
  ASSUME TypeOK, NEW d \in Deploys, RcHealth(d)
  PROVE  /\ pc[d] = "rc_health" /\ route' = route
         /\ \/ /\ Plain(d, {IF IsWorker(d) THEN "rc_update" ELSE "rc_switch"})
               /\ Still
            \/ Plain(d, {"rc_discard"}) /\ (Still \/ Halts(New(d)))
            \/ Plain(d, {"rc_switch"}) /\ Halts(New(d)) /\ ~IsWorker(d)
               /\ Fails("exit") /\ Fails("inspect")
<1>1. pc[d] = "rc_health" /\ route' = route /\ SameApp
  BY AppKept DEF RcHealth
<1>2. runtime' = Stopped(New(d)) => Halts(New(d))
  BY OwnContainers, HaltsWhenCalled
<1> QED BY <1>1, <1>2, AdvancePlain DEF RcHealth, Still

\* It is removed, or left behind, and a rollback begins.
LEMMA RcDiscardMoves ==
  ASSUME TypeInv, NEW d \in Deploys, RcDiscard(d)
  PROVE  /\ pc[d] = "rc_discard" /\ RollsBack(d) /\ Discards(New(d)) /\ NoneAppears(d)
         /\ route' = route
<1>1. pc[d] = "rc_discard" /\ Discard(d) /\ BeginRollback(d)
  BY DEF RcDiscard
<1>2. Discards(New(d))
  BY <1>1, DiscardEffect DEF Effect, Discards
<1> QED BY <1>1, <1>2, DiscardEffect, RollbackMoves DEF TypeInv

\* The second tier begins.
FallsBack(d) ==
  \/ Plain(d, {"t2_create"}) /\ ctx[d].oldTag # Nil
  \/ AppIsDown(d)

\* Tier 1.
LEMMA RbRestartMoves ==
  ASSUME TypeInv, NEW d \in Deploys, RbRestart(d)
  PROVE  /\ pc[d] = "rb_restart" /\ NoneAppears(d) /\ route' = route
         /\ \/ /\ Exists(ctx[d].old) /\ Starts(ctx[d].old)
               /\ Plain(d, {IF Routed THEN "rb_route" ELSE "done"})
            \/ FallsBack(d) /\ Still
<1>1. pc[d] = "rb_restart" /\ route' = route /\ TypeOK
  BY DEF RbRestart, TypeInv
<1>2. CASE BeginTier2(d) /\ Still
  BY <1>1, <1>2, RollbackMoves, NoneAppearsStill DEF FallsBack, RollsBack
<1>3. CASE ~(BeginTier2(d) /\ Still)
  <2>1. /\ Exists(ctx[d].old) /\ runtime' \in CallRuntime(d)
        /\ IF Routed THEN Advance(d, "rb_route", ctx[d]) /\ UNCHANGED <<app, disk>>
           ELSE Fail(d)
    BY <1>3 DEF RbRestart, Still
  <2>2. Plain(d, {IF Routed THEN "rb_route" ELSE "done"})
    BY <1>1, <2>1, AppKept, AdvancePlain, FailPlain
  <2> QED BY <1>1, <2>1, <2>2, CallEffect DEF Effect
<1> QED BY <1>2, <1>3

\* The old container has its route again.
LEMMA RbRouteMoves ==
  ASSUME TypeOK, NEW d \in Deploys, RbRoute(d)
  PROVE  /\ pc[d] = "rb_route" /\ Plain(d, {"done"}) /\ Still
         /\ \/ route' = runtime[ctx[d].old].port
            \/ Fails("inspect") /\ route' = app.port
            \/ Fails("restore") /\ route' = route
<1>1. pc[d] = "rb_route" /\ Still /\ Plain(d, {"done"})
  BY FailPlain DEF RbRoute, RestoreRoute, Still
<1> QED BY <1>1 DEF RbRoute, RestoreRoute, CallRoute

\* Tier 2 makes a container of the deploy, apart from the new one.
LEMMA T2CreateMoves ==
  ASSUME TypeInv, NEW d \in Deploys, T2Create(d)
  PROVE  /\ pc[d] = "t2_create" /\ NoneAppears(d) /\ route' = route
         /\ \/ Starts(Fallback(d)) /\ Plain(d, {"t2_health"})
            \/ FailsToStart(Fallback(d)) /\ AppIsDown(d)
<1>1. pc[d] = "t2_create" /\ TypeOK
  BY DEF T2Create, TypeInv
<1>2. CASE CreateFails(Fallback(d)) /\ Tier3(d)
  BY <1>1, <1>2, CreateFailsEffect, Tier3Down
<1>3. CASE ~(CreateFails(Fallback(d)) /\ Tier3(d))
  <2>1. /\ runtime' \in CallRuntime(d) /\ Advance(d, "t2_health", ctx[d])
        /\ app' = app /\ route' = route
    BY <1>3 DEF T2Create
  <2> QED BY <1>1, <2>1, CallEffect, AppKept, AdvancePlain DEF Effect
<1> QED BY <1>2, <1>3

\* It is probed.
LEMMA T2HealthMoves ==
  ASSUME TypeOK, NEW d \in Deploys, T2Health(d)
  PROVE  /\ pc[d] = "t2_health" /\ Still /\ route' = route
         /\ \/ Plain(d, {"t2_discard"})
            \/ Plain(d, {IF Routed THEN "t2_route" ELSE "t2_update"})
<1>1. pc[d] = "t2_health" /\ Still /\ route' = route /\ SameApp
  BY AppKept DEF T2Health, Still
<1> QED BY <1>1, AdvancePlain DEF T2Health

\* It has the route.
LEMMA T2RouteMoves ==
  ASSUME TypeOK, NEW d \in Deploys, T2Route(d)
  PROVE  /\ pc[d] = "t2_route" /\ Still /\ Plain(d, {"t2_update"})
         /\ \/ route' = runtime[Fallback(d)].port
            \/ Fails("restore") /\ route' = route
<1>1. pc[d] = "t2_route" /\ Still /\ SameApp
  BY AppKept DEF T2Route, RestoreRoute, Still
<1> QED BY <1>1, AdvancePlain DEF T2Route, RestoreRoute, CallRoute

\* It is recorded, if the app has an entry.
LEMMA T2UpdateMoves ==
  ASSUME TypeOK, NEW d \in Deploys, T2Update(d)
  PROVE  /\ pc[d] = "t2_update" /\ Still /\ route' = route
         /\ MovesTo(d, {"done"}) /\ SameCtx(d)
         /\ app'.entry = app.entry /\ app'.pod = app.pod
         /\ IF app.entry
            THEN /\ app'.cid = Fallback(d) /\ app'.tag = ctx[d].oldTag
                 /\ app'.port = runtime[Fallback(d)].port
            ELSE app'.cid = app.cid /\ app'.tag = app.tag /\ app'.port = app.port
<1> DEFINE a == IF app.entry
                THEN [app EXCEPT !.cid = Fallback(d), !.tag = ctx[d].oldTag,
                                 !.port = runtime[Fallback(d)].port]
                ELSE app
<1>1. pc[d] = "t2_update" /\ Still /\ route' = route /\ app' \in SetAppFailed(a)
  BY DEF T2Update, Still
<1>2. MovesTo(d, {"done"}) /\ SameCtx(d)
  BY ReturnMoves, StatusChange DEF T2Update, MovesTo, SameCtx
<1>3. /\ a \in AppState /\ a.entry = app.entry /\ a.pod = app.pod
      /\ IF app.entry
         THEN /\ a.cid = Fallback(d) /\ a.tag = ctx[d].oldTag
              /\ a.port = runtime[Fallback(d)].port
         ELSE a.cid = app.cid /\ a.tag = app.tag /\ a.port = app.port
  <2>1. Fallback(d) \in Option(Containers) /\ ctx[d].oldTag \in Option(Tags)
        /\ runtime[Fallback(d)].port \in HostPorts /\ app \in AppState
    BY OwnContainers DEF TypeOK, Context, Container, Option
  <2> QED BY <2>1 DEF AppState
<1> HIDE DEF a
<1>4. /\ app'.entry = a.entry /\ app'.tag = a.tag
      /\ app'.cid = a.cid /\ app'.pod = a.pod /\ app'.port = a.port
  BY <1>1, <1>3, FailedApp
<1> QED BY <1>1, <1>2, <1>3, <1>4

\* It is removed, or left behind, and the app is down.
LEMMA T2DiscardMoves ==
  ASSUME TypeInv, NEW d \in Deploys, T2Discard(d)
  PROVE  /\ pc[d] = "t2_discard" /\ AppIsDown(d) /\ Discards(Fallback(d)) /\ NoneAppears(d)
         /\ route' = route
<1>1. pc[d] = "t2_discard" /\ Discard(d) /\ Tier3(d)
  BY DEF T2Discard
<1>2. Discards(Fallback(d))
  BY <1>1, DiscardEffect DEF Effect, Discards
<1> QED BY <1>1, <1>2, DiscardEffect, Tier3Down DEF TypeInv

-----------------------------------------------------------------------------
(* Where the containers of a deploy are at which step.                     *)

\* With both, the new container of a recreate may exit and still count as running.
Blind == Fails("exit") /\ Fails("inspect")

\* The steps before the new container is made, and those at which it runs.
Unmade == {"idle", "accepted", "pulling", "configuring", "bg_start", "pod_deploy",
           "rc_stop", "rc_unroute", "rc_start"}
NewUp == {"bg_health", "bg_verify", "bg_switch", "bg_update", "pod_health", "pod_switch",
          "pod_update", "rc_health"}
         \cup (IF Blind THEN {} ELSE {"rc_switch", "rc_update"})

\* The steps at which the context names the new container, or the new pod.
NamesNew == {"bg_health", "bg_verify", "bg_discard", "bg_switch", "bg_update", "bg_drain",
             "rc_health", "rc_discard", "rc_switch", "rc_update", "rc_remove_old"}
NamesPod == PodSteps \ {"pod_deploy"}

\* The steps at which the context has the port of the new container.
HasPort == NewUp \ {"pod_health"}

\* The steps at which the old container of the context is the one, or the pod, of
\* the app state, those at which it is stopped, and those of tier 2.
OldIsCid == {"bg_switch", "bg_update"} \cup (RecreateSteps \ {"rc_remove_old"})
            \cup RollbackSteps
OldIsPod == {"pod_switch", "pod_update"}
Tier2 == {"t2_create", "t2_health", "t2_route", "t2_update", "t2_discard"}
OldDown == (RecreateSteps \ {"rc_stop"}) \cup Tier2 \cup {"rb_restart"}
FallbackUp == {"t2_health", "t2_route", "t2_update"}
FallbackMade == FallbackUp \cup {"t2_discard", "timeout_cleanup", "done"}

\* What a deploy knows of its own containers.
OwnAt(d) ==
  /\ pc[d] \in Unmade => runtime[New(d)] = Absent /\ ctx[d].new = Nil /\ ctx[d].pod = Nil
  /\ pc[d] \in NewUp => Running(New(d))
  /\ pc[d] \in NamesNew => ctx[d].new = New(d)
  /\ pc[d] \in NamesPod => ctx[d].pod = New(d)
  /\ pc[d] \in HasPort => ctx[d].port = runtime[New(d)].port
  /\ pc[d] \in {"rc_switch", "rc_update"} /\ ctx[d].port # 0 => IsHttp(d)
  /\ pc[d] \notin FallbackMade => runtime[Fallback(d)] = Absent
  /\ pc[d] \in FallbackUp => Running(Fallback(d))
  /\ pc[d] \in PodSteps => ctx[d].new = Nil
  /\ pc[d] = "timeout_cleanup" => ctx[d].new = New(d)

\* What it knows of the old one.
OldAt(d) ==
  /\ pc[d] \in OldIsCid => ctx[d].old = app.cid
  /\ pc[d] \in OldIsPod => ctx[d].old = app.pod
  /\ pc[d] \in {"bg_drain", "rc_remove_old"} =>
       app.cid = New(d) /\ ctx[d].old \notin {New(d), app.pod}
  /\ pc[d] = "pod_drain" => app.pod = New(d) /\ ctx[d].old \notin {New(d), app.cid}
  /\ pc[d] \in OldDown => ~Running(ctx[d].old)
  /\ pc[d] = "rb_route" => Running(ctx[d].old)

\* What its steps say of its context.
TaskAt(d) ==
  /\ pc[d] # "done" => ~ctx[d].rollbackFailed
  /\ pc[d] \in RecreateSteps \cup RollbackSteps => ctx[d].strategy = "recreate"
  /\ pc[d] \in (RecreateSteps \ {"rc_remove_old"}) \cup RollbackSteps => ctx[d].oldTag = app.tag
  /\ pc[d] \in Tier2 => ctx[d].oldTag # Nil
  /\ pc[d] \in BlueGreenSteps \cup RecreateSteps \cup RollbackSteps => ~IsPod(d)
  /\ pc[d] \in PodSteps => IsPod(d)
  /\ pc[d] \notin {"idle", "done"} => ctx[d].tag # Nil
  /\ pc[d] \in {"bg_switch", "rc_switch", "pod_switch"} => IsHttp(d)
  /\ pc[d] = "rb_route" => Routed
  /\ pc[d] \in BlueGreenSteps \cup PodSteps \cup RecreateSteps /\ IsHttp(d) => Routed

\* A container that has a host port when it runs.
Ported(c) == IF c = New(c[1]) THEN IsHttp(c[1]) ELSE Routed

\* Ports belong to one running container each.
PortsInv ==
  /\ \A c \in Containers : Running(c) => (runtime[c].port # 0 <=> Ported(c))
  /\ \A c \in Containers : ~Running(c) => runtime[c].port = 0
  /\ \A c \in Containers, x \in Containers :
       Running(c) /\ Running(x) /\ runtime[c].port = runtime[x].port /\ runtime[c].port # 0 => c = x

\* The app state: a container is not a pod, and without an entry nothing is known.
EntryInv ==
  /\ app.cid # Nil => app.cid # app.pod
  /\ ~app.entry => app.cid = Nil /\ app.pod = Nil /\ app.tag = Nil /\ app.port = 0
  /\ app.port # 0 => Routed
  /\ app.port # 0 /\ app.pod = Nil => app.cid # Nil /\ Ported(app.cid)

PlaceAt(d) == OwnAt(d) /\ OldAt(d) /\ TaskAt(d)
PlaceInv == (\A d \in Deploys : PlaceAt(d)) /\ PortsInv /\ EntryInv

(* With the health invariant, these say where everything is.               *)
WorldInv == TypeInv /\ OneDeployAtATime /\ HealthInv /\ PlaceInv

\* What is known of d at every step.
LEMMA KnownAt ==
  ASSUME WorldInv, NEW d \in Deploys
  PROVE  /\ TypeInv /\ TypeOK /\ PlaceAt(d) /\ PortsInv /\ EntryInv
         /\ New(d) \in Containers /\ Fallback(d) \in Containers /\ Nil \notin Containers
         /\ New(d) # Fallback(d) /\ New(d)[1] = d /\ Fallback(d)[1] = d
         /\ app.cid \in Containers \cup {Nil} /\ app.pod \in Containers \cup {Nil}
         /\ ctx[d].old \in Containers \cup {Nil} /\ ctx[d].kind \in AllKinds
         /\ ctx[d].new \in {Nil, New(d)} /\ ctx[d].pod \in {Nil, New(d)}
         /\ pc[d] \notin MayBeNamed =>
              New(d) \notin {app.cid, app.pod} /\ Fallback(d) \notin {app.cid, app.pod}
         /\ pc[d] \in OldSteps => ctx[d].old \in Containers
<1>1. /\ TypeInv /\ TypeOK /\ PlaceAt(d) /\ PortsInv /\ EntryInv
      /\ pc[d] \in OldSteps => ctx[d].old \in Containers
  BY DEF WorldInv, PlaceInv, TypeInv, OldKnown
<1>2. /\ New(d) \in Containers /\ Fallback(d) \in Containers /\ Nil \notin Containers
      /\ New(d) # Fallback(d) /\ New(d)[1] = d /\ Fallback(d)[1] = d
  BY OwnContainers, ContainerNames, NilFresh DEF New, Fallback
<1>3. /\ app.cid \in Containers \cup {Nil} /\ app.pod \in Containers \cup {Nil}
      /\ ctx[d].old \in Containers \cup {Nil} /\ ctx[d].kind \in AllKinds
  BY <1>1 DEF TypeOK, AppState, Context, Option
<1>4. DeployHealth(d)
  BY DEF WorldInv, HealthInv
<1> QED BY <1>1, <1>2, <1>3, <1>4 DEF DeployHealth, Named

-----------------------------------------------------------------------------
(* The parts of the place invariant that any step keeps.                   *)

\* Nothing is left to say of a deploy that returned, and little of one whose time is up.
LEMMA DonePlace ==
  ASSUME NEW d \in Deploys, pc'[d] = "done"
  PROVE  PlaceAt(d)'
  BY DEF PlaceAt, OwnAt, OldAt, TaskAt, Unmade, NewUp, NamesNew, NamesPod, HasPort, OldIsCid,
         OldIsPod, Tier2, OldDown, FallbackUp, FallbackMade, BlueGreenSteps, PodSteps,
         RecreateSteps, RollbackSteps

\* The other deploys are not in flight.
LEMMA OthersPlace ==
  ASSUME OneDeployAtATime, PlaceInv, NEW d \in Deploys, InFlight(d), OthersStay(d),
         NoneAppears(d), NEW e \in Deploys \ {d}
  PROVE  PlaceAt(e)'
<1>1. pc'[e] = pc[e] /\ ctx'[e] = ctx[e] /\ pc[e] \in {"idle", "done"}
  BY DEF OthersStay, OneDeployAtATime, InFlight
<1>2. CASE pc[e] = "done"
  BY <1>1, <1>2, DonePlace
<1>3. CASE pc[e] = "idle"
  <2>1. PlaceAt(e)
    BY DEF PlaceInv
  <2>2. /\ New(e) \in Containers /\ Fallback(e) \in Containers
        /\ New(e)[1] = e /\ Fallback(e)[1] = e
    BY OwnContainers, ContainerNames
  <2>3. /\ runtime[New(e)] = Absent /\ runtime[Fallback(e)] = Absent
        /\ ctx[e].new = Nil /\ ctx[e].pod = Nil /\ ~ctx[e].rollbackFailed
    BY <1>3, <2>1 DEF PlaceAt, OwnAt, TaskAt, Unmade, FallbackMade, FallbackUp
  <2>4. runtime'[New(e)] = Absent /\ runtime'[Fallback(e)] = Absent
    BY <2>2, <2>3 DEF NoneAppears
  <2>5. OwnAt(e)'
    BY <1>1, <1>3, <2>3, <2>4
       DEF OwnAt, Unmade, NewUp, NamesNew, NamesPod, HasPort, FallbackUp, FallbackMade, PodSteps
  <2>6. OldAt(e)'
    BY <1>1, <1>3 DEF OldAt, OldIsCid, OldIsPod, OldDown, Tier2, RecreateSteps, RollbackSteps
  <2>7. TaskAt(e)'
    BY <1>1, <1>3, <2>3
       DEF TaskAt, Tier2, BlueGreenSteps, PodSteps, RecreateSteps, RollbackSteps
  <2> QED BY <2>5, <2>6, <2>7 DEF PlaceAt
<1> QED BY <1>1, <1>2, <1>3

\* Ports stay unique: a start takes a free one.
LEMMA PortsKept ==
  ASSUME TypeOK, PortsInv, \A e \in Deploys : ctx'[e].kind = ctx[e].kind,
         Still \/ \E c \in Containers : Starts(c) \/ Halts(c)
  PROVE  PortsInv'
<1>1. \A x \in Containers : Ported(x)' <=> Ported(x)
  BY ContainerNames DEF Ported, IsHttp
<1>2. \A x \in Containers : Running(x)' <=> runtime'[x].st = "running"
  BY NilFresh DEF Running
<1>3. \A x \in Containers : Running(x) <=> runtime[x].st = "running"
  BY NilFresh DEF Running
<1>4. CASE Still
  BY <1>1, <1>2, <1>3, <1>4 DEF Still, PortsInv
<1>5. ASSUME NEW c \in Containers, Halts(c) PROVE PortsInv'
  <2>1. \A x \in Containers : x # c => runtime'[x] = runtime[x]
    BY <1>5 DEF Halts, OnlyAt
  <2>2. runtime'[c].st # "running" /\ runtime'[c].port = 0
    BY <1>5 DEF Halts
  <2> QED BY <1>1, <1>2, <1>3, <2>1, <2>2 DEF PortsInv
<1>6. ASSUME NEW c \in Containers, Starts(c) PROVE PortsInv'
  <2>1. \A x \in Containers : x # c => runtime'[x] = runtime[x]
    BY <1>6 DEF Starts, OnlyAt
  <2>2. runtime'[c].st = "running"
    BY <1>6 DEF Starts
  <2>3. runtime'[c].port # 0 <=> Ported(c)
    BY <1>6, ConstantsAssumption DEF Starts, PortChoices, FreePorts, Ported
  <2>4. ASSUME NEW x \in Containers \ {c}, Running(x), runtime[x].port = runtime'[c].port
        PROVE  runtime'[c].port = 0
    BY <1>6, <2>4 DEF Starts, PortChoices, FreePorts
  <2> QED BY <1>1, <1>2, <1>3, <2>1, <2>2, <2>3, <2>4 DEF PortsInv
<1> QED BY <1>4, <1>5, <1>6

\* The app state says what it said.
LEMMA EntryKept ==
  ASSUME TypeOK, EntryInv, SameApp, \A e \in Deploys : ctx'[e].kind = ctx[e].kind
  PROVE  EntryInv'
<1>1. app.cid \in Containers \cup {Nil}
  BY DEF TypeOK, AppState, Option
<1>2. \A x \in Containers : Ported(x)' <=> Ported(x)
  BY ContainerNames DEF Ported, IsHttp
<1>3. app'.cid # Nil => (Ported(app.cid)' <=> Ported(app.cid))
  BY <1>1, <1>2 DEF SameApp
<1> QED BY <1>3 DEF EntryInv, SameApp

\* The parts put together.
LEMMA PlaceParts ==
  ASSUME WorldInv, NEW d \in Deploys, InFlight(d), OthersStay(d), NoneAppears(d), SameTask(d),
         Still \/ \E c \in Containers : Starts(c) \/ Halts(c),
         PlaceAt(d)', EntryInv'
  PROVE  PlaceInv'
<1>1. \A e \in Deploys : ctx'[e].kind = ctx[e].kind
  BY DEF OthersStay, SameTask
<1>2. PortsInv'
  BY <1>1, PortsKept DEF WorldInv, TypeInv, PlaceInv
<1>3. \A e \in Deploys \ {d} : PlaceAt(e)'
  BY OthersPlace DEF WorldInv
<1> QED BY <1>2, <1>3 DEF PlaceInv

\* The same for a step that leaves the app state alone.
LEMMA KeptParts ==
  ASSUME WorldInv, NEW d \in Deploys, InFlight(d), OthersStay(d), NoneAppears(d), SameTask(d),
         Still \/ \E c \in Containers : Starts(c) \/ Halts(c), SameApp,
         PlaceAt(d)'
  PROVE  PlaceInv'
<1>1. \A e \in Deploys : ctx'[e].kind = ctx[e].kind
  BY DEF OthersStay, SameTask
<1>2. EntryInv'
  BY <1>1, EntryKept DEF WorldInv, TypeInv, PlaceInv
<1> QED BY <1>2, PlaceParts

\* A step to the end, whatever it does to one container of the deploy or of the app.
LEMMA EndPlace ==
  ASSUME WorldInv, NEW d \in Deploys, InFlight(d), NoneAppears(d),
         Still \/ \E c \in Containers : Starts(c) \/ Halts(c),
         Plain(d, {"done"}) \/ AppIsDown(d)
  PROVE  PlaceInv'
<1>1. OthersStay(d) /\ SameTask(d) /\ SameApp /\ pc'[d] = "done"
  BY DEF Plain, MovesTo, AppIsDown, SameCtx
<1> QED BY <1>1, DonePlace, KeptParts

\* Before the strategy is chosen, and until something is made or stopped.
LEMMA UnmadePlace ==
  ASSUME WorldInv, NEW d \in Deploys, Still, pc[d] \in {"accepted", "pulling", "configuring"},
         \/ Plain(d, {"pulling"}) \/ Plain(d, {"configuring"})
         \/ Plain(d, {"pod_deploy"}) /\ IsPod(d) /\ Routed
         \/ Plain(d, {"bg_start"}) /\ ~IsPod(d) /\ (Routed \/ IsWorker(d))
         \/ /\ RecreateBegins(d) /\ ~IsPod(d) /\ (Routed \/ IsWorker(d))
            /\ ctx[d].strategy = "recreate"
  PROVE  PlaceInv'
<1>1. InFlight(d) /\ pc[d] \in Unmade /\ pc[d] \notin FallbackMade \cup {"idle", "done"}
  BY DEF InFlight, Unmade, FallbackMade, FallbackUp
<1>2. /\ runtime'[New(d)] = Absent /\ ctx'[d].new = Nil /\ ctx'[d].pod = Nil
      /\ runtime'[Fallback(d)] = Absent /\ ~ctx'[d].rollbackFailed /\ ctx'[d].tag # Nil
      /\ OthersStay(d) /\ SameTask(d) /\ SameApp
  <2>1. /\ runtime[New(d)] = Absent /\ ctx[d].new = Nil /\ ctx[d].pod = Nil
        /\ runtime[Fallback(d)] = Absent /\ ~ctx[d].rollbackFailed /\ ctx[d].tag # Nil
    BY <1>1, KnownAt DEF PlaceAt, OwnAt, TaskAt
  <2>2. /\ OthersStay(d) /\ SameTask(d) /\ SameApp
        /\ ctx'[d].rollbackFailed = ctx[d].rollbackFailed
        /\ ctx'[d].new = ctx[d].new /\ ctx'[d].pod = ctx[d].pod
    BY DEF Plain, MovesTo, SameCtx, RecreateBegins
  <2>3. ctx'[d].tag = ctx[d].tag
    BY <2>2 DEF SameTask
  <2> QED BY <2>1, <2>2, <2>3 DEF Still
<1>3. pc'[d] \in {"pulling", "configuring", "pod_deploy", "bg_start", "rc_stop", "rc_unroute"}
  BY DEF Plain, MovesTo, RecreateBegins
<1>4. OwnAt(d)'
  BY <1>2, <1>3
     DEF OwnAt, Unmade, NewUp, NamesNew, NamesPod, HasPort, FallbackUp, FallbackMade, PodSteps
<1>5. OldAt(d)'
  <2>1. pc'[d] \in {"rc_stop", "rc_unroute"} => ctx'[d].old = app.cid
    BY DEF Plain, MovesTo, RecreateBegins
  <2>2. pc'[d] = "rc_unroute" => app.cid = Nil
    BY DEF Plain, MovesTo, RecreateBegins
  <2> QED BY <1>2, <1>3, <2>1, <2>2
          DEF OldAt, OldIsCid, OldIsPod, OldDown, Tier2, RecreateSteps, RollbackSteps, Running,
              SameApp
<1>6. TaskAt(d)'
  <2>1. /\ IsPod(d)' <=> IsPod(d)
        /\ IsWorker(d) => ~IsHttp(d)'
        /\ pc'[d] = "pod_deploy" => IsPod(d) /\ Routed
        /\ pc'[d] \in {"bg_start", "rc_stop", "rc_unroute"} => ~IsPod(d) /\ (Routed \/ IsWorker(d))
        /\ pc'[d] \in {"rc_stop", "rc_unroute"} =>
             ctx'[d].strategy = "recreate" /\ ctx'[d].oldTag = app'.tag
    BY <1>2 DEF Plain, MovesTo, RecreateBegins, SameTask, IsPod, IsWorker, IsHttp, SameApp
  <2> QED BY <1>2, <1>3, <2>1
          DEF TaskAt, Tier2, BlueGreenSteps, PodSteps, RecreateSteps, RollbackSteps
<1>7. NoneAppears(d)
  BY NoneAppearsStill
<1> QED BY <1>1, <1>2, <1>4, <1>5, <1>6, <1>7, KeptParts DEF PlaceAt

\* The steps before the strategy is chosen.
LEMMA SharedPlace ==
  ASSUME WorldInv, NEW d \in Deploys, LookUpApp(d) \/ PullImages(d) \/ Configure(d)
  PROVE  PlaceInv'
<1>1. /\ Still /\ NoneAppears(d) /\ pc[d] \in {"accepted", "pulling", "configuring"}
      /\ InFlight(d)
  BY KnownAt, LookUpMoves, ConfigureMoves, NoneAppearsStill DEF InFlight
<1>2. CASE Plain(d, {"done"})
  BY <1>1, <1>2, EndPlace
<1>3. CASE ~Plain(d, {"done"})
  BY <1>1, <1>3, KnownAt, LookUpMoves, ConfigureMoves, UnmadePlace
<1> QED BY <1>2, <1>3

\* The moves between two steps that leave all containers alone but the new one.
QuietMove(p, q) ==
  \/ p = "bg_health" /\ q \in {"bg_verify", "bg_discard"}
  \/ p = "bg_switch" /\ q \in {"bg_update", "bg_discard"}
  \/ p = "pod_health" /\ q = "pod_discard"
  \/ p = "pod_switch" /\ q \in {"pod_update", "pod_discard"}
  \/ p = "rc_unroute" /\ q = "rc_start"
  \/ p = "rc_health" /\ q \in {"rc_switch", "rc_update", "rc_discard"}
  \/ p = "rc_switch" /\ q \in {"rc_update", "rc_discard"}
  \/ p \in {"rc_start", "rc_discard"} /\ q \in {"rb_restart", "t2_create"}
  \/ p = "rb_restart" /\ q = "t2_create"
  \/ p = "t2_health" /\ q \in {"t2_discard", "t2_route", "t2_update"}
  \/ p = "t2_route" /\ q = "t2_update"

\* They keep everything in its place.
LEMMA QuietPlace ==
  ASSUME WorldInv, NEW d \in Deploys, NEW to, Plain(d, {to}), QuietMove(pc[d], to),
         \/ Still
         \/ Starts(New(d)) /\ to \in {"rb_restart", "t2_create"}
         \/ Halts(New(d)) /\ to \notin NewUp \cup Unmade,
         to = "rc_switch" => ~IsWorker(d),
         to = "t2_create" => ctx[d].oldTag # Nil
  PROVE  PlaceInv'
<1>1. /\ OthersStay(d) /\ SameTask(d) /\ SameApp /\ pc'[d] = to
      /\ ctx'[d].new = ctx[d].new /\ ctx'[d].pod = ctx[d].pod /\ ctx'[d].port = ctx[d].port
      /\ ctx'[d].old = ctx[d].old /\ ctx'[d].oldTag = ctx[d].oldTag
      /\ ctx'[d].rollbackFailed = ctx[d].rollbackFailed
      /\ app'.cid = app.cid /\ app'.pod = app.pod /\ app'.tag = app.tag
  BY DEF Plain, MovesTo, SameCtx, SameApp
<1>2. \A x \in Containers \ {New(d)} : runtime'[x] = runtime[x]
  BY DEF Still, Starts, Halts, OnlyAt
<1>3. to \in NewUp \cup Unmade => runtime' = runtime
  BY DEF Still, NewUp, Unmade
<1>4. pc[d] \notin MayBeNamed /\ InFlight(d)
  BY DEF QuietMove, MayBeNamed, InFlight
<1>5. NoneAppears(d) /\ (Still \/ \E c \in Containers : Starts(c) \/ Halts(c))
  BY KnownAt, NoneAppearsStill, NoneAppearsAt DEF Starts, Halts
<1>6. OwnAt(d)'
  <2>1. OwnAt(d) /\ Fallback(d) \in Containers \ {New(d)}
    BY KnownAt DEF PlaceAt
  <2>2. runtime'[Fallback(d)] = runtime[Fallback(d)]
    BY <1>2, <2>1
  <2>3. Running(Fallback(d))' <=> Running(Fallback(d))
    BY <2>2 DEF Running
  <2>4. ASSUME to \in NewUp PROVE Running(New(d))' <=> Running(New(d))
    <3>1. runtime' = runtime
      BY <1>3, <2>4
    <3> QED BY <3>1 DEF Running
  <2>5. pc[d] = "rc_health" /\ ctx[d].port # 0 => IsHttp(d)
    <3>1. pc[d] = "rc_health" => Running(New(d)) /\ ctx[d].port = runtime[New(d)].port
      BY <2>1 DEF OwnAt, NewUp, HasPort
    <3>2. Ported(New(d)) <=> IsHttp(d)
      BY KnownAt DEF Ported
    <3>3. PortsInv /\ New(d) \in Containers
      BY KnownAt
    <3> QED BY <3>1, <3>2, <3>3 DEF PortsInv
  <2>6. IsHttp(d)' <=> IsHttp(d)
    BY <1>1 DEF IsHttp, SameTask
  <2> QED BY <1>1, <1>3, <2>1, <2>2, <2>3, <2>4, <2>5, <2>6
          DEF OwnAt, QuietMove, Unmade, NewUp, NamesNew, NamesPod, HasPort, FallbackUp,
              FallbackMade, PodSteps
<1>7. OldAt(d)'
  <2>1. OldAt(d)
    BY KnownAt DEF PlaceAt
  <2>2. pc[d] \in OldDown => ctx[d].old # New(d) \/ Still
    BY <1>4, <2>1, KnownAt
       DEF OldAt, OldDown, OldIsCid, MayBeNamed, Tier2, RecreateSteps, RollbackSteps
  <2>3. pc[d] \in OldDown => ~Running(ctx[d].old)'
    BY <1>1, <1>2, <2>1, <2>2, KnownAt DEF OldAt, Running, Still
  <2> QED BY <1>1, <2>1, <2>3
          DEF OldAt, QuietMove, OldIsCid, OldIsPod, OldDown, Tier2, RecreateSteps, RollbackSteps
<1>8. TaskAt(d)'
  <2>1. TaskAt(d) /\ ctx[d].kind \in AllKinds
    BY KnownAt DEF PlaceAt
  <2>2. (IsPod(d)' <=> IsPod(d)) /\ (IsHttp(d)' <=> IsHttp(d))
    BY <1>1 DEF IsPod, IsHttp, SameTask
  <2>3. ~IsWorker(d) /\ ~IsPod(d) => IsHttp(d)
    BY <2>1 DEF IsPod, IsHttp, IsWorker, AllKinds
  <2> QED BY <1>1, <2>1, <2>2, <2>3
          DEF TaskAt, QuietMove, Tier2, BlueGreenSteps, PodSteps, RecreateSteps, RollbackSteps,
              SameTask
<1> QED BY <1>1, <1>4, <1>5, <1>6, <1>7, <1>8, KeptParts DEF PlaceAt

\* The making of a container.
LEMMA MadePlace ==
  ASSUME WorldInv, NEW d \in Deploys, NEW to, Makes(d, {to}),
         \/ pc[d] = "bg_start" /\ to \in {"bg_health", "bg_verify"}
         \/ pc[d] = "rc_start" /\ to = "rc_health"
  PROVE  PlaceInv'
<1>1. /\ OthersStay(d) /\ SameTask(d) /\ SameApp /\ pc'[d] = to
      /\ ctx'[d].new = New(d) /\ ctx'[d].pod = ctx[d].pod
      /\ ctx'[d].port = runtime'[New(d)].port
      /\ ctx'[d].old = ctx[d].old /\ ctx'[d].oldTag = ctx[d].oldTag
      /\ ctx'[d].rollbackFailed = ctx[d].rollbackFailed
      /\ app'.cid = app.cid /\ app'.pod = app.pod /\ app'.tag = app.tag
  BY DEF Makes, MovesTo, SameApp
<1>2. /\ \A x \in Containers \ {New(d)} : runtime'[x] = runtime[x]
      /\ runtime'[New(d)].st = "running" /\ Starts(New(d)) /\ NoneAppears(d)
  BY DEF Makes, Starts, OnlyAt
<1>3. pc[d] \notin MayBeNamed /\ InFlight(d)
  BY DEF MayBeNamed, InFlight
<1>4. OwnAt(d)'
  <2>1. /\ OwnAt(d) /\ Fallback(d) \in Containers \ {New(d)} /\ New(d) # Nil
    BY KnownAt DEF PlaceAt
  <2>2. runtime'[Fallback(d)] = runtime[Fallback(d)] /\ Running(New(d))'
    BY <1>2, <2>1 DEF Running
  <2> QED BY <1>1, <2>1, <2>2
          DEF OwnAt, Unmade, NewUp, NamesNew, NamesPod, HasPort, FallbackUp, FallbackMade,
              PodSteps
<1>5. OldAt(d)'
  <2>1. OldAt(d)
    BY KnownAt DEF PlaceAt
  <2>2. pc[d] = "rc_start" => ~Running(ctx[d].old)'
    BY <1>1, <1>2, <1>3, <2>1, KnownAt
       DEF OldAt, OldDown, OldIsCid, Tier2, RecreateSteps, RollbackSteps, Running
  <2> QED BY <1>1, <2>1, <2>2
          DEF OldAt, OldIsCid, OldIsPod, OldDown, Tier2, RecreateSteps, RollbackSteps
<1>6. TaskAt(d)'
  <2>1. TaskAt(d)
    BY KnownAt DEF PlaceAt
  <2>2. (IsPod(d)' <=> IsPod(d)) /\ (IsHttp(d)' <=> IsHttp(d))
    BY <1>1 DEF IsPod, IsHttp, SameTask
  <2> QED BY <1>1, <2>1, <2>2
          DEF TaskAt, Tier2, BlueGreenSteps, PodSteps, RecreateSteps, RollbackSteps, SameTask
<1> QED BY <1>1, <1>2, <1>3, <1>4, <1>5, <1>6, KeptParts, KnownAt DEF PlaceAt

\* The old container, or pod, is read.
LEMMA ReadPlace ==
  ASSUME WorldInv, NEW d \in Deploys, NEW to, NEW old, ReadsOld(d, old, {to}),
         \/ /\ pc[d] = "bg_verify" /\ old = app.cid /\ ctx'[d].port = ctx[d].port
            /\ to = IF IsWorker(d) THEN "bg_update" ELSE "bg_switch"
         \/ /\ pc[d] = "pod_health" /\ old = app.pod /\ ctx'[d].port = runtime[New(d)].port
            /\ to = IF IsHttp(d) THEN "pod_switch" ELSE "pod_update"
  PROVE  PlaceInv'
<1>1. /\ OthersStay(d) /\ SameTask(d) /\ SameApp /\ pc'[d] = to /\ Still
      /\ ctx'[d].new = ctx[d].new /\ ctx'[d].pod = ctx[d].pod /\ ctx'[d].old = old
      /\ ctx'[d].rollbackFailed = ctx[d].rollbackFailed
      /\ app'.cid = app.cid /\ app'.pod = app.pod /\ app'.tag = app.tag
  BY DEF ReadsOld, MovesTo, SameApp
<1>2. pc[d] \notin MayBeNamed /\ InFlight(d)
  BY DEF MayBeNamed, InFlight
<1>3. OwnAt(d)'
  <2>1. OwnAt(d)
    BY KnownAt DEF PlaceAt
  <2>2. Running(New(d))' <=> Running(New(d))
    BY <1>1 DEF Running, Still
  <2> QED BY <1>1, <2>1, <2>2
          DEF OwnAt, Unmade, NewUp, NamesNew, NamesPod, HasPort, FallbackUp, FallbackMade,
              PodSteps, Still
<1>4. OldAt(d)'
  BY <1>1 DEF OldAt, OldIsCid, OldIsPod, OldDown, Tier2, RecreateSteps, RollbackSteps
<1>5. TaskAt(d)'
  <2>1. TaskAt(d) /\ ctx[d].kind \in AllKinds
    BY KnownAt DEF PlaceAt
  <2>2. (IsPod(d)' <=> IsPod(d)) /\ (IsHttp(d)' <=> IsHttp(d))
    BY <1>1 DEF IsPod, IsHttp, SameTask
  <2>3. ~IsWorker(d) /\ ~IsPod(d) => IsHttp(d)
    BY <2>1 DEF IsPod, IsHttp, IsWorker, AllKinds
  <2> QED BY <1>1, <2>1, <2>2, <2>3
          DEF TaskAt, Tier2, BlueGreenSteps, PodSteps, RecreateSteps, RollbackSteps, SameTask
<1> QED BY <1>1, <1>2, <1>3, <1>4, <1>5, KeptParts, NoneAppearsStill DEF PlaceAt

\* Removals at the end of a deploy.
LEMMA LastPlace ==
  ASSUME WorldInv, NEW d \in Deploys, InFlight(d), NoneAppears(d),
         Plain(d, {"done"}) \/ AppIsDown(d),
         NEW c \in Containers, Still \/ Starts(c) \/ Halts(c)
  PROVE  PlaceInv'
  BY EndPlace

\* Blue-green: everything but the record.
LEMMA BlueGreenPlace ==
  ASSUME WorldInv, NEW d \in Deploys, BlueGreen(d), ~BgUpdate(d)
  PROVE  PlaceInv'
<1>0. /\ TypeInv /\ TypeOK /\ New(d) \in Containers /\ ctx[d].old \in Containers \cup {Nil}
      /\ pc[d] = "bg_drain" => ctx[d].old \in Containers
  BY KnownAt DEF OldSteps
<1>1. CASE BgStart(d)
  BY <1>0, <1>1, BgStartMoves, MadePlace, LastPlace DEF FailsToStart, InFlight
<1>2. CASE BgHealth(d)
  <2>1. \E to \in {"bg_verify", "bg_discard"} : Plain(d, {to})
    BY <1>0, <1>2, BgHealthMoves DEF Plain, MovesTo
  <2> QED BY <1>0, <1>2, <2>1, BgHealthMoves, QuietPlace DEF QuietMove
<1>3. CASE BgVerify(d)
  <2>1. CASE Plain(d, {"done"})
    <3>1. Still \/ Halts(New(d))
      BY <1>0, <1>3, <2>1, BgVerifyMoves DEF ReadsOld
    <3>2. NoneAppears(d) /\ InFlight(d)
      BY <1>0, <1>3, <3>1, KnownAt, BgVerifyMoves, NoneAppearsStill, NoneAppearsAt
         DEF Halts, InFlight
    <3> QED BY <1>0, <2>1, <3>1, <3>2, LastPlace
  <2> QED BY <1>0, <1>3, <2>1, BgVerifyMoves, ReadPlace
<1>4. CASE BgDiscard(d)
  BY <1>0, <1>4, DiscardMoves, LastPlace DEF Discards, InFlight
<1>5. CASE BgSwitch(d)
  <2>1. pc[d] = "bg_switch"
    BY <1>5 DEF BgSwitch
  <2>2. Still /\ \E to \in {"bg_update", "bg_discard"} : Plain(d, {to})
    BY <1>0, <1>5, <2>1, RouteMoves
  <2> QED BY <2>1, <2>2, QuietPlace DEF QuietMove
<1>6. CASE BgDrain(d)
  <2>1. pc[d] = "bg_drain"
    BY <1>6 DEF BgDrain
  <2> QED BY <1>0, <1>6, <2>1, DrainMoves, LastPlace DEF Discards, InFlight
<1> QED BY <1>1, <1>2, <1>3, <1>4, <1>5, <1>6 DEF BlueGreen

\* Pods: everything but the record.
LEMMA PodPlace ==
  ASSUME WorldInv, NEW d \in Deploys, Pod(d), ~PodUpdate(d)
  PROVE  PlaceInv'
<1>0. /\ TypeInv /\ TypeOK /\ New(d) \in Containers /\ ctx[d].old \in Containers \cup {Nil}
      /\ pc[d] = "pod_drain" => ctx[d].old \in Containers
  BY KnownAt DEF OldSteps
<1>1. CASE PodDeploy(d)
  <2>1. CASE Plain(d, {"done"})
    BY <1>0, <1>1, <2>1, PodDeployMoves, LastPlace DEF FailsToStart, InFlight
  <2>2. CASE ~Plain(d, {"done"})
    <3>1. /\ pc[d] = "pod_deploy" /\ NoneAppears(d) /\ InFlight(d)
          /\ Starts(New(d)) /\ OthersStay(d) /\ SameTask(d) /\ SameApp /\ pc'[d] = "pod_health"
          /\ ctx'[d].new = ctx[d].new /\ ctx'[d].pod = New(d)
          /\ ctx'[d].rollbackFailed = ctx[d].rollbackFailed
      BY <1>0, <1>1, <2>2, PodDeployMoves DEF MovesTo, InFlight
    <3>2. /\ \A x \in Containers \ {New(d)} : runtime'[x] = runtime[x]
          /\ runtime'[New(d)].st = "running"
      BY <3>1 DEF Starts, OnlyAt
    <3>3. /\ OwnAt(d) /\ TaskAt(d) /\ Fallback(d) \in Containers \ {New(d)} /\ New(d) # Nil
      BY KnownAt DEF PlaceAt
    <3>4. OwnAt(d)'
      <4>1. runtime'[Fallback(d)] = runtime[Fallback(d)] /\ Running(New(d))'
        BY <3>2, <3>3 DEF Running
      <4> QED BY <3>1, <3>3, <4>1
              DEF OwnAt, Unmade, NewUp, NamesNew, NamesPod, HasPort, FallbackUp, FallbackMade,
                  PodSteps
    <3>5. OldAt(d)'
      BY <3>1 DEF OldAt, OldIsCid, OldIsPod, OldDown, Tier2, RecreateSteps, RollbackSteps
    <3>6. TaskAt(d)'
      <4>1. (IsPod(d)' <=> IsPod(d)) /\ (IsHttp(d)' <=> IsHttp(d))
        BY <3>1 DEF IsPod, IsHttp, SameTask
      <4> QED BY <3>1, <3>3, <4>1
              DEF TaskAt, Tier2, BlueGreenSteps, PodSteps, RecreateSteps, RollbackSteps, SameTask
    <3> QED BY <1>0, <3>1, <3>4, <3>5, <3>6, KeptParts DEF PlaceAt
  <2> QED BY <2>1, <2>2
<1>2. CASE PodHealth(d)
  BY <1>0, <1>2, PodHealthMoves, ReadPlace, QuietPlace DEF QuietMove
<1>3. CASE PodDiscard(d)
  BY <1>0, <1>3, DiscardMoves, LastPlace DEF Discards, InFlight
<1>4. CASE PodSwitch(d)
  <2>1. pc[d] = "pod_switch"
    BY <1>4 DEF PodSwitch
  <2>2. Still /\ \E to \in {"pod_update", "pod_discard"} : Plain(d, {to})
    BY <1>0, <1>4, <2>1, RouteMoves
  <2> QED BY <2>1, <2>2, QuietPlace DEF QuietMove
<1>5. CASE PodDrain(d)
  <2>1. pc[d] = "pod_drain"
    BY <1>5 DEF PodDrain
  <2> QED BY <1>0, <1>5, <2>1, DrainMoves, LastPlace DEF Discards, InFlight
<1> QED BY <1>1, <1>2, <1>3, <1>4, <1>5 DEF Pod

\* A recreate that rolls back.
LEMMA RollsBackPlace ==
  ASSUME WorldInv, NEW d \in Deploys, RollsBack(d), pc[d] \in {"rc_start", "rc_discard"},
         NoneAppears(d), Still \/ Starts(New(d)) \/ Halts(New(d))
  PROVE  PlaceInv'
<1>1. CASE AppIsDown(d)
  BY <1>1, KnownAt, LastPlace DEF InFlight
<1>2. CASE ~AppIsDown(d)
  <2>1. PICK to \in {"rb_restart", "t2_create"} :
          Plain(d, {to}) /\ (to = "t2_create" => ctx[d].oldTag # Nil)
    BY <1>2 DEF RollsBack
  <2> QED BY <2>1, QuietPlace DEF QuietMove, NewUp, Unmade
<1> QED BY <1>1, <1>2

\* Recreate: everything but the record.
LEMMA RecreatePlace ==
  ASSUME WorldInv, NEW d \in Deploys, Recreate(d), ~RcUpdate(d)
  PROVE  PlaceInv'
<1>0. /\ TypeInv /\ TypeOK /\ New(d) \in Containers
      /\ pc[d] \in {"rc_stop", "rc_remove_old"} => ctx[d].old \in Containers
  BY KnownAt DEF OldSteps
<1>1. CASE RcStop(d)
  <2>0. /\ pc[d] = "rc_stop" /\ NoneAppears(d) /\ InFlight(d) /\ ctx[d].old \in Containers
    BY <1>0, <1>1, RcStopMoves DEF InFlight
  <2>1. CASE Plain(d, {"done"}) /\ Still
    BY <2>0, <2>1, LastPlace
  <2>2. CASE ~(Plain(d, {"done"}) /\ Still)
    <3>1. /\ OthersStay(d) /\ SameTask(d) /\ SameApp /\ pc'[d] = "rc_unroute"
          /\ ctx'[d].new = ctx[d].new /\ ctx'[d].pod = ctx[d].pod
          /\ ctx'[d].old = ctx[d].old /\ ctx'[d].oldTag = ctx[d].oldTag
          /\ ctx'[d].rollbackFailed = ctx[d].rollbackFailed /\ Halts(ctx[d].old)
          /\ app'.cid = app.cid /\ app'.pod = app.pod /\ app'.tag = app.tag
      BY <1>0, <1>1, <2>2, RcStopMoves DEF Plain, MovesTo, SameCtx, SameApp
    <3>2. /\ \A x \in Containers \ {ctx[d].old} : runtime'[x] = runtime[x]
          /\ runtime'[ctx[d].old].st # "running"
      BY <3>1 DEF Halts, OnlyAt
    <3>3. /\ OwnAt(d) /\ OldAt(d) /\ TaskAt(d) /\ ctx[d].old = app.cid
          /\ New(d) # ctx[d].old /\ Fallback(d) # ctx[d].old
          /\ New(d) \in Containers /\ Fallback(d) \in Containers
      BY <2>0, KnownAt DEF PlaceAt, OldAt, OldIsCid, RecreateSteps, MayBeNamed
    <3>4. OwnAt(d)'
      <4>1. runtime'[Fallback(d)] = runtime[Fallback(d)] /\ runtime'[New(d)] = runtime[New(d)]
        BY <3>2, <3>3
      <4> QED BY <2>0, <3>1, <3>3, <4>1
              DEF OwnAt, Unmade, NewUp, NamesNew, NamesPod, HasPort, FallbackUp, FallbackMade,
                  PodSteps
    <3>5. OldAt(d)'
      <4>1. ~Running(ctx[d].old)'
        BY <3>1, <3>2 DEF Running
      <4> QED BY <3>1, <3>3, <4>1
              DEF OldAt, OldIsCid, OldIsPod, OldDown, Tier2, RecreateSteps, RollbackSteps
    <3>6. TaskAt(d)'
      <4>1. (IsPod(d)' <=> IsPod(d)) /\ (IsHttp(d)' <=> IsHttp(d))
        BY <3>1 DEF IsPod, IsHttp, SameTask
      <4> QED BY <2>0, <3>1, <3>3, <4>1
              DEF TaskAt, Tier2, BlueGreenSteps, PodSteps, RecreateSteps, RollbackSteps, SameTask
    <3> QED BY <2>0, <3>1, <3>4, <3>5, <3>6, KeptParts DEF PlaceAt
  <2> QED BY <2>1, <2>2
<1>2. CASE RcUnroute(d)
  BY <1>0, <1>2, RcUnrouteMoves, QuietPlace DEF QuietMove
<1>3. CASE RcStart(d)
  <2>1. CASE Makes(d, {"rc_health"})
    BY <1>0, <1>3, <2>1, RcStartMoves, MadePlace
  <2>2. CASE ~Makes(d, {"rc_health"})
    BY <1>0, <1>3, <2>2, RcStartMoves, RollsBackPlace DEF FailsToStart
  <2> QED BY <2>1, <2>2
<1>4. CASE RcHealth(d)
  <2>1. pc[d] = "rc_health"
    BY <1>4 DEF RcHealth
  <2>2. CASE Plain(d, {"rc_discard"}) /\ (Still \/ Halts(New(d)))
    BY <2>1, <2>2, QuietPlace DEF QuietMove, NewUp, Unmade
  <2>3. CASE Still /\ Plain(d, {IF IsWorker(d) THEN "rc_update" ELSE "rc_switch"})
    BY <2>1, <2>3, QuietPlace DEF QuietMove
  <2>4. CASE /\ Plain(d, {"rc_switch"}) /\ Halts(New(d)) /\ ~IsWorker(d)
             /\ Fails("exit") /\ Fails("inspect")
    <3>1. "rc_switch" \notin NewUp \cup Unmade
      BY <2>4 DEF NewUp, Unmade, Blind
    <3> QED BY <2>1, <2>4, <3>1, QuietPlace DEF QuietMove
  <2> QED BY <1>0, <1>4, <2>2, <2>3, <2>4, RcHealthMoves
<1>5. CASE RcDiscard(d)
  BY <1>0, <1>5, RcDiscardMoves, RollsBackPlace DEF Discards
<1>6. CASE RcSwitch(d)
  <2>1. pc[d] = "rc_switch"
    BY <1>6 DEF RcSwitch
  <2>2. Still /\ \E to \in {"rc_update", "rc_discard"} : Plain(d, {to})
    BY <1>0, <1>6, <2>1, RouteMoves
  <2> QED BY <2>1, <2>2, QuietPlace DEF QuietMove
<1>7. CASE RcRemoveOld(d)
  <2>1. pc[d] = "rc_remove_old"
    BY <1>7 DEF RcRemoveOld
  <2> QED BY <1>0, <1>7, <2>1, DrainMoves, LastPlace DEF Discards, InFlight
<1> QED BY <1>1, <1>2, <1>3, <1>4, <1>5, <1>6, <1>7 DEF Recreate

\* The record of a container, or of a pod.
LEMMA RecordPlace ==
  ASSUME WorldInv, NEW d \in Deploys, BgUpdate(d) \/ RcUpdate(d) \/ PodUpdate(d)
  PROVE  PlaceInv'
<1>0. /\ TypeOK /\ OwnAt(d) /\ OldAt(d) /\ TaskAt(d) /\ PortsInv /\ EntryInv
      /\ New(d) \in Containers /\ New(d)[1] = d /\ New(d) # Nil
      /\ pc[d] \in {"bg_update", "rc_update", "pod_update"}
  BY KnownAt DEF PlaceAt, BgUpdate, RcUpdate, PodUpdate
<1>1. \/ /\ pc[d] \in {"bg_update", "rc_update"}
         /\ Records(d, ctx[d].new, app.pod,
                    IF pc[d] = "bg_update" THEN "bg_drain" ELSE "rc_remove_old")
      \/ pc[d] = "pod_update" /\ Records(d, app.cid, ctx[d].pod, "pod_drain")
  BY <1>0, ContainerRecorded, PodRecorded
<1>2. /\ OthersStay(d) /\ SameTask(d) /\ Still
      /\ ctx'[d].new = ctx[d].new /\ ctx'[d].pod = ctx[d].pod /\ ctx'[d].old = ctx[d].old
      /\ ctx'[d].oldTag = ctx[d].oldTag /\ ctx'[d].rollbackFailed = ctx[d].rollbackFailed
      /\ app'.entry /\ app'.port = ctx[d].port
  BY <1>1 DEF Records, SameCtx
<1>3. /\ pc[d] \in {"bg_update", "rc_update"} => app'.cid = New(d) /\ app'.pod = app.pod
      /\ pc[d] = "pod_update" => app'.cid = app.cid /\ app'.pod = New(d)
      /\ pc[d] = "pod_update" => ctx[d].new = Nil /\ ctx[d].pod = New(d)
      /\ pc[d] # "pod_update" => ctx[d].new = New(d)
  BY <1>0, <1>1
     DEF Records, OwnAt, NamesNew, NamesPod, HasPort, NewUp, PodSteps
<1>8. ctx[d].port # 0 => IsHttp(d)
  <2>1. CASE pc[d] = "rc_update"
    BY <1>0, <2>1 DEF OwnAt
  <2>2. CASE pc[d] # "rc_update"
    <3>1. Running(New(d)) /\ ctx[d].port = runtime[New(d)].port
      BY <1>0, <2>2 DEF OwnAt, NewUp, HasPort
    <3> QED BY <1>0, <3>1 DEF PortsInv, Ported
  <2> QED BY <2>1, <2>2
<1>4. /\ New(d) \notin {app.cid, app.pod} /\ InFlight(d)
      /\ runtime[Fallback(d)] = Absent
  BY <1>0, KnownAt DEF MayBeNamed, InFlight, OwnAt, FallbackMade, FallbackUp
<1>5. EntryInv'
  <2>1. ctx[d].port # 0 => Ported(New(d)) /\ IsHttp(d) /\ Routed
    BY <1>0, <1>8 DEF Ported, TaskAt, BlueGreenSteps, PodSteps, RecreateSteps
  <2>2. IsHttp(d)' <=> IsHttp(d)
    BY <1>2 DEF IsHttp, SameTask
  <2>3. ASSUME app'.port # 0, app'.pod = Nil PROVE Ported(app.cid)'
    <3>1. app'.cid = New(d) /\ IsHttp(d)'
      BY <1>0, <1>2, <1>3, <2>1, <2>2, <2>3
    <3> QED BY <1>0, <3>1 DEF Ported
  <2> QED BY <1>0, <1>2, <1>3, <1>4, <2>1, <2>3 DEF EntryInv
<1>6. CASE pc'[d] = "done"
  BY <1>2, <1>4, <1>5, <1>6, DonePlace, NoneAppearsStill, PlaceParts
<1>7. CASE pc'[d] # "done"
  <2>1. /\ ctx[d].old # Nil
        /\ pc'[d] = IF pc[d] = "bg_update" THEN "bg_drain"
                    ELSE IF pc[d] = "rc_update" THEN "rc_remove_old" ELSE "pod_drain"
    BY <1>1, <1>7 DEF Records
  <2>2. OwnAt(d)'
    BY <1>0, <1>2, <1>3, <1>4, <2>1
       DEF OwnAt, Unmade, NewUp, NamesNew, NamesPod, HasPort, FallbackUp, FallbackMade,
           PodSteps, Still
  <2>3. OldAt(d)'
    <3>1. /\ pc[d] = "pod_update" => ctx[d].old = app.pod
          /\ pc[d] # "pod_update" => ctx[d].old = app.cid
      BY <1>0 DEF OldAt, OldIsCid, OldIsPod, RecreateSteps
    <3>2. /\ app.cid # Nil => app.cid # app.pod
      BY <1>0 DEF EntryInv
    <3>3. pc[d] = "rc_update" => ~Running(ctx[d].old)'
      BY <1>0, <1>2 DEF OldAt, OldDown, RecreateSteps, Running, Still
    <3> QED BY <1>0, <1>2, <1>3, <1>4, <2>1, <3>1, <3>2, <3>3
            DEF OldAt, OldIsCid, OldIsPod, OldDown, Tier2, RecreateSteps, RollbackSteps
  <2>4. TaskAt(d)'
    <3>1. (IsPod(d)' <=> IsPod(d)) /\ (IsHttp(d)' <=> IsHttp(d))
      BY <1>2 DEF IsPod, IsHttp, SameTask
    <3> QED BY <1>0, <1>2, <2>1, <3>1
            DEF TaskAt, Tier2, BlueGreenSteps, PodSteps, RecreateSteps, RollbackSteps, SameTask
  <2> QED BY <1>2, <1>4, <1>5, <2>2, <2>3, <2>4, NoneAppearsStill, PlaceParts DEF PlaceAt
<1> QED BY <1>6, <1>7

\* The three tiers.
LEMMA TiersPlace ==
  ASSUME WorldInv, NEW d \in Deploys, Rollback(d), ~T2Update(d)
  PROVE  PlaceInv'
<1>0. /\ TypeInv /\ TypeOK /\ New(d) \in Containers /\ Fallback(d) \in Containers
      /\ New(d) # Fallback(d) /\ Fallback(d) # Nil
      /\ OwnAt(d) /\ OldAt(d) /\ TaskAt(d)
      /\ pc[d] \in {"rb_restart", "rb_route"} => ctx[d].old \in Containers
  BY KnownAt DEF PlaceAt, OldSteps
<1>1. CASE RbRestart(d)
  <2>0. /\ pc[d] = "rb_restart" /\ NoneAppears(d) /\ InFlight(d) /\ ctx[d].old \in Containers
    BY <1>0, <1>1, RbRestartMoves DEF InFlight
  <2>1. CASE FallsBack(d) /\ Still
    <3>1. CASE AppIsDown(d)
      BY <2>0, <2>1, <3>1, LastPlace
    <3>2. CASE Plain(d, {"t2_create"}) /\ ctx[d].oldTag # Nil
      BY <2>0, <2>1, <3>2, QuietPlace DEF QuietMove
    <3> QED BY <2>1, <3>1, <3>2 DEF FallsBack
  <2>2. CASE Starts(ctx[d].old) /\ Plain(d, {"done"})
    BY <2>0, <2>2, LastPlace
  <2>3. CASE Starts(ctx[d].old) /\ Plain(d, {"rb_route"}) /\ Routed
    <3>1. /\ OthersStay(d) /\ SameTask(d) /\ SameApp /\ pc'[d] = "rb_route"
          /\ ctx'[d].new = ctx[d].new /\ ctx'[d].pod = ctx[d].pod
          /\ ctx'[d].old = ctx[d].old /\ ctx'[d].oldTag = ctx[d].oldTag
          /\ ctx'[d].rollbackFailed = ctx[d].rollbackFailed
          /\ app'.cid = app.cid /\ app'.pod = app.pod /\ app'.tag = app.tag
      BY <2>3 DEF Plain, MovesTo, SameCtx, SameApp
    <3>2. /\ \A x \in Containers \ {ctx[d].old} : runtime'[x] = runtime[x]
          /\ runtime'[ctx[d].old].st = "running"
      BY <2>3 DEF Starts, OnlyAt
    <3>3. ctx[d].old = app.cid /\ Fallback(d) # ctx[d].old
      BY <1>0, <2>0, KnownAt DEF OldAt, OldIsCid, RollbackSteps, MayBeNamed
    <3>4. OwnAt(d)'
      <4>1. runtime'[Fallback(d)] = runtime[Fallback(d)]
        BY <1>0, <3>2, <3>3
      <4> QED BY <1>0, <2>0, <3>1, <4>1
              DEF OwnAt, Unmade, NewUp, NamesNew, NamesPod, HasPort, FallbackUp, FallbackMade,
                  PodSteps
    <3>5. OldAt(d)'
      <4>1. Running(ctx[d].old)'
        BY <2>0, <3>1, <3>2, NilFresh DEF Running
      <4> QED BY <3>1, <3>3, <4>1
              DEF OldAt, OldIsCid, OldIsPod, OldDown, Tier2, RecreateSteps, RollbackSteps
    <3>6. TaskAt(d)'
      <4>1. (IsPod(d)' <=> IsPod(d)) /\ (IsHttp(d)' <=> IsHttp(d))
        BY <3>1 DEF IsPod, IsHttp, SameTask
      <4> QED BY <1>0, <2>0, <2>3, <3>1, <4>1
              DEF TaskAt, Tier2, BlueGreenSteps, PodSteps, RecreateSteps, RollbackSteps, SameTask
    <3> QED BY <2>0, <2>3, <3>1, <3>4, <3>5, <3>6, KeptParts DEF PlaceAt
  <2> QED BY <1>0, <1>1, <2>1, <2>2, <2>3, RbRestartMoves
<1>2. CASE RbRoute(d)
  BY <1>0, <1>2, RbRouteMoves, LastPlace, NoneAppearsStill DEF InFlight
<1>3. CASE T2Create(d)
  <2>0. pc[d] = "t2_create" /\ NoneAppears(d) /\ InFlight(d)
    BY <1>0, <1>3, T2CreateMoves DEF InFlight
  <2>1. CASE FailsToStart(Fallback(d)) /\ AppIsDown(d)
    BY <1>0, <2>0, <2>1, LastPlace DEF FailsToStart
  <2>2. CASE Starts(Fallback(d)) /\ Plain(d, {"t2_health"})
    <3>1. /\ OthersStay(d) /\ SameTask(d) /\ SameApp /\ pc'[d] = "t2_health"
          /\ ctx'[d].new = ctx[d].new /\ ctx'[d].pod = ctx[d].pod
          /\ ctx'[d].old = ctx[d].old /\ ctx'[d].oldTag = ctx[d].oldTag
          /\ ctx'[d].rollbackFailed = ctx[d].rollbackFailed
          /\ app'.cid = app.cid /\ app'.pod = app.pod /\ app'.tag = app.tag
      BY <2>2 DEF Plain, MovesTo, SameCtx, SameApp
    <3>2. /\ \A x \in Containers \ {Fallback(d)} : runtime'[x] = runtime[x]
          /\ runtime'[Fallback(d)].st = "running"
      BY <2>2 DEF Starts, OnlyAt
    <3>3. ctx[d].old = app.cid /\ Fallback(d) # ctx[d].old
      BY <1>0, <2>0, KnownAt DEF OldAt, OldIsCid, RollbackSteps, MayBeNamed
    <3>4. OwnAt(d)'
      <4>1. Running(Fallback(d))'
        BY <1>0, <3>2 DEF Running
      <4> QED BY <3>1, <4>1
              DEF OwnAt, Unmade, NewUp, NamesNew, NamesPod, HasPort, FallbackUp, FallbackMade,
                  PodSteps
    <3>5. OldAt(d)'
      <4>1. ~Running(ctx[d].old)'
        BY <1>0, <2>0, <3>1, <3>2, <3>3, KnownAt DEF Running, OldAt, OldDown, Tier2
      <4> QED BY <3>1, <3>3, <4>1
              DEF OldAt, OldIsCid, OldIsPod, OldDown, Tier2, RecreateSteps, RollbackSteps
    <3>6. TaskAt(d)'
      <4>1. (IsPod(d)' <=> IsPod(d)) /\ (IsHttp(d)' <=> IsHttp(d))
        BY <3>1 DEF IsPod, IsHttp, SameTask
      <4> QED BY <1>0, <2>0, <3>1, <4>1
              DEF TaskAt, Tier2, BlueGreenSteps, PodSteps, RecreateSteps, RollbackSteps, SameTask
    <3> QED BY <1>0, <2>0, <2>2, <3>1, <3>4, <3>5, <3>6, KeptParts DEF PlaceAt
  <2> QED BY <1>0, <1>3, <2>1, <2>2, T2CreateMoves
<1>4. CASE T2Health(d)
  <2>1. /\ pc[d] = "t2_health" /\ Still
        /\ \E to \in {"t2_discard", "t2_route", "t2_update"} : Plain(d, {to})
    BY <1>0, <1>4, T2HealthMoves
  <2> QED BY <2>1, QuietPlace DEF QuietMove
<1>5. CASE T2Route(d)
  BY <1>0, <1>5, T2RouteMoves, QuietPlace DEF QuietMove
<1>6. CASE T2Discard(d)
  BY <1>0, <1>6, T2DiscardMoves, LastPlace DEF Discards, InFlight
<1> QED BY <1>1, <1>2, <1>3, <1>4, <1>5, <1>6 DEF Rollback

\* The record of the fallback container.
LEMMA FallbackPlace ==
  ASSUME WorldInv, NEW d \in Deploys, T2Update(d)
  PROVE  PlaceInv'
<1>0. /\ TypeOK /\ OwnAt(d) /\ PortsInv /\ EntryInv
      /\ Fallback(d) \in Containers /\ Fallback(d)[1] = d /\ Fallback(d) # New(d)
      /\ app.cid \in Containers \cup {Nil} /\ Nil \notin Containers
  BY KnownAt DEF PlaceAt
<1>1. /\ pc[d] = "t2_update" /\ Still /\ OthersStay(d) /\ SameTask(d) /\ pc'[d] = "done"
      /\ app'.entry = app.entry /\ app'.pod = app.pod
  BY <1>0, T2UpdateMoves DEF MovesTo
<1>2. InFlight(d) /\ Fallback(d) \notin {app.cid, app.pod}
  BY <1>1, KnownAt DEF InFlight, MayBeNamed
<1>3. CASE app.entry
  <2>1. app'.cid = Fallback(d) /\ app'.port = runtime[Fallback(d)].port
    BY <1>0, <1>3, T2UpdateMoves
  <2>2. runtime[Fallback(d)].port # 0 => Routed
    BY <1>0, <1>1 DEF OwnAt, FallbackUp, PortsInv, Ported
  <2>3. Routed => Ported(app.cid)'
    BY <1>0, <2>1 DEF Ported
  <2>4. EntryInv'
    BY <1>0, <1>1, <1>2, <1>3, <2>1, <2>2, <2>3 DEF EntryInv
  <2> QED BY <1>1, <1>2, <2>4, DonePlace, NoneAppearsStill, PlaceParts
<1>4. CASE ~app.entry
  <2>1. SameApp
    BY <1>0, <1>1, <1>4, T2UpdateMoves DEF SameApp
  <2> QED BY <1>1, <1>2, <2>1, DonePlace, NoneAppearsStill, KeptParts
<1> QED BY <1>3, <1>4

\* A call that takes effect starts or ends one container.
LEMMA EffectAtOne ==
  ASSUME WorldInv, NEW d \in Deploys, Effect(d)
  PROVE  Still \/ \E c \in Containers : Starts(c) \/ Halts(c)
<1>1. /\ New(d) \in Containers /\ Fallback(d) \in Containers
      /\ pc[d] \in OldSteps => ctx[d].old \in Containers
      /\ ctx[d].new # Nil => ctx[d].new \in Containers
      /\ pc[d] = "timeout_cleanup" => ctx[d].new # Nil
  BY KnownAt DEF PlaceAt, OwnAt
<1> QED BY <1>1 DEF Effect, OldSteps

\* The steps inside the timeout are those of a deploy in flight.
LEMMA TimedInFlight ==
  ASSUME NEW d \in Deploys, pc[d] \in DeadlineSteps
  PROVE  InFlight(d)
  BY ConstantsAssumption
     DEF InFlight, TimedSteps, BlueGreenSteps, PodSteps, RecreateSteps, RollbackSteps

\* The timeout, and what it removes.
LEMMA TimeoutPlace ==
  ASSUME WorldInv, NEW d \in Deploys, Timeout(d) \/ TimeoutCleanup(d)
  PROVE  PlaceInv'
<1>0. TypeInv /\ ctx[d].new \in {Nil, New(d)} /\ New(d) \in Containers /\ PlaceAt(d)
  BY KnownAt
<1>1. CASE TimeoutCleanup(d)
  <2>1. pc[d] = "timeout_cleanup" /\ InFlight(d) /\ ctx[d].new = New(d)
    BY <1>0, <1>1, CleanupMoves DEF InFlight, PlaceAt, OwnAt
  <2>2. New(d) # Nil
    BY <1>0, NilFresh
  <2> QED BY <1>0, <1>1, <2>1, <2>2, CleanupMoves, LastPlace DEF Discards
<1>2. CASE Timeout(d)
  <2>1. /\ InFlight(d) /\ NoneAppears(d) /\ pc[d] # "done"
        /\ Still \/ \E c \in Containers : Starts(c) \/ Halts(c)
    BY <1>0, <1>2, TimeoutMoves, EffectAtOne, TimedInFlight DEF InFlight
  <2>2. CASE Plain(d, {"done"})
    BY <2>1, <2>2, EndPlace
  <2>3. CASE ~Plain(d, {"done"})
    <3>1. /\ OthersStay(d) /\ SameTask(d) /\ SameApp /\ pc'[d] = "timeout_cleanup"
          /\ ctx'[d].new = New(d) /\ ctx'[d].rollbackFailed = ctx[d].rollbackFailed
      BY <1>0, <1>2, <2>3, TimeoutMoves DEF Plain, MovesTo, SameCtx
    <3>2. OwnAt(d)'
      BY <3>1 DEF OwnAt, Unmade, NewUp, NamesNew, NamesPod, HasPort, FallbackUp, FallbackMade,
                  PodSteps
    <3>3. OldAt(d)'
      BY <3>1 DEF OldAt, OldIsCid, OldIsPod, OldDown, Tier2, RecreateSteps, RollbackSteps
    <3>4. TaskAt(d)'
      BY <1>0, <2>1, <3>1
         DEF PlaceAt, InFlight, TaskAt, Tier2, BlueGreenSteps, PodSteps, RecreateSteps,
             RollbackSteps, SameTask
    <3> QED BY <2>1, <3>1, <3>2, <3>3, <3>4, KeptParts DEF PlaceAt
  <2> QED BY <2>2, <2>3
<1> QED BY <1>1, <1>2

\* Every step of a task.
LEMMA TaskPlace ==
  ASSUME WorldInv, NEW d \in Deploys, Task(d)
  PROVE  PlaceInv'
<1>1. CASE BgUpdate(d) \/ PodUpdate(d) \/ RcUpdate(d)
  BY <1>1, RecordPlace
<1>2. CASE T2Update(d)
  BY <1>2, FallbackPlace
<1>3. CASE ~(BgUpdate(d) \/ PodUpdate(d) \/ RcUpdate(d) \/ T2Update(d))
  BY <1>3, SharedPlace, BlueGreenPlace, PodPlace, RecreatePlace, TiersPlace, TimeoutPlace
     DEF Task
<1> QED BY <1>1, <1>2, <1>3

\* An accepted deploy starts from nothing.
LEMMA RequestPlace ==
  ASSUME WorldInv, Request
  PROVE  PlaceInv'
<1>1. PICK d \in Deploys, t \in Tags, k \in Kinds, s \in Strategies :
        HandleDeploy(d, t, k, s)
  BY DEF Request
<1>2. /\ pc[d] = "idle" /\ pc' = [pc EXCEPT ![d] = "accepted"]
      /\ ctx' = [ctx EXCEPT ![d] = NewContext(t, k, s)]
      /\ runtime' = runtime /\ app' = app
      /\ TypeOK /\ PlaceAt(d) /\ PortsInv /\ EntryInv
      /\ app.cid \in Containers \cup {Nil} /\ New(d) # app.cid
      /\ New(d) \in Containers /\ Fallback(d) \in Containers
  BY <1>1, KnownAt DEF HandleDeploy, MayBeNamed
<1>3. /\ \A e \in Deploys \ {d} : pc'[e] = pc[e] /\ ctx'[e] = ctx[e]
      /\ pc'[d] = "accepted" /\ ctx'[d] = NewContext(t, k, s)
  BY <1>2 DEF TypeOK
<1>4. runtime[New(d)] = Absent /\ runtime[Fallback(d)] = Absent
  BY <1>2 DEF PlaceAt, OwnAt, Unmade, FallbackMade, FallbackUp
<1>5. PlaceAt(d)'
  <2>1. /\ ctx'[d].new = Nil /\ ctx'[d].pod = Nil /\ ~ctx'[d].rollbackFailed
        /\ ctx'[d].tag = t /\ t # Nil
    BY <1>3, NilFresh DEF NewContext
  <2>2. OwnAt(d)'
    BY <1>2, <1>3, <1>4, <2>1
       DEF OwnAt, Unmade, NewUp, NamesNew, NamesPod, HasPort, FallbackUp, FallbackMade, PodSteps
  <2>3. OldAt(d)'
    BY <1>3 DEF OldAt, OldIsCid, OldIsPod, OldDown, Tier2, RecreateSteps, RollbackSteps
  <2>4. TaskAt(d)'
    BY <1>3, <2>1 DEF TaskAt, Tier2, BlueGreenSteps, PodSteps, RecreateSteps, RollbackSteps
  <2> QED BY <2>2, <2>3, <2>4 DEF PlaceAt
<1>6. \A e \in Deploys \ {d} : PlaceAt(e)'
  <2> SUFFICES ASSUME NEW e \in Deploys \ {d} PROVE PlaceAt(e)'
    OBVIOUS
  <2>1. PlaceAt(e) /\ pc'[e] = pc[e] /\ ctx'[e] = ctx[e] /\ app' = app /\ runtime' = runtime
    BY <1>2, <1>3 DEF WorldInv, PlaceInv
  <2>2. OwnAt(e)'
    BY <2>1 DEF PlaceAt, OwnAt, Running, IsHttp
  <2>3. OldAt(e)'
    BY <2>1 DEF PlaceAt, OldAt, Running
  <2>4. TaskAt(e)'
    BY <2>1 DEF PlaceAt, TaskAt, IsPod, IsHttp
  <2> QED BY <2>2, <2>3, <2>4 DEF PlaceAt
<1>7. \A x \in Containers : x # New(d) => (Ported(x)' <=> Ported(x))
  BY <1>3, ContainerNames DEF Ported, IsHttp
<1>8. PortsInv'
  <2>1. \A x \in Containers : Running(x)' <=> Running(x)
    BY <1>2 DEF Running
  <2>2. ~Running(New(d))
    BY <1>4 DEF Running, Absent
  <2> QED BY <1>2, <1>7, <2>1, <2>2 DEF PortsInv
<1>9. EntryInv'
  <2>1. app.cid # Nil => \A x \in Containers : x = app.cid => (Ported(x)' <=> Ported(x))
    BY <1>2, <1>7
  <2>2. app'.cid # Nil => (Ported(app.cid)' <=> Ported(app.cid))
    BY <1>2, <2>1
  <2> QED BY <1>2, <2>2 DEF EntryInv
<1> QED BY <1>5, <1>6, <1>8, <1>9 DEF PlaceInv

\* At the start there is nothing.
LEMMA InitPlace == Init => PlaceInv
<1> SUFFICES ASSUME Init PROVE PlaceInv
  OBVIOUS
<1>1. /\ \A c \in Containers : runtime[c] = Absent
      /\ app = NoApp
      /\ \A d \in Deploys : pc[d] = "idle" /\ ctx[d] = NewContext(Nil, "http", "blue-green")
  BY DEF Init
<1>2. PortsInv /\ EntryInv
  BY <1>1 DEF PortsInv, EntryInv, NoApp, Running, Absent
<1>3. ASSUME NEW d \in Deploys PROVE PlaceAt(d)
  <2>1. /\ runtime[New(d)] = Absent /\ runtime[Fallback(d)] = Absent
        /\ ctx[d].new = Nil /\ ctx[d].pod = Nil /\ ~ctx[d].rollbackFailed
    BY <1>1, OwnContainers DEF NewContext
  <2>2. OwnAt(d)
    BY <1>1, <2>1
       DEF OwnAt, Unmade, NewUp, NamesNew, NamesPod, HasPort, FallbackUp, FallbackMade, PodSteps
  <2>3. OldAt(d)
    BY <1>1 DEF OldAt, OldIsCid, OldIsPod, OldDown, Tier2, RecreateSteps, RollbackSteps
  <2>4. TaskAt(d)
    BY <1>1, <2>1 DEF TaskAt, Tier2, BlueGreenSteps, PodSteps, RecreateSteps, RollbackSteps
  <2> QED BY <2>2, <2>3, <2>4 DEF PlaceAt
<1> QED BY <1>2, <1>3 DEF PlaceInv

\* Every step keeps everything in its place.
LEMMA NextWorld ==
  ASSUME WorldInv, [Next]_vars
  PROVE  WorldInv'
<1>1. TypeInv' /\ OneDeployAtATime' /\ HealthInv'
  BY NextType, NextExclusive, NextHealth DEF WorldInv, TypeInv
<1>2. CASE UNCHANGED vars
  <2>1. pc' = pc /\ ctx' = ctx /\ app' = app /\ runtime' = runtime
    BY <1>2 DEF vars
  <2>2. PlaceInv
    BY DEF WorldInv
  <2>3. PortsInv' /\ EntryInv'
    BY <2>1, <2>2 DEF PlaceInv, PortsInv, EntryInv, Running, Ported, IsHttp
  <2>4. ASSUME NEW d \in Deploys PROVE PlaceAt(d)'
    <3>1. PlaceAt(d)
      BY <2>2 DEF PlaceInv
    <3>2. OwnAt(d)'
      BY <2>1, <3>1 DEF PlaceAt, OwnAt, Running, IsHttp
    <3>3. OldAt(d)'
      BY <2>1, <3>1 DEF PlaceAt, OldAt, Running
    <3>4. TaskAt(d)'
      BY <2>1, <3>1 DEF PlaceAt, TaskAt, IsPod, IsHttp
    <3> QED BY <3>2, <3>3, <3>4 DEF PlaceAt
  <2> QED BY <1>1, <2>3, <2>4 DEF WorldInv, PlaceInv
<1>3. CASE Next
  BY <1>1, <1>3, RequestPlace, TaskPlace DEF Next, WorldInv
<1> QED BY <1>2, <1>3

\* Where everything is, in every state a deploy can reach.
LEMMA WorldInvariant == Spec => []WorldInv
<1>1. Init => WorldInv
  <2>1. Init => OneDeployAtATime
    BY DEF Init, OneDeployAtATime, InFlight
  <2> QED BY <2>1, InitType, InitHealth, InitPlace DEF WorldInv
<1>2. WorldInv /\ [Next]_vars => WorldInv'
  BY NextWorld
<1> QED BY <1>1, <1>2, PTL DEF Spec

-----------------------------------------------------------------------------
(* Which steps leave the containers of the app state alone.                *)

NamedStay == \A c \in {app.cid, app.pod} \ {Nil} : runtime'[c] = runtime[c]

\* A deploy that is not recorded yet does, when it touches its own containers.
LEMMA OwnNamedStay ==
  ASSUME WorldInv, NEW d \in Deploys, pc[d] \notin MayBeNamed,
         Still \/ OnlyAt(New(d)) \/ OnlyAt(Fallback(d))
  PROVE  NamedStay
  BY KnownAt DEF NamedStay, Still, OnlyAt

\* So does one that removes what it replaced.
LEMMA DrainNamedStay ==
  ASSUME WorldInv, NEW d \in Deploys, pc[d] \in {"bg_drain", "pod_drain", "rc_remove_old"},
         Still \/ OnlyAt(ctx[d].old)
  PROVE  NamedStay
  BY KnownAt DEF NamedStay, Still, OnlyAt, PlaceAt, OldAt

\* Stopping and restarting the old container leaves the others alone.
LEMMA OldNamedStay ==
  ASSUME WorldInv, NEW d \in Deploys, pc[d] \in {"rc_stop", "rb_restart"}, OnlyAt(ctx[d].old)
  PROVE  /\ ctx[d].old = app.cid /\ app.cid \in Containers /\ app.cid # app.pod
         /\ app.pod # Nil => runtime'[app.pod] = runtime[app.pod]
<1>1. ctx[d].old = app.cid /\ app.cid \in Containers
  BY KnownAt DEF PlaceAt, OldAt, OldIsCid, RecreateSteps, RollbackSteps, OldSteps
<1>2. app.cid # app.pod /\ (app.pod # Nil => app.pod \in Containers)
  BY <1>1, KnownAt DEF EntryInv
<1> QED BY <1>1, <1>2 DEF OnlyAt

\* What a removal or a failed start can have touched.
LEMMA TouchesOne ==
  ASSUME NEW c, Discards(c) \/ FailsToStart(c) \/ Starts(c) \/ Halts(c)
  PROVE  Still \/ OnlyAt(c)
  BY DEF Discards, FailsToStart, Starts, Halts

\* All the other steps of a task touch at most a container of their own, before it is
\* recorded.
LEMMA TaskTouches ==
  ASSUME TypeInv, NEW d \in Deploys, Task(d), ~Still,
         ~(\/ RcStop(d) \/ RbRestart(d) \/ Timeout(d) \/ TimeoutCleanup(d)
           \/ BgDrain(d) \/ PodDrain(d) \/ RcRemoveOld(d))
  PROVE  pc[d] \notin MayBeNamed /\ (OnlyAt(New(d)) \/ OnlyAt(Fallback(d)))
<1>0. TypeOK
  BY DEF TypeInv
<1>1. CASE BlueGreen(d)
  BY <1>0, <1>1, BgStartMoves, BgHealthMoves, BgVerifyMoves, DiscardMoves, RouteMoves,
     ContainerRecorded, TouchesOne
     DEF BlueGreen, MayBeNamed, Makes, Records, ReadsOld
<1>2. CASE Pod(d)
  BY <1>0, <1>2, PodDeployMoves, PodHealthMoves, DiscardMoves, RouteMoves, PodRecorded, TouchesOne
     DEF Pod, MayBeNamed, Records
<1>3. CASE Recreate(d)
  BY <1>0, <1>3, RcUnrouteMoves, RcStartMoves, RcHealthMoves, RcDiscardMoves, RouteMoves,
     ContainerRecorded, TouchesOne
     DEF Recreate, MayBeNamed, Makes, Records
<1>4. CASE Rollback(d)
  BY <1>0, <1>4, RbRouteMoves, T2CreateMoves, T2HealthMoves, T2RouteMoves, T2UpdateMoves,
     T2DiscardMoves, TouchesOne
     DEF Rollback, MayBeNamed
<1>5. CASE LookUpApp(d) \/ PullImages(d) \/ Configure(d)
  BY <1>0, <1>5, LookUpMoves, ConfigureMoves
<1> QED BY <1>1, <1>2, <1>3, <1>4, <1>5 DEF Task

\* The steps of the task that touch an old container that the app state names, and those
\* of the deadline, are the only ones that touch a container of the app state.
LEMMA TaskNamedStay ==
  ASSUME WorldInv, NEW d \in Deploys, Task(d),
         ~(RcStop(d) \/ RbRestart(d) \/ Timeout(d) \/ TimeoutCleanup(d))
  PROVE  NamedStay
<1>0. TypeInv /\ TypeOK
  BY KnownAt
<1>1. CASE Still
  BY <1>1 DEF NamedStay, Still
<1>2. CASE BgDrain(d) \/ PodDrain(d) \/ RcRemoveOld(d)
  BY <1>0, <1>2, DrainMoves, TouchesOne, DrainNamedStay
<1>3. CASE ~Still /\ ~(BgDrain(d) \/ PodDrain(d) \/ RcRemoveOld(d))
  BY <1>0, <1>3, TaskTouches, OwnNamedStay
<1> QED BY <1>1, <1>2, <1>3

\* The call of a step that touches no old container.
LEMMA EffectNamedStay ==
  ASSUME WorldInv, NEW d \in Deploys, Effect(d), pc[d] \notin {"rc_stop", "rb_restart"},
         pc[d] = "timeout_cleanup" => New(d) \notin {app.cid, app.pod}
  PROVE  NamedStay
<1>1. CASE pc[d] = "timeout_cleanup"
  <2>1. ctx[d].new = New(d) /\ New(d) # Nil
    BY <1>1, KnownAt DEF PlaceAt, OwnAt
  <2>2. OnlyAt(New(d))
    BY <1>1, <2>1 DEF Effect, Halts
  <2> QED BY <1>1, <2>2, KnownAt DEF NamedStay, OnlyAt
<1>2. CASE pc[d] \in {"bg_drain", "pod_drain", "rc_remove_old"}
  BY <1>2, DrainNamedStay DEF Effect, Halts
<1>3. CASE pc[d] \notin {"timeout_cleanup", "bg_drain", "pod_drain", "rc_remove_old"}
  <2>1. CASE Still
    BY <2>1 DEF Still, NamedStay
  <2>2. CASE ~Still
    <3>1. pc[d] \notin MayBeNamed /\ (OnlyAt(New(d)) \/ OnlyAt(Fallback(d)))
      BY <1>3, <2>2 DEF Effect, MayBeNamed, Starts, Halts
    <3> QED BY <3>1, OwnNamedStay
  <2> QED BY <2>1, <2>2
<1> QED BY <1>1, <1>2, <1>3

-----------------------------------------------------------------------------
(* What every step of a task has in common.                                *)

\* A task moves alone; only a record changes what the app state names, and only the
\* deadline leads to its cleanup.
LEMMA TaskMoves ==
  ASSUME TypeInv, NEW d \in Deploys, Task(d)
  PROVE  /\ InFlight(d) /\ OthersStay(d) /\ SameTask(d)
         /\ SameApp \/ BgUpdate(d) \/ RcUpdate(d) \/ PodUpdate(d) \/ T2Update(d)
         /\ Timeout(d) \/ pc'[d] # "timeout_cleanup"
         /\ pc'[d] # "idle"
         /\ pc'[d] = "t2_update" => T2Health(d) \/ T2Route(d)
<1>0. TypeOK
  BY DEF TypeInv
<1>1. \A to : Plain(d, to) => OthersStay(d) /\ SameTask(d) /\ SameApp /\ pc'[d] \in to
  BY DEF Plain, MovesTo
<1>2. RollsBack(d) \/ FallsBack(d) =>
        OthersStay(d) /\ SameTask(d) /\ SameApp /\ pc'[d] \notin {"idle", "timeout_cleanup", "t2_update"}
  BY <1>1 DEF RollsBack, FallsBack, AppIsDown, SameCtx
<1>3. AppIsDown(d) =>
        OthersStay(d) /\ SameTask(d) /\ SameApp /\ pc'[d] \notin {"idle", "timeout_cleanup", "t2_update"}
  BY DEF AppIsDown, SameCtx
<1>4. CASE LookUpApp(d) \/ PullImages(d) \/ Configure(d)
  BY <1>0, <1>1, <1>4, LookUpMoves, ConfigureMoves DEF RecreateBegins, InFlight
<1>5. CASE BgStart(d) \/ BgHealth(d) \/ BgVerify(d)
  BY <1>0, <1>1, <1>5, BgStartMoves, BgHealthMoves, BgVerifyMoves
     DEF Makes, ReadsOld, MovesTo, InFlight
<1>6. CASE BgSwitch(d) \/ PodSwitch(d) \/ RcSwitch(d)
  <2>1. PICK to \in Steps \ {"idle", "timeout_cleanup", "t2_update"} : Plain(d, {to}) /\ InFlight(d)
    BY <1>0, <1>6, RouteMoves
       DEF InFlight, Steps, TimedSteps, BlueGreenSteps, PodSteps, RecreateSteps
  <2> QED BY <1>1, <2>1
<1>12. CASE BgDiscard(d) \/ PodDiscard(d) \/ BgDrain(d) \/ PodDrain(d) \/ RcRemoveOld(d)
  BY <1>1, <1>12, DiscardMoves, DrainMoves DEF InFlight
<1>7. CASE BgUpdate(d) \/ RcUpdate(d) \/ PodUpdate(d)
  BY <1>0, <1>7, ContainerRecorded, PodRecorded DEF Records, SameCtx, InFlight
<1>8. CASE PodDeploy(d)
  BY <1>1, <1>8, PodDeployMoves DEF MovesTo, InFlight
<1>13. CASE PodHealth(d)
  <2>1. /\ pc[d] = "pod_health"
        /\ Plain(d, {"pod_discard"})
           \/ ReadsOld(d, app.pod, {IF IsHttp(d) THEN "pod_switch" ELSE "pod_update"})
    BY <1>0, <1>13, PodHealthMoves
  <2>2. \A to : ReadsOld(d, app.pod, to) =>
          OthersStay(d) /\ SameTask(d) /\ SameApp /\ pc'[d] \in to
    BY DEF ReadsOld, MovesTo
  <2>3. OthersStay(d) /\ SameTask(d) /\ SameApp /\ pc'[d] \notin {"idle", "timeout_cleanup", "t2_update"}
    BY <1>1, <2>1, <2>2
  <2> QED BY <2>1, <2>3 DEF InFlight
<1>9. CASE RcStop(d) \/ RcUnroute(d) \/ RcDiscard(d)
  BY <1>0, <1>1, <1>2, <1>9, RcStopMoves, RcUnrouteMoves, RcDiscardMoves DEF InFlight
<1>14. CASE RcStart(d)
  BY <1>2, <1>14, RcStartMoves DEF Makes, MovesTo, InFlight
<1>15. CASE RcHealth(d)
  <2>1. /\ pc[d] = "rc_health"
        /\ \/ Plain(d, {IF IsWorker(d) THEN "rc_update" ELSE "rc_switch"})
           \/ Plain(d, {"rc_discard"})
           \/ Plain(d, {"rc_switch"})
    BY <1>0, <1>15, RcHealthMoves
  <2> QED BY <1>1, <2>1 DEF InFlight
<1>10. CASE Rollback(d)
  BY <1>0, <1>1, <1>2, <1>3, <1>10, RbRestartMoves, RbRouteMoves, T2CreateMoves, T2HealthMoves,
     T2RouteMoves, T2UpdateMoves, T2DiscardMoves DEF Rollback, MovesTo, InFlight
<1>11. CASE Timeout(d) \/ TimeoutCleanup(d)
  BY <1>0, <1>1, <1>11, TimeoutMoves, CleanupMoves, TimedInFlight DEF InFlight
<1> QED BY <1>4, <1>5, <1>6, <1>7, <1>8, <1>9, <1>10, <1>11, <1>12, <1>13,
          <1>14, <1>15
       DEF Task, BlueGreen, Pod, Recreate

\* While a task is in flight, the others are not started or done.
LEMMA Alone ==
  ASSUME OneDeployAtATime, NEW d \in Deploys, InFlight(d), OthersStay(d),
         NEW e \in Deploys \ {d}
  PROVE  pc[e] \in {"idle", "done"} /\ pc'[e] = pc[e] /\ ctx'[e] = ctx[e]
  BY DEF OneDeployAtATime, InFlight, OthersStay

-----------------------------------------------------------------------------
(* The cleanup of the deadline.                                            *)

\* The deadline does not fire while a deploy removes the old container.
CleanDeadline == DeadlineSteps \cap {"bg_drain", "rc_remove_old"} = {}

\* Then what it removes is not what the app state names.
CleanInv == \A d \in Deploys : pc[d] = "timeout_cleanup" => New(d) \notin {app.cid, app.pod}

\* Before the record, nothing of the deploy is named.
LEMMA TaskClean ==
  ASSUME CleanDeadline, WorldInv, CleanInv, NEW d \in Deploys, Task(d)
  PROVE  CleanInv'
<1>1. /\ InFlight(d) /\ OthersStay(d) /\ TypeInv /\ PlaceAt(d)
      /\ Timeout(d) \/ pc'[d] # "timeout_cleanup"
  BY KnownAt, TaskMoves
<1>2. \A e \in Deploys \ {d} : pc'[e] # "timeout_cleanup"
  BY <1>1, Alone DEF WorldInv
<1>3. CASE pc'[d] # "timeout_cleanup"
  BY <1>2, <1>3 DEF CleanInv
<1>4. CASE Timeout(d) /\ pc'[d] = "timeout_cleanup"
  <2>1. SameApp /\ ctx[d].new # Nil /\ pc[d] \in DeadlineSteps
    BY <1>1, <1>4, TimeoutMoves DEF Plain, MovesTo
  <2>2. pc[d] \notin MayBeNamed
    BY <1>1, <2>1, ConstantsAssumption
       DEF CleanDeadline, MayBeNamed, PlaceAt, OwnAt, PodSteps, TimedSteps, BlueGreenSteps,
           RecreateSteps, RollbackSteps
  <2>3. New(d) \notin {app'.cid, app'.pod}
    BY <2>1, <2>2, KnownAt DEF SameApp
  <2> QED BY <1>2, <2>3 DEF CleanInv
<1> QED BY <1>1, <1>3, <1>4

\* Every step.
LEMMA NextClean ==
  ASSUME CleanDeadline, WorldInv, CleanInv, [Next]_vars
  PROVE  CleanInv'
<1>1. CASE UNCHANGED vars
  BY <1>1 DEF vars, CleanInv
<1>2. CASE Request
  <2>1. app' = app /\ \A e \in Deploys : pc'[e] = pc[e] \/ pc'[e] = "accepted"
    BY <1>2, KnownAt DEF Request, HandleDeploy, TypeOK
  <2> QED BY <2>1 DEF CleanInv
<1>3. CASE \E d \in Deploys : Task(d)
  BY <1>3, TaskClean
<1> QED BY <1>1, <1>2, <1>3 DEF Next

-----------------------------------------------------------------------------
(* What the app state names runs between deploys.                          *)

\* The deadline does not fire from the stop of the old container in a recreate until it
\* runs again or is replaced, nor while a deploy removes the old container; and no
\* container exits unseen because the look at it fails.
Settles ==
  /\ DeadlineSteps \cap (OldDown \cup {"rc_stop", "bg_drain"}) = {}
  /\ ~Blind

\* The steps at which a recreate has stopped what the app state names.
Waits == OldDown \ {"rc_remove_old"}

\* What the app state names runs, or is what a recreate has stopped.
RunsInv ==
  ~RollbackFailed =>
    \A c \in {app.cid, app.pod} \ {Nil} :
      Running(c) \/ \E d \in Deploys : pc[d] \in Waits /\ c = ctx[d].old
TidyRunsInv == CleanInv /\ RunsInv

\* No rollback had failed before a step after which none has.
LEMMA NoneHadFailed ==
  ASSUME WorldInv, NEW d \in Deploys, InFlight(d), OthersStay(d), ~RollbackFailed'
  PROVE  ~RollbackFailed
<1>1. ~ctx[d].rollbackFailed
  BY KnownAt DEF PlaceAt, TaskAt, InFlight
<1> QED BY <1>1 DEF RollbackFailed, OthersStay

\* What a step does not touch runs on, unless only the task of the step waits for it.
LEMMA RunsOn ==
  ASSUME WorldInv, RunsInv, NEW d \in Deploys, InFlight(d), OthersStay(d), ~RollbackFailed',
         NEW c \in {app.cid, app.pod} \ {Nil}, runtime'[c] = runtime[c],
         ~(pc[d] \in Waits /\ c = ctx[d].old)
  PROVE  Running(c) /\ Running(c)'
<1>1. ~RollbackFailed
  BY NoneHadFailed
<1>2. \A e \in Deploys : pc[e] \in Waits => e = d
  BY DEF WorldInv, OneDeployAtATime, InFlight, Waits, OldDown, Tier2, RecreateSteps
<1>3. Running(c)
  BY <1>1, <1>2 DEF RunsInv
<1> QED BY <1>3 DEF Running

\* A step that leaves the containers of the app state alone, and goes on waiting.
LEMMA RunsKept ==
  ASSUME WorldInv, RunsInv, NEW d \in Deploys, InFlight(d), OthersStay(d), SameApp, NamedStay,
         pc[d] \in Waits =>
           \/ pc'[d] \in Waits /\ ctx'[d].old = ctx[d].old
           \/ ctx'[d].rollbackFailed
  PROVE  RunsInv'
<1> SUFFICES ASSUME ~RollbackFailed', NEW c \in {app.cid, app.pod} \ {Nil}
             PROVE  Running(c)' \/ \E e \in Deploys : pc'[e] \in Waits /\ c = ctx'[e].old
  BY DEF RunsInv, SameApp
<1>1. ~ctx'[d].rollbackFailed /\ runtime'[c] = runtime[c]
  BY DEF RollbackFailed, NamedStay
<1>2. CASE pc[d] \in Waits /\ c = ctx[d].old
  BY <1>1, <1>2
<1>3. CASE ~(pc[d] \in Waits /\ c = ctx[d].old)
  BY <1>1, <1>3, RunsOn
<1> QED BY <1>2, <1>3

\* A recreate and its rollback wait until the new, the old or a fallback container is
\* recorded or runs, or the app is given up.
LEMMA WaitsOn ==
  ASSUME TypeInv, NEW d \in Deploys, Task(d), pc[d] \in Waits,
         ~(RcUpdate(d) \/ RbRestart(d) \/ T2Update(d) \/ Timeout(d))
  PROVE  \/ pc'[d] \in Waits /\ ctx'[d].old = ctx[d].old
         \/ ctx'[d].rollbackFailed
<1>0. TypeOK
  BY DEF TypeInv
<1>1. \A to : Plain(d, to) => pc'[d] \in to /\ ctx'[d].old = ctx[d].old
  BY DEF Plain, MovesTo, SameCtx
<1>2. RollsBack(d) \/ AppIsDown(d) =>
        \/ pc'[d] \in Waits /\ ctx'[d].old = ctx[d].old
        \/ ctx'[d].rollbackFailed
  BY <1>1 DEF RollsBack, AppIsDown, Waits, OldDown, Tier2
<1>3. RcUnroute(d) \/ RcStart(d) \/ RcHealth(d) \/ RcDiscard(d) \/ RcSwitch(d)
      \/ T2Create(d) \/ T2Health(d) \/ T2Route(d) \/ T2Discard(d)
  <2>1. pc[d] \in {"rc_unroute", "rc_start", "rc_health", "rc_discard", "rc_switch", "rc_update",
                   "rb_restart"} \cup Tier2
    BY DEF Waits, OldDown, RecreateSteps
  <2> QED BY <2>1
          DEF Task, Tier2, LookUpApp, PullImages, Configure, BlueGreen, BgStart, BgHealth, BgVerify,
              BgDiscard, BgSwitch, BgUpdate, BgDrain, Pod, PodDeploy, PodHealth, PodDiscard,
              PodSwitch, PodUpdate, PodDrain, Recreate, RcStop, RcRemoveOld, Rollback, RbRoute,
              TimeoutCleanup
<1>4. CASE RcUnroute(d) \/ T2Route(d)
  BY <1>0, <1>1, <1>4, RcUnrouteMoves, T2RouteMoves DEF Waits, OldDown, Tier2, RecreateSteps
<1>5. CASE RcStart(d) \/ RcDiscard(d)
  BY <1>2, <1>5, RcStartMoves, RcDiscardMoves
     DEF Makes, MovesTo, Waits, OldDown, RecreateSteps
<1>6. CASE RcHealth(d) \/ RcSwitch(d)
  <2>1. pc'[d] \in {"rc_update", "rc_switch", "rc_discard"} /\ ctx'[d].old = ctx[d].old
    <3>1. CASE RcHealth(d)
      BY <1>0, <1>1, <3>1, RcHealthMoves
    <3>2. CASE RcSwitch(d)
      <4>1. pc[d] = "rc_switch"
        BY <3>2 DEF RcSwitch
      <4> QED BY <1>0, <1>1, <3>2, <4>1, RouteMoves
    <3> QED BY <1>6, <3>1, <3>2
  <2> QED BY <2>1 DEF Waits, OldDown, RecreateSteps
<1>7. CASE T2Create(d) \/ T2Discard(d)
  BY <1>1, <1>2, <1>7, T2CreateMoves, T2DiscardMoves DEF Waits, OldDown, Tier2
<1>8. CASE T2Health(d)
  <2>1. pc'[d] \in {"t2_discard", "t2_route", "t2_update"} /\ ctx'[d].old = ctx[d].old
    BY <1>0, <1>1, <1>8, T2HealthMoves
  <2> QED BY <2>1 DEF Waits, OldDown, Tier2
<1> QED BY <1>3, <1>4, <1>5, <1>6, <1>7, <1>8

\* The record of a new container or pod: it runs, and what stays recorded does.
LEMMA RecordRuns ==
  ASSUME ~Blind, WorldInv, RunsInv, NEW d \in Deploys, BgUpdate(d) \/ RcUpdate(d) \/ PodUpdate(d)
  PROVE  RunsInv'
<1>1. /\ TypeOK /\ TypeInv /\ PlaceAt(d) /\ New(d) \in Containers /\ InFlight(d) /\ OthersStay(d)
      /\ app.cid # Nil => app.cid # app.pod
  BY KnownAt, TaskMoves DEF EntryInv, Task, BlueGreen, Pod, Recreate
<1>2. \/ /\ pc[d] \in {"bg_update", "rc_update"} /\ ctx[d].new = New(d) /\ ctx[d].old = app.cid
         /\ Records(d, ctx[d].new, app.pod,
                    IF pc[d] = "bg_update" THEN "bg_drain" ELSE "rc_remove_old")
      \/ /\ pc[d] = "pod_update" /\ ctx[d].pod = New(d)
         /\ Records(d, app.cid, ctx[d].pod, "pod_drain")
  BY <1>1, ContainerRecorded, PodRecorded
     DEF PlaceAt, OwnAt, OldAt, NamesNew, NamesPod, OldIsCid, PodSteps, RecreateSteps
<1>3. Running(New(d)) /\ Still
  BY <1>1, <1>2 DEF PlaceAt, OwnAt, NewUp, Records, PodSteps, RecreateSteps
<1>4. Running(New(d))'
  BY <1>3 DEF Running, Still
<1> SUFFICES ASSUME ~RollbackFailed', NEW c \in {app'.cid, app'.pod} \ {Nil}, c # New(d)
             PROVE  Running(c)'
  BY <1>4 DEF RunsInv
<1>5. c \in {app.cid, app.pod} /\ (pc[d] \in Waits => c # ctx[d].old)
  BY <1>1, <1>2 DEF Records, Waits, OldDown, RecreateSteps, Tier2
<1> QED BY <1>1, <1>3, <1>5, RunsOn DEF Still

\* The record of the fallback container: it runs, and the app has an entry.
LEMMA FallbackRuns ==
  ASSUME WorldInv, RunsInv, NEW d \in Deploys, T2Update(d)
  PROVE  RunsInv'
<1>1. /\ TypeOK /\ TypeInv /\ PlaceAt(d) /\ InFlight(d) /\ OthersStay(d)
      /\ EntryInv
  BY KnownAt, TaskMoves DEF Task, Rollback
<1>2. pc[d] = "t2_update" /\ Still
  BY <1>1, T2UpdateMoves
<1>3. app.tag # Nil /\ ctx[d].old = app.cid /\ Running(Fallback(d))
  BY <1>1, <1>2 DEF PlaceAt, OwnAt, OldAt, TaskAt, Tier2, RollbackSteps, OldIsCid, FallbackUp
<1>4. app.entry
  BY <1>1, <1>3 DEF EntryInv
<1>5. app'.cid = Fallback(d) /\ app'.pod = app.pod
  BY <1>1, <1>4, T2UpdateMoves
<1>6. Running(Fallback(d))'
  BY <1>2, <1>3 DEF Running, Still
<1> SUFFICES ASSUME ~RollbackFailed', NEW c \in {app'.cid, app'.pod} \ {Nil}, c # Fallback(d)
             PROVE  Running(c)'
  BY <1>6 DEF RunsInv
<1>7. c \in {app.cid, app.pod} /\ c # ctx[d].old
  BY <1>1, <1>3, <1>5 DEF EntryInv
<1> QED BY <1>1, <1>2, <1>7, RunsOn DEF Still

\* The old container is stopped, and started again.
LEMMA OldRuns ==
  ASSUME WorldInv, RunsInv, NEW d \in Deploys, RcStop(d) \/ RbRestart(d)
  PROVE  RunsInv'
<1>1. /\ TypeOK /\ TypeInv /\ InFlight(d) /\ OthersStay(d) /\ SameApp
      /\ app.cid \in Containers \cup {Nil}
  BY KnownAt, TaskMoves
     DEF Task, Recreate, Rollback, RcStop, RbRestart, BgUpdate, RcUpdate, PodUpdate, T2Update
<1>2. CASE \/ RcStop(d) /\ Plain(d, {"done"}) /\ Still
           \/ RbRestart(d) /\ FallsBack(d) /\ Still
  <2>1. NamedStay
    BY <1>2 DEF NamedStay, Still
  <2>2. pc[d] \in Waits =>
           \/ pc'[d] \in Waits /\ ctx'[d].old = ctx[d].old
           \/ ctx'[d].rollbackFailed
    BY <1>2 DEF RcStop, FallsBack, AppIsDown, Plain, MovesTo, SameCtx, Waits, OldDown, Tier2,
                RecreateSteps
  <2> QED BY <1>1, <2>1, <2>2, RunsKept
<1>3. CASE ~(\/ RcStop(d) /\ Plain(d, {"done"}) /\ Still
             \/ RbRestart(d) /\ FallsBack(d) /\ Still)
  <2>1. /\ pc[d] \in {"rc_stop", "rb_restart"}
        /\ \/ pc'[d] \in Waits /\ ctx'[d].old = ctx[d].old /\ Halts(ctx[d].old)
           \/ Starts(ctx[d].old)
    BY <1>1, <1>3, RcStopMoves, RbRestartMoves
       DEF Plain, MovesTo, SameCtx, Waits, OldDown, RecreateSteps
  <2>2. OnlyAt(ctx[d].old)
    BY <2>1 DEF Halts, Starts
  <2>3. /\ ctx[d].old = app.cid /\ app.cid \in Containers /\ app.cid # app.pod
        /\ app.pod # Nil => runtime'[app.pod] = runtime[app.pod]
    BY <2>1, <2>2, OldNamedStay
  <2>4. \/ pc'[d] \in Waits /\ ctx'[d].old = app.cid
        \/ Running(app.cid)'
    <3>1. \A x \in Containers : Starts(x) => Running(x)'
      BY NilFresh DEF Starts, Running
    <3>2. \A x \in Containers : x = app.cid /\ Running(x)' => Running(app.cid)'
      BY <1>1 DEF SameApp, Running
    <3> QED BY <2>1, <2>3, <3>1, <3>2
  <2> SUFFICES ASSUME ~RollbackFailed', NEW c \in {app.cid, app.pod} \ {Nil}
               PROVE  Running(c)' \/ \E e \in Deploys : pc'[e] \in Waits /\ c = ctx'[e].old
    BY <1>1 DEF RunsInv, SameApp
  <2>5. CASE c = app.cid
    BY <2>4, <2>5, <1>1 DEF SameApp, Running
  <2>6. CASE c # app.cid
    BY <1>1, <2>3, <2>6, RunsOn
  <2> QED BY <2>5, <2>6
<1> QED BY <1>2, <1>3

\* The deadline fires only where nothing is stopped, and its cleanup is clean.
LEMMA TimeoutRuns ==
  ASSUME Settles, WorldInv, TidyRunsInv, NEW d \in Deploys, Timeout(d) \/ TimeoutCleanup(d)
  PROVE  RunsInv'
<1>1. /\ TypeInv /\ PlaceAt(d) /\ InFlight(d) /\ OthersStay(d) /\ SameApp
      /\ CleanInv /\ RunsInv /\ New(d) # Nil
  BY KnownAt, TaskMoves, TimeoutMoves, CleanupMoves
     DEF Task, TidyRunsInv, Plain, MovesTo
<1>2. pc[d] \notin Waits \cup {"rc_stop", "rb_restart"}
  <2>1. TimeoutCleanup(d) => pc[d] = "timeout_cleanup"
    BY <1>1, CleanupMoves
  <2>2. Timeout(d) => pc[d] \in DeadlineSteps
    BY <1>1, TimeoutMoves
  <2> QED BY <2>1, <2>2 DEF Settles, Waits, OldDown, Tier2, RecreateSteps, RollbackSteps
<1>3. NamedStay
  <2>1. pc[d] = "timeout_cleanup" => New(d) \notin {app.cid, app.pod}
    BY <1>1 DEF CleanInv
  <2>2. Still \/ Effect(d)
    BY <1>1, TimeoutMoves, DiscardEffect DEF TimeoutCleanup
  <2>3. Still => NamedStay
    BY DEF Still, NamedStay
  <2> QED BY <1>2, <2>1, <2>2, <2>3, EffectNamedStay
<1> QED BY <1>1, <1>2, <1>3, RunsKept

\* Every step of a task.
LEMMA TaskRuns ==
  ASSUME Settles, WorldInv, TidyRunsInv, NEW d \in Deploys, Task(d)
  PROVE  RunsInv'
<1>1. CASE BgUpdate(d) \/ RcUpdate(d) \/ PodUpdate(d) \/ T2Update(d) \/ RcStop(d) \/ RbRestart(d)
           \/ Timeout(d) \/ TimeoutCleanup(d)
  BY <1>1, RecordRuns, FallbackRuns, OldRuns, TimeoutRuns DEF TidyRunsInv, Settles
<1>2. CASE ~(BgUpdate(d) \/ RcUpdate(d) \/ PodUpdate(d) \/ T2Update(d) \/ RcStop(d)
             \/ RbRestart(d) \/ Timeout(d) \/ TimeoutCleanup(d))
  <2>1. TypeInv /\ RunsInv
    BY KnownAt DEF TidyRunsInv
  <2>2. InFlight(d) /\ OthersStay(d) /\ SameApp /\ NamedStay
    BY <1>2, <2>1, TaskMoves, TaskNamedStay
  <2>3. pc[d] \in Waits =>
           \/ pc'[d] \in Waits /\ ctx'[d].old = ctx[d].old
           \/ ctx'[d].rollbackFailed
    BY <1>2, <2>1, WaitsOn
  <2> QED BY <2>1, <2>2, <2>3, RunsKept
<1> QED BY <1>1, <1>2

\* Every step.
LEMMA NextRuns ==
  ASSUME Settles, WorldInv, TidyRunsInv, [Next]_vars
  PROVE  TidyRunsInv'
<1>1. CleanDeadline
  BY DEF Settles, CleanDeadline, OldDown, RecreateSteps
<1>2. CleanInv'
  BY <1>1, NextClean DEF TidyRunsInv
<1>3. CASE UNCHANGED vars
  <2>1. pc' = pc /\ ctx' = ctx /\ app' = app /\ runtime' = runtime /\ RunsInv
    BY <1>3 DEF vars, TidyRunsInv
  <2>2. RunsInv'
    BY <2>1 DEF RunsInv, RollbackFailed, Running
  <2> QED BY <1>2, <2>2 DEF TidyRunsInv
<1>4. CASE Request
  <2>1. PICK d \in Deploys : /\ pc[d] = "idle" /\ pc' = [pc EXCEPT ![d] = "accepted"]
                             /\ \E t, k, s : ctx' = [ctx EXCEPT ![d] = NewContext(t, k, s)]
                             /\ app' = app /\ runtime' = runtime
    BY <1>4 DEF Request, HandleDeploy
  <2>2. TypeOK /\ TaskAt(d) /\ RunsInv
    BY KnownAt DEF PlaceAt, TidyRunsInv
  <2>3. pc[d] \notin Waits
    BY <2>1 DEF Waits, OldDown, Tier2, RecreateSteps
  <2>4. ~ctx[d].rollbackFailed
    BY <2>1, <2>2 DEF TaskAt
  <2>5. \A e \in Deploys \ {d} : pc'[e] = pc[e] /\ ctx'[e] = ctx[e]
    BY <2>1, <2>2 DEF TypeOK
  <2>6. \A c : Running(c)' <=> Running(c)
    BY <2>1 DEF Running
  <2>7. RollbackFailed => RollbackFailed'
    BY <2>4, <2>5 DEF RollbackFailed
  <2>8. \A c : (\E e \in Deploys : pc[e] \in Waits /\ c = ctx[e].old)
               => \E e \in Deploys : pc'[e] \in Waits /\ c = ctx'[e].old
    BY <2>3, <2>5
  <2>9. RunsInv'
    BY <2>1, <2>2, <2>6, <2>7, <2>8 DEF RunsInv
  <2> QED BY <1>2, <2>9 DEF TidyRunsInv
<1>5. CASE \E d \in Deploys : Task(d)
  BY <1>2, <1>5, TaskRuns DEF TidyRunsInv
<1> QED BY <1>3, <1>4, <1>5 DEF Next

\* Between deploys the container and the pod of the app state run, whatever calls
\* failed and wherever else the deadline fired, unless a rollback failed: tier 1 starts
\* the container that a recreate stopped, or tier 2 records the one that replaces it.
\* One combination of failures is excluded (Settles): a container that exits after its
\* probe while the look whether it still runs fails is recorded (deploy.rs unwrap_or(true)).
THEOREM RecordedRunsHolds ==
  ASSUME Settles
  PROVE  Spec => []RecordedRuns
<1>1. Init => TidyRunsInv
  <2> SUFFICES ASSUME Init PROVE TidyRunsInv
    OBVIOUS
  <2>1. app.cid = Nil /\ app.pod = Nil /\ \A d \in Deploys : pc[d] = "idle"
    BY DEF Init, NoApp
  <2> QED BY <2>1 DEF TidyRunsInv, CleanInv, RunsInv
<1>2. WorldInv /\ TidyRunsInv /\ [Next]_vars => TidyRunsInv'
  BY NextRuns
<1>3. WorldInv /\ TidyRunsInv => RecordedRuns
  <2> SUFFICES ASSUME WorldInv, TidyRunsInv, lock = Nil, ~RollbackFailed,
                      NEW c \in {app.cid, app.pod} \ {Nil}
               PROVE  Running(c)
    BY DEF RecordedRuns
  <2>1. \A d \in Deploys : pc[d] \notin Waits
    BY NilFresh
       DEF WorldInv, OneDeployAtATime, InFlight, Waits, OldDown, Tier2, RecreateSteps
  <2> QED BY <2>1 DEF TidyRunsInv, RunsInv
<1> QED BY <1>1, <1>2, <1>3, WorldInvariant, PTL DEF Spec

-----------------------------------------------------------------------------
(* Nothing keeps running that nobody will stop.                            *)

\* Removals succeed, and so do the looks at a container; the deadline does not fire while
\* a container is made whose name the context does not have yet, nor while a deploy stops
\* the container it replaced.
Collects ==
  /\ FailingCalls \cap {"remove", "inspect"} = {}
  /\ DeadlineSteps \cap ({"bg_start", "bg_drain", "rc_start"} \cup PodSteps \cup Tier2) = {}

\* The steps that stop what a deploy replaced.
Drains == {"bg_drain", "pod_drain"}

\* Every running container has an owner.
OwnedInv ==
  /\ \A c \in Containers : Running(c) =>
       \/ c \in {app.cid, app.pod}
       \/ InFlight(c[1])
       \/ \E d \in Deploys : pc[d] \in Drains /\ c = ctx[d].old
  /\ \A d \in Deploys :
       /\ pc[d] \in RollbackSteps => ~Running(New(d))
       /\ pc[d] = "timeout_cleanup" => ~Running(Fallback(d))

\* What a step leaves of the containers of its deploy.
OwnEnds(d) ==
  /\ pc'[d] = "done" =>
       \A c \in {New(d), Fallback(d)} : runtime'[c].st = "running" => c \in {app'.cid, app'.pod}
  /\ pc'[d] \in RollbackSteps => runtime'[New(d)].st # "running"
  /\ pc'[d] = "timeout_cleanup" => runtime'[Fallback(d)].st # "running"

\* What it leaves of the others.
OldEnds(d) ==
  \A c \in Containers :
    c[1] # d /\ runtime'[c].st = "running" =>
      \/ c \in {app'.cid, app'.pod}
      \/ pc'[d] \in Drains /\ c = ctx'[d].old

\* The two together.
LEMMA OwnedParts ==
  ASSUME WorldInv, NEW d \in Deploys, InFlight(d), OthersStay(d), pc'[d] # "idle",
         OwnEnds(d), OldEnds(d)
  PROVE  OwnedInv'
<1>1. \A c \in Containers : Running(c)' <=> runtime'[c].st = "running"
  BY NilFresh DEF Running
<1>2. \A e \in Deploys : New(e) \in Containers /\ Fallback(e) \in Containers
  BY OwnContainers
<1>3. \A e \in Deploys \ {d} : pc'[e] \in {"idle", "done"}
  BY Alone DEF WorldInv
<1>4. \A c \in Containers : c[1] = d => c \in {New(d), Fallback(d)}
  BY ContainerNames DEF New, Fallback, Containers
<1>5. ASSUME NEW c \in Containers, Running(c)'
      PROVE  \/ c \in {app'.cid, app'.pod}
             \/ InFlight(c[1])'
             \/ \E e \in Deploys : pc'[e] \in Drains /\ c = ctx'[e].old
  <2>1. CASE c[1] = d
    BY <1>1, <1>4, <1>5, <2>1 DEF OwnEnds, InFlight
  <2>2. CASE c[1] # d
    BY <1>1, <1>5, <2>2 DEF OldEnds
  <2> QED BY <2>1, <2>2
<1>6. ASSUME NEW e \in Deploys
      PROVE  /\ pc'[e] \in RollbackSteps => ~Running(New(e))'
             /\ pc'[e] = "timeout_cleanup" => ~Running(Fallback(e))'
  BY <1>1, <1>2, <1>3 DEF OwnEnds, RollbackSteps
<1> QED BY <1>5, <1>6 DEF OwnedInv

\* Who owned a container of another deploy before the step.
LEMMA OwnedBefore ==
  ASSUME WorldInv, OwnedInv, NEW d \in Deploys, InFlight(d),
         NEW c \in Containers, c[1] # d, runtime[c].st = "running"
  PROVE  c \in {app.cid, app.pod} \/ (pc[d] \in Drains /\ c = ctx[d].old)
<1>1. \A e \in Deploys \ {d} : pc[e] \in {"idle", "done"}
  BY DEF WorldInv, OneDeployAtATime, InFlight
<1>2. c[1] \in Deploys /\ Running(c)
  BY ContainerNames, NilFresh DEF Running
<1> QED BY <1>1, <1>2 DEF OwnedInv, Drains, InFlight

\* A step that touches at most a container of its own, and drains nothing.
LEMMA OldKept ==
  ASSUME WorldInv, OwnedInv, NEW d \in Deploys, InFlight(d), SameApp, pc[d] \notin Drains,
         \/ Still \/ OnlyAt(New(d)) \/ OnlyAt(Fallback(d))
         \/ ctx[d].old = app.cid /\ OnlyAt(ctx[d].old)
         \/ Halts(ctx[d].old)
  PROVE  OldEnds(d)
<1>1. New(d)[1] = d /\ Fallback(d)[1] = d
  BY KnownAt
<1>2. ASSUME NEW c \in Containers, c[1] # d, runtime'[c].st = "running"
      PROVE  c \in {app'.cid, app'.pod}
  <2>1. c = app.cid \/ runtime'[c] = runtime[c]
    BY <1>1, <1>2 DEF Still, OnlyAt, Halts
  <2> QED BY <1>2, <2>1, OwnedBefore DEF SameApp
<1> QED BY <1>2 DEF OldEnds

\* None of the containers of the deploy runs.
LEMMA NoneOwned ==
  ASSUME NEW d \in Deploys, runtime'[New(d)].st # "running", runtime'[Fallback(d)].st # "running"
  PROVE  OwnEnds(d)
  BY DEF OwnEnds

\* What is known of the containers of a deploy before the step.
LEMMA OwnBefore ==
  ASSUME WorldInv, OwnedInv, NEW d \in Deploys
  PROVE  /\ pc[d] \in Unmade \cup RollbackSteps => runtime[New(d)].st # "running"
         /\ pc[d] \notin FallbackMade => runtime[Fallback(d)].st # "running"
         /\ pc[d] = "timeout_cleanup" => runtime[Fallback(d)].st # "running"
<1>1. /\ PlaceAt(d) /\ New(d) \in Containers /\ Fallback(d) \in Containers
      /\ Nil \notin Containers
  BY KnownAt
<1>2. Absent.st # "running"
  BY DEF Absent
<1>3. pc[d] \in Unmade => runtime[New(d)].st # "running"
  BY <1>1, <1>2 DEF PlaceAt, OwnAt
<1>4. pc[d] \notin FallbackMade => runtime[Fallback(d)].st # "running"
  BY <1>1, <1>2 DEF PlaceAt, OwnAt
<1>5. /\ pc[d] \in RollbackSteps => runtime[New(d)].st # "running"
      /\ pc[d] = "timeout_cleanup" => runtime[Fallback(d)].st # "running"
  BY <1>1 DEF OwnedInv, Running
<1> QED BY <1>3, <1>4, <1>5

\* A container of the deploy that ended, or was not made; the other one is as it was.
LEMMA NewGone ==
  ASSUME WorldInv, NEW d \in Deploys,
         \/ Halts(New(d))
         \/ runtime[New(d)].st # "running" /\ (Still \/ OnlyAt(Fallback(d)))
  PROVE  runtime'[New(d)].st # "running"
  BY KnownAt DEF Halts, Still, OnlyAt

\* The same, of the fallback container.
LEMMA FallbackGone ==
  ASSUME WorldInv, NEW d \in Deploys,
         \/ Halts(Fallback(d))
         \/ runtime[Fallback(d)].st # "running" /\ (Still \/ OnlyAt(New(d)))
  PROVE  runtime'[Fallback(d)].st # "running"
  BY KnownAt DEF Halts, Still, OnlyAt

\* When a create that fails can be told from one that did not, it leaves nothing running,
\* and what is to be removed is.
LEMMA CollectedCalls ==
  ASSUME Collects, WorldInv, NEW d \in Deploys
  PROVE  /\ FailsToStart(New(d)) /\ runtime[New(d)].st # "running" =>
              runtime'[New(d)].st # "running" /\ (Still \/ OnlyAt(New(d)))
         /\ FailsToStart(Fallback(d)) /\ runtime[Fallback(d)].st # "running" =>
              runtime'[Fallback(d)].st # "running" /\ (Still \/ OnlyAt(Fallback(d)))
         /\ \A c : Discards(c) => Halts(c)
<1>1. ~Fails("inspect") /\ ~Fails("remove")
  BY DEF Collects, Fails
<1> QED BY <1>1 DEF FailsToStart, Discards, Halts, Still

\* Up to the record, what a deploy made runs only while the deploy does.
LEMMA BlueGreenEnds ==
  ASSUME Collects, WorldInv, OwnedInv, NEW d \in Deploys,
         \/ LookUpApp(d) \/ PullImages(d) \/ Configure(d)
         \/ BlueGreen(d) /\ ~BgUpdate(d) /\ ~BgDrain(d)
         \/ Pod(d) /\ ~PodUpdate(d) /\ ~PodDrain(d)
  PROVE  OwnEnds(d)
<1>0. TypeInv /\ TypeOK
  BY KnownAt
<1>1. \A to : Plain(d, to) => pc'[d] \in to
  BY DEF Plain, MovesTo
<1>2. pc'[d] \notin RollbackSteps \cup {"done", "timeout_cleanup"} => OwnEnds(d)
  BY DEF OwnEnds
<1>3. CASE LookUpApp(d) \/ PullImages(d) \/ Configure(d)
  <2>1. Still /\ pc[d] \in {"accepted", "pulling", "configuring"}
    BY <1>0, <1>3, LookUpMoves, ConfigureMoves
  <2>2. runtime[New(d)].st # "running" /\ runtime[Fallback(d)].st # "running"
    BY <2>1, OwnBefore DEF Unmade, FallbackMade, FallbackUp
  <2> QED BY <2>1, <2>2, NoneOwned DEF Still
<1>4. CASE BgStart(d) \/ PodDeploy(d)
  <2>1. CASE FailsToStart(New(d))
    <3>1. runtime[New(d)].st # "running" /\ runtime[Fallback(d)].st # "running"
      BY <1>4, OwnBefore DEF BgStart, PodDeploy, Unmade, FallbackMade, FallbackUp
    <3> QED BY <2>1, <3>1, CollectedCalls, FallbackGone, NoneOwned
  <2>2. CASE ~FailsToStart(New(d))
    BY <1>0, <1>2, <1>4, <2>2, BgStartMoves, PodDeployMoves DEF Makes, MovesTo, RollbackSteps
  <2> QED BY <2>1, <2>2
<1>5. CASE BgHealth(d) \/ BgSwitch(d) \/ PodSwitch(d)
  <2>1. pc'[d] \in {"bg_verify", "bg_discard", "bg_update", "pod_update", "pod_discard"}
    <3>1. CASE BgHealth(d)
      BY <1>0, <1>1, <3>1, BgHealthMoves
    <3>2. CASE BgSwitch(d) \/ PodSwitch(d)
      <4>1. pc[d] \in {"bg_switch", "pod_switch"}
        BY <3>2 DEF BgSwitch, PodSwitch
      <4> QED BY <1>0, <1>1, <3>2, <4>1, RouteMoves
    <3> QED BY <1>5, <3>1, <3>2
  <2> QED BY <1>2, <2>1 DEF RollbackSteps
<1>6. CASE BgVerify(d)
  <2>1. CASE Plain(d, {"done"})
    <3>1. Halts(New(d)) \/ pc'[d] # "done"
      <4>1. \A to : ReadsOld(d, app.cid, to) => pc'[d] \in to
        BY DEF ReadsOld, MovesTo
      <4>2. ReadsOld(d, app.cid, {IF IsWorker(d) THEN "bg_update" ELSE "bg_switch"}) =>
              pc'[d] # "done"
        BY <4>1
      <4> QED BY <1>0, <1>6, <4>2, BgVerifyMoves DEF Collects, Fails
    <3>2. runtime[Fallback(d)].st # "running"
      BY <1>6, OwnBefore DEF BgVerify, FallbackMade, FallbackUp
    <3>3. Halts(New(d)) => OnlyAt(New(d))
      BY DEF Halts
    <3> QED BY <1>1, <2>1, <3>1, <3>2, <3>3, NewGone, FallbackGone, NoneOwned
  <2>2. CASE ~Plain(d, {"done"})
    <3>1. pc'[d] \in {"bg_update", "bg_switch"}
      <4>1. \A to : ReadsOld(d, app.cid, to) => pc'[d] \in to
        BY DEF ReadsOld, MovesTo
      <4> QED BY <1>0, <1>6, <2>2, <4>1, BgVerifyMoves
    <3> QED BY <1>2, <3>1 DEF RollbackSteps
  <2> QED BY <2>1, <2>2
<1>7. CASE BgDiscard(d) \/ PodDiscard(d)
  <2>1. Halts(New(d)) /\ OnlyAt(New(d))
    BY <1>0, <1>7, DiscardMoves, CollectedCalls DEF Halts
  <2>2. runtime[Fallback(d)].st # "running"
    BY <1>7, OwnBefore DEF BgDiscard, PodDiscard, FallbackMade, FallbackUp
  <2> QED BY <2>1, <2>2, NewGone, FallbackGone, NoneOwned
<1>8. CASE PodHealth(d)
  <2>1. pc'[d] \in {"pod_switch", "pod_update", "pod_discard"}
    <3>1. \A to : ReadsOld(d, app.pod, to) => pc'[d] \in to
      BY DEF ReadsOld, MovesTo
    <3> QED BY <1>0, <1>1, <1>8, <3>1, PodHealthMoves
  <2> QED BY <1>2, <2>1 DEF RollbackSteps
<1> QED BY <1>3, <1>4, <1>5, <1>6, <1>7, <1>8 DEF BlueGreen, Pod

\* A recreate that fails has nothing of its own running when it rolls back.
LEMMA RecreateEnds ==
  ASSUME Collects, WorldInv, OwnedInv, NEW d \in Deploys,
         Recreate(d), ~RcUpdate(d), ~RcRemoveOld(d)
  PROVE  OwnEnds(d)
<1>0. TypeInv /\ TypeOK
  BY KnownAt
<1>1. \A to : Plain(d, to) => pc'[d] \in to
  BY DEF Plain, MovesTo
<1>2. pc'[d] \notin RollbackSteps \cup {"done", "timeout_cleanup"} => OwnEnds(d)
  BY DEF OwnEnds
<1>3. CASE RcStop(d)
  <2>1. CASE pc'[d] # "done"
    BY <1>0, <1>1, <1>2, <1>3, <2>1, RcStopMoves DEF RollbackSteps
  <2>2. CASE pc'[d] = "done"
    <3>1. Still /\ pc[d] = "rc_stop"
      BY <1>0, <1>1, <1>3, <2>2, RcStopMoves
    <3>2. runtime[New(d)].st # "running" /\ runtime[Fallback(d)].st # "running"
      BY <3>1, OwnBefore DEF Unmade, FallbackMade, FallbackUp
    <3> QED BY <3>1, <3>2, NoneOwned DEF Still
  <2> QED BY <2>1, <2>2
<1>4. CASE RcUnroute(d)
  BY <1>0, <1>1, <1>2, <1>4, RcUnrouteMoves DEF RollbackSteps
<1>5. CASE RcStart(d)
  <2>1. CASE FailsToStart(New(d))
    <3>1. runtime[New(d)].st # "running" /\ runtime[Fallback(d)].st # "running"
      BY <1>5, OwnBefore DEF RcStart, Unmade, FallbackMade, FallbackUp
    <3> QED BY <2>1, <3>1, CollectedCalls, FallbackGone, NoneOwned
  <2>2. CASE ~FailsToStart(New(d))
    BY <1>0, <1>2, <1>5, <2>2, RcStartMoves DEF Makes, MovesTo, RollbackSteps
  <2> QED BY <2>1, <2>2
<1>6. CASE RcDiscard(d)
  <2>1. Halts(New(d)) /\ OnlyAt(New(d))
    BY <1>0, <1>6, RcDiscardMoves, CollectedCalls DEF Halts
  <2>2. runtime[Fallback(d)].st # "running"
    BY <1>6, OwnBefore DEF RcDiscard, FallbackMade, FallbackUp
  <2> QED BY <2>1, <2>2, NewGone, FallbackGone, NoneOwned
<1>7. CASE RcHealth(d) \/ RcSwitch(d)
  <2>1. pc'[d] \in {"rc_update", "rc_switch", "rc_discard"}
    <3>1. CASE RcHealth(d)
      BY <1>0, <1>1, <3>1, RcHealthMoves
    <3>2. CASE RcSwitch(d)
      <4>1. pc[d] = "rc_switch"
        BY <3>2 DEF RcSwitch
      <4> QED BY <1>0, <1>1, <3>2, <4>1, RouteMoves
    <3> QED BY <1>7, <3>1, <3>2
  <2> QED BY <1>2, <2>1 DEF RollbackSteps
<1> QED BY <1>3, <1>4, <1>5, <1>6, <1>7 DEF Recreate

\* A rollback has only the fallback container running, until it is recorded or removed.
LEMMA RollbackEnds ==
  ASSUME Collects, WorldInv, OwnedInv, NEW d \in Deploys, Rollback(d), ~T2Update(d)
  PROVE  OwnEnds(d)
<1>0. TypeInv /\ TypeOK /\ New(d) # Fallback(d) /\ New(d) \in Containers /\ Fallback(d) \in Containers
  BY KnownAt
<1>1. pc[d] \in RollbackSteps
  BY DEF Rollback, RbRestart, RbRoute, T2Create, T2Health, T2Route, T2Update, T2Discard,
         RollbackSteps
<1>2. runtime[New(d)].st # "running"
  BY <1>1, OwnBefore
<1>3. \A to : Plain(d, to) => pc'[d] \in to
  BY DEF Plain, MovesTo
<1>4. pc'[d] \notin {"done", "timeout_cleanup"} /\ runtime'[New(d)].st # "running" => OwnEnds(d)
  BY DEF OwnEnds
<1>5. CASE RbRestart(d)
  <2>1. pc[d] = "rb_restart" /\ (Still \/ OnlyAt(ctx[d].old))
    BY <1>0, <1>5, RbRestartMoves DEF Starts
  <2>2. runtime[Fallback(d)].st # "running"
    BY <2>1, OwnBefore DEF FallbackMade, FallbackUp
  <2>3. ctx[d].old \notin {New(d), Fallback(d)}
    BY <2>1, KnownAt DEF PlaceAt, OldAt, OldIsCid, RollbackSteps, MayBeNamed
  <2> QED BY <1>0, <1>2, <2>1, <2>2, <2>3, NoneOwned DEF Still, OnlyAt
<1>6. CASE RbRoute(d)
  <2>1. Still /\ runtime[Fallback(d)].st # "running"
    BY <1>0, <1>6, RbRouteMoves, OwnBefore DEF FallbackMade, FallbackUp
  <2> QED BY <1>2, <2>1, NoneOwned DEF Still
<1>7. CASE T2Create(d)
  <2>1. CASE FailsToStart(Fallback(d))
    <3>1. runtime[Fallback(d)].st # "running"
      BY <1>7, OwnBefore DEF T2Create, FallbackMade, FallbackUp
    <3> QED BY <1>2, <2>1, <3>1, CollectedCalls, NewGone, NoneOwned
  <2>2. CASE ~FailsToStart(Fallback(d))
    BY <1>0, <1>2, <1>3, <1>4, <1>7, <2>2, T2CreateMoves DEF Starts, OnlyAt
  <2> QED BY <2>1, <2>2
<1>8. CASE T2Health(d)
  <2>1. Still /\ pc'[d] \in {"t2_discard", "t2_route", "t2_update"}
    BY <1>0, <1>3, <1>8, T2HealthMoves
  <2> QED BY <1>2, <1>4, <2>1 DEF Still
<1>9. CASE T2Route(d)
  BY <1>0, <1>2, <1>3, <1>4, <1>9, T2RouteMoves DEF Still
<1>10. CASE T2Discard(d)
  <2>1. Halts(Fallback(d)) /\ OnlyAt(Fallback(d))
    BY <1>0, <1>10, T2DiscardMoves, CollectedCalls DEF Halts
  <2> QED BY <1>2, <2>1, NewGone, FallbackGone, NoneOwned
<1> QED BY <1>5, <1>6, <1>7, <1>8, <1>9, <1>10 DEF Rollback

\* A deploy that removes what it replaced is recorded.
LEMMA DrainEnds ==
  ASSUME Collects, WorldInv, OwnedInv, NEW d \in Deploys,
         BgDrain(d) \/ PodDrain(d) \/ RcRemoveOld(d)
  PROVE  OwnEnds(d) /\ OldEnds(d)
<1>0. TypeInv /\ PlaceAt(d) /\ InFlight(d) /\ New(d) # Fallback(d) /\ Fallback(d) \in Containers
  BY KnownAt, TaskMoves DEF Task, BlueGreen, Pod, Recreate
<1>1. /\ pc[d] \in {"bg_drain", "pod_drain", "rc_remove_old"}
      /\ SameApp /\ pc'[d] = "done" /\ Halts(ctx[d].old)
  BY <1>0, DrainMoves, CollectedCalls DEF Plain, MovesTo
<1>2. New(d) \in {app'.cid, app'.pod}
  BY <1>0, <1>1 DEF PlaceAt, OldAt, SameApp
<1>3. runtime'[Fallback(d)].st # "running"
  <2>1. runtime[Fallback(d)].st # "running"
    BY <1>1, OwnBefore DEF FallbackMade, FallbackUp
  <2> QED BY <1>0, <1>1, <2>1 DEF Halts, OnlyAt
<1>4. OwnEnds(d)
  BY <1>1, <1>2, <1>3 DEF OwnEnds, RollbackSteps
<1>5. ASSUME NEW c \in Containers, c[1] # d, runtime'[c].st = "running"
      PROVE  c \in {app'.cid, app'.pod}
  <2>1. c # ctx[d].old /\ runtime[c].st = "running"
    BY <1>1, <1>5 DEF Halts, OnlyAt
  <2> QED BY <1>0, <1>1, <1>5, <2>1, OwnedBefore DEF SameApp
<1> QED BY <1>4, <1>5 DEF OldEnds

\* What a record replaces is stopped next, or is down.
LEMMA RecordOwned ==
  ASSUME WorldInv, OwnedInv, NEW d \in Deploys, BgUpdate(d) \/ RcUpdate(d) \/ PodUpdate(d)
  PROVE  OwnEnds(d) /\ OldEnds(d)
<1>0. /\ TypeOK /\ TypeInv /\ PlaceAt(d) /\ InFlight(d) /\ New(d) \in Containers
      /\ Fallback(d) \in Containers /\ Nil \notin Containers
  BY KnownAt, TaskMoves DEF Task, BlueGreen, Pod, Recreate
<1>1. \/ /\ pc[d] \in {"bg_update", "rc_update"} /\ ctx[d].new = New(d) /\ ctx[d].old = app.cid
         /\ Records(d, ctx[d].new, app.pod,
                    IF pc[d] = "bg_update" THEN "bg_drain" ELSE "rc_remove_old")
      \/ /\ pc[d] = "pod_update" /\ ctx[d].pod = New(d) /\ ctx[d].old = app.pod
         /\ Records(d, app.cid, ctx[d].pod, "pod_drain")
  BY <1>0, ContainerRecorded, PodRecorded
     DEF PlaceAt, OwnAt, OldAt, NamesNew, NamesPod, OldIsCid, OldIsPod, PodSteps, RecreateSteps
<1>2. /\ Still /\ New(d) \in {app'.cid, app'.pod}
      /\ ctx'[d].old = ctx[d].old
      /\ pc'[d] \in {"bg_drain", "rc_remove_old", "pod_drain", "done"}
      /\ pc[d] = "bg_update" /\ ctx[d].old # Nil => pc'[d] = "bg_drain"
      /\ pc[d] = "pod_update" /\ ctx[d].old # Nil => pc'[d] = "pod_drain"
  BY <1>1 DEF Records, SameCtx
<1>3. runtime[Fallback(d)].st # "running"
  BY <1>1, OwnBefore DEF FallbackMade, FallbackUp
<1>4. OwnEnds(d)
  BY <1>2, <1>3 DEF OwnEnds, RollbackSteps, Still
<1>5. pc[d] = "rc_update" => ~Running(ctx[d].old)
  BY <1>0 DEF PlaceAt, OldAt, OldDown, RecreateSteps
<1>6. ASSUME NEW c \in Containers, c[1] # d, runtime'[c].st = "running"
      PROVE  \/ c \in {app'.cid, app'.pod}
             \/ pc'[d] \in Drains /\ c = ctx'[d].old
  <2>1. runtime[c].st = "running" /\ c # Nil
    BY <1>0, <1>2, <1>6 DEF Still
  <2>2. c \in {app.cid, app.pod}
    BY <1>0, <1>1, <1>6, <2>1, OwnedBefore DEF Drains
  <2>3. c = ctx[d].old \/ c \in {app'.cid, app'.pod}
    BY <1>1, <2>2 DEF Records
  <2>4. c = ctx[d].old => pc[d] # "rc_update"
    BY <1>5, <2>1 DEF Running
  <2> QED BY <1>1, <1>2, <2>1, <2>3, <2>4 DEF Drains
<1> QED BY <1>4, <1>6 DEF OldEnds

\* The fallback container is recorded; the one it replaces is down.
LEMMA FallbackOwned ==
  ASSUME WorldInv, OwnedInv, NEW d \in Deploys, T2Update(d)
  PROVE  OwnEnds(d) /\ OldEnds(d)
<1>0. TypeOK /\ TypeInv /\ PlaceAt(d) /\ InFlight(d) /\ EntryInv /\ Nil \notin Containers
  BY KnownAt, TaskMoves DEF Task, Rollback
<1>1. pc[d] = "t2_update" /\ Still
  BY <1>0, T2UpdateMoves
<1>2. /\ app.tag # Nil /\ ctx[d].old = app.cid /\ ~Running(ctx[d].old)
      /\ runtime[New(d)].st # "running"
  BY <1>0, <1>1, OwnBefore
     DEF PlaceAt, OwnAt, OldAt, TaskAt, Tier2, RollbackSteps, OldIsCid, OldDown
<1>3. app.entry
  BY <1>0, <1>2 DEF EntryInv
<1>4. app'.cid = Fallback(d) /\ app'.pod = app.pod /\ pc'[d] = "done"
  BY <1>0, <1>3, T2UpdateMoves DEF MovesTo
<1>5. OwnEnds(d)
  BY <1>1, <1>2, <1>4 DEF OwnEnds, Still, RollbackSteps
<1>6. ASSUME NEW c \in Containers, c[1] # d, runtime'[c].st = "running"
      PROVE  c \in {app'.cid, app'.pod}
  <2>1. runtime[c].st = "running" /\ c # Nil
    BY <1>0, <1>1, <1>6 DEF Still
  <2>2. c \in {app.cid, app.pod}
    BY <1>0, <1>1, <1>6, <2>1, OwnedBefore DEF Drains
  <2>3. c # app.cid
    BY <1>2, <2>1 DEF Running
  <2> QED BY <1>4, <2>2, <2>3
<1> QED BY <1>5, <1>6 DEF OldEnds

\* The deadline, where it may fire.
LEMMA TimeoutOwned ==
  ASSUME Collects, WorldInv, OwnedInv, NEW d \in Deploys, Timeout(d)
  PROVE  OwnEnds(d) /\ OldEnds(d)
<1>0. /\ TypeOK /\ TypeInv /\ PlaceAt(d) /\ InFlight(d) /\ New(d) # Fallback(d)
      /\ New(d) \in Containers /\ Fallback(d) \in Containers /\ New(d) # Nil
  BY KnownAt, TaskMoves DEF Task
<1>1. /\ pc[d] \in DeadlineSteps /\ SameApp /\ (Still \/ Effect(d))
      /\ pc'[d] = (IF ctx[d].new = Nil THEN "done" ELSE "timeout_cleanup")
  BY <1>0, TimeoutMoves DEF Plain, MovesTo
<1>2. /\ pc[d] \in {"accepted", "pulling", "configuring"}
                   \cup (BlueGreenSteps \ {"bg_start", "bg_drain"})
                   \cup (RecreateSteps \ {"rc_start"}) \cup {"rb_restart", "rb_route"}
  BY <1>1, ConstantsAssumption
     DEF Collects, TimedSteps, BlueGreenSteps, PodSteps, RecreateSteps, RollbackSteps, Tier2
<1>3. pc[d] \in {"rc_stop", "rb_restart"} => ctx[d].old = app.cid
  BY <1>0 DEF PlaceAt, OldAt, OldIsCid, RecreateSteps, RollbackSteps
<1>4. \/ Still
      \/ Halts(New(d)) /\ pc[d] \in {"bg_discard", "rc_discard"}
      \/ OnlyAt(app.cid) /\ pc[d] \in {"rc_stop", "rb_restart"} /\ app.cid # Nil
      \/ Halts(ctx[d].old) /\ pc[d] = "rc_remove_old"
  BY <1>1, <1>2, <1>3
     DEF Effect, Exists, BlueGreenSteps, RecreateSteps, Starts, Halts
<1>5. runtime[Fallback(d)].st # "running"
  BY <1>2, OwnBefore DEF FallbackMade, FallbackUp, BlueGreenSteps, RecreateSteps
<1>6. pc[d] \in {"rc_stop", "rb_restart"} => app.cid \notin {New(d), Fallback(d)}
  BY KnownAt DEF MayBeNamed
<1>7. runtime'[Fallback(d)].st # "running"
  BY <1>0, <1>4, <1>5, <1>6 DEF Still, Halts, OnlyAt
<1>8. OwnEnds(d)
  <2>1. CASE ctx[d].new # Nil
    BY <1>1, <1>7, <2>1 DEF OwnEnds, RollbackSteps
  <2>2. CASE ctx[d].new = Nil
    <3>1. pc[d] \in Unmade \cup {"rb_restart", "rb_route"}
      BY <1>0, <1>2, <2>2
         DEF PlaceAt, OwnAt, NamesNew, Unmade, BlueGreenSteps, RecreateSteps
    <3>2. runtime[New(d)].st # "running"
      BY <3>1, OwnBefore DEF RollbackSteps
    <3>3. runtime'[New(d)].st # "running"
      BY <1>0, <1>4, <1>6, <3>1, <3>2 DEF Still, OnlyAt, Unmade
    <3> QED BY <1>7, <3>3, NoneOwned
  <2> QED BY <2>1, <2>2
<1>9. \/ Still \/ OnlyAt(New(d)) \/ Halts(ctx[d].old)
      \/ ctx[d].old = app.cid /\ OnlyAt(ctx[d].old)
  BY <1>3, <1>4 DEF Halts
<1>10. pc[d] \notin Drains
  BY <1>2 DEF Drains, BlueGreenSteps, RecreateSteps
<1> QED BY <1>0, <1>1, <1>8, <1>9, <1>10, OldKept

\* Its cleanup.
LEMMA CleanupOwned ==
  ASSUME Collects, WorldInv, OwnedInv, NEW d \in Deploys, TimeoutCleanup(d)
  PROVE  OwnEnds(d) /\ OldEnds(d)
<1>0. TypeInv /\ PlaceAt(d) /\ InFlight(d) /\ New(d) # Nil
  BY KnownAt, TaskMoves DEF Task
<1>1. pc[d] = "timeout_cleanup" /\ SameApp /\ ctx[d].new = New(d)
  BY <1>0, CleanupMoves DEF PlaceAt, OwnAt, Plain, MovesTo
<1>2. Halts(New(d)) /\ OnlyAt(New(d))
  BY <1>0, <1>1, CleanupMoves, CollectedCalls DEF Halts
<1>3. runtime[Fallback(d)].st # "running"
  BY <1>1, OwnBefore
<1>4. OwnEnds(d)
  BY <1>2, <1>3, NewGone, FallbackGone, NoneOwned
<1> QED BY <1>0, <1>1, <1>2, <1>4, OldKept DEF Drains

\* Every step of a task.
LEMMA TaskOwned ==
  ASSUME Collects, WorldInv, OwnedInv, NEW d \in Deploys, Task(d)
  PROVE  OwnedInv'
<1>0. TypeInv /\ InFlight(d) /\ OthersStay(d) /\ pc'[d] # "idle"
  BY KnownAt, TaskMoves
<1>1. CASE \/ BgUpdate(d) \/ RcUpdate(d) \/ PodUpdate(d) \/ T2Update(d) \/ Timeout(d)
           \/ TimeoutCleanup(d) \/ BgDrain(d) \/ PodDrain(d) \/ RcRemoveOld(d)
  <2>1. OwnEnds(d) /\ OldEnds(d)
    BY <1>1, RecordOwned, FallbackOwned, TimeoutOwned, CleanupOwned, DrainEnds
  <2> QED BY <1>0, <2>1, OwnedParts
<1>2. CASE ~(\/ BgUpdate(d) \/ RcUpdate(d) \/ PodUpdate(d) \/ T2Update(d) \/ Timeout(d)
             \/ TimeoutCleanup(d) \/ BgDrain(d) \/ PodDrain(d) \/ RcRemoveOld(d))
  <2>1. OwnEnds(d)
    BY <1>2, BlueGreenEnds, RecreateEnds, RollbackEnds DEF Task
  <2>2. SameApp
    BY <1>0, <1>2, TaskMoves
  <2>3. pc[d] \notin Drains
    BY <1>2
       DEF Drains, Task, LookUpApp, PullImages, Configure, BlueGreen, BgStart, BgHealth,
           BgVerify, BgDiscard, BgSwitch, Pod, PodDeploy, PodHealth, PodDiscard, PodSwitch,
           Recreate, RcStop, RcUnroute, RcStart, RcHealth, RcDiscard, RcSwitch, Rollback,
           RbRestart, RbRoute, T2Create, T2Health, T2Route, T2Discard
  <2>4. \/ Still \/ OnlyAt(New(d)) \/ OnlyAt(Fallback(d))
        \/ ctx[d].old = app.cid /\ OnlyAt(ctx[d].old)
    <3>1. CASE RcStop(d) \/ RbRestart(d)
      <4>1. pc[d] \in {"rc_stop", "rb_restart"} /\ (Still \/ OnlyAt(ctx[d].old))
        BY <1>0, <3>1, RcStopMoves, RbRestartMoves DEF Starts, Halts
      <4> QED BY <4>1, OldNamedStay
    <3>2. CASE ~(RcStop(d) \/ RbRestart(d))
      BY <1>0, <1>2, <3>2, TaskTouches
    <3> QED BY <3>1, <3>2
  <2>5. OldEnds(d)
    BY <1>0, <2>2, <2>3, <2>4, OldKept
  <2> QED BY <1>0, <2>1, <2>5, OwnedParts
<1> QED BY <1>1, <1>2

\* Every step.
LEMMA NextOwned ==
  ASSUME Collects, WorldInv, OwnedInv, [Next]_vars
  PROVE  OwnedInv'
<1>1. CASE UNCHANGED vars
  BY <1>1 DEF vars, OwnedInv, InFlight, Running
<1>2. CASE Request
  <2>1. PICK d \in Deploys : /\ pc[d] = "idle" /\ pc' = [pc EXCEPT ![d] = "accepted"]
                             /\ \E c : ctx' = [ctx EXCEPT ![d] = c]
                             /\ app' = app /\ runtime' = runtime
    BY <1>2 DEF Request, HandleDeploy
  <2>2. /\ pc'[d] = "accepted" /\ \A e \in Deploys \ {d} : pc'[e] = pc[e] /\ ctx'[e] = ctx[e]
    BY <2>1, KnownAt DEF TypeOK
  <2>3. \A c : Running(c)' <=> Running(c)
    BY <2>1 DEF Running
  <2> QED BY <2>1, <2>2, <2>3, ContainerNames DEF OwnedInv, InFlight, Drains, RollbackSteps
<1>3. CASE \E d \in Deploys : Task(d)
  BY <1>3, TaskOwned
<1> QED BY <1>1, <1>2, <1>3 DEF Next

\* A running container is named by the app state or belongs to the deploy in flight: a
\* deploy that fails removes what it made, one that succeeds what it replaced, wherever
\* it fails, if removals succeed and the deadline does not cut them off.
THEOREM NoRunningOrphanHolds ==
  ASSUME Collects
  PROVE  Spec => []NoRunningOrphan
<1>1. Init => OwnedInv
  <2> SUFFICES ASSUME Init PROVE OwnedInv
    OBVIOUS
  <2>1. /\ \A c \in Containers : ~Running(c)
        /\ \A d \in Deploys : pc[d] = "idle"
    BY DEF Init, Absent, Running
  <2> QED BY <2>1 DEF OwnedInv, RollbackSteps
<1>2. WorldInv /\ OwnedInv /\ [Next]_vars => OwnedInv'
  BY NextOwned
<1>3. OwnedInv => NoRunningOrphan
  <2> SUFFICES ASSUME OwnedInv, NEW c \in Containers, Running(c), c \notin {app.cid, app.pod}
               PROVE  \E d \in Deploys : InFlight(d) /\ c \in {New(d), Fallback(d), ctx[d].old}
    BY DEF NoRunningOrphan
  <2>1. c[1] \in Deploys /\ c \in {New(c[1]), Fallback(c[1])}
    BY ContainerNames
  <2> QED BY <2>1 DEF OwnedInv, InFlight, Drains
<1> QED BY <1>1, <1>2, <1>3, WorldInvariant, PTL DEF Spec

-----------------------------------------------------------------------------
(* Traffic reaches only what has passed its check.                         *)

\* Caddy does not apply a request that it answers with an error, it removes a route when
\* it is asked to, and a port can be read; the deadline does not fire while a recreate
\* stops what has the route, nor from a switch of the route until the state names what it
\* leads to and the old container is gone.
Switches ==
  /\ FailingCalls \cap {"reply", "unroute", "inspect"} = {}
  /\ DeadlineSteps \cap
       {"rc_stop", "rc_unroute", "rc_switch", "rc_update", "rc_remove_old",
        "bg_switch", "bg_update", "bg_drain", "pod_switch", "pod_update",
        "rb_route", "t2_route", "t2_update"} = {}

\* The steps that record a new container that has the route.
Updates == {"bg_update", "rc_update", "pod_update"}

\* Who may be behind the route: what the app state names, or is about to.
Holders ==
  ({app.cid, app.pod} \ {Nil})
  \cup {New(d) : d \in {e \in Deploys : pc[e] \in Updates}}
  \cup {Fallback(d) : d \in {e \in Deploys : pc[e] = "t2_update"}}

\* The steps of a recreate and its rollback at which the app has no route.
Unrouted == {"rc_start", "rc_health", "rc_discard", "rc_switch", "rb_restart", "rb_route",
             "t2_create", "t2_health", "t2_route", "t2_discard"}

\* Where the route of the app leads at the steps of d.
RouteAt(d) ==
  /\ pc[d] \in Updates /\ IsHttp(d) => route = ctx[d].port
  /\ pc[d] \in Unrouted => route = Nil
  /\ pc[d] = "t2_update" /\ Routed => route \in {Nil, runtime[Fallback(d)].port}
  /\ pc[d] = "rc_unroute" /\ app.port # 0 /\ route # 0 =>
       \A c \in Containers :
         runtime[c].st = "running" /\ runtime[c].port = route => c \in {app.cid, app.pod}

\* Except when a recreate has just stopped it, what the route of an HTTP app leads to is a
\* running container of the app state, or the one that the next step records.
ServeInv ==
  /\ \A d \in Deploys : RouteAt(d)
  /\ (\A d \in Deploys : pc[d] # "rc_unroute") /\ app.port # 0 /\ route \in Ports =>
       \E h \in Holders : runtime[h].st = "running" /\ runtime[h].port = route
TidyServeInv == CleanInv /\ ServeInv

\* The steps of d at which it holds no route yet, or not any more.
Bystander(d) == pc[d] \notin Updates \cup {"rc_unroute", "t2_update"}

\* The others hold nothing.
LEMMA HoldersAre ==
  ASSUME OneDeployAtATime, NEW d \in Deploys, InFlight(d)
  PROVE  /\ Bystander(d) => Holders = {app.cid, app.pod} \ {Nil}
         /\ \A e \in Deploys \ {d} : Bystander(e)
<1>1. \A e \in Deploys \ {d} : Bystander(e)
  BY DEF OneDeployAtATime, InFlight, Bystander, Updates
<1> QED BY <1>1 DEF Holders, Bystander

\* What follows a step of d.
LEMMA ServeParts ==
  ASSUME OneDeployAtATime, NEW d \in Deploys, InFlight(d), OthersStay(d), RouteAt(d)',
         \/ pc'[d] = "rc_unroute" \/ app'.port = 0 \/ route' \notin Ports
         \/ \E h \in Holders' : runtime'[h].st = "running" /\ runtime'[h].port = route'
  PROVE  ServeInv'
<1>1. \A e \in Deploys \ {d} : pc'[e] \in {"idle", "done"}
  BY Alone
<1>2. \A e \in Deploys \ {d} : RouteAt(e)'
  BY <1>1 DEF RouteAt, Updates, Unrouted
<1> QED BY <1>2 DEF ServeInv

\* Who is behind the route before the step.
LEMMA HeldBefore ==
  ASSUME WorldInv, ServeInv, NEW d \in Deploys, InFlight(d), Bystander(d),
         app.port # 0, route \in Ports
  PROVE  \E h \in {app.cid, app.pod} \ {Nil} :
           runtime[h].st = "running" /\ runtime[h].port = route
<1>1. \A e \in Deploys : pc[e] # "rc_unroute"
  BY HoldersAre DEF WorldInv, Bystander
<1> QED BY <1>1, HoldersAre DEF WorldInv, ServeInv

\* A step that leaves the route, the app state and its containers alone.
LEMMA ServeKept ==
  ASSUME WorldInv, ServeInv, NEW d \in Deploys, InFlight(d), OthersStay(d), Bystander(d),
         SameApp, NamedStay, route' = route, RouteAt(d)'
  PROVE  ServeInv'
<1>1. CASE app'.port = 0 \/ route' \notin Ports
  BY <1>1, ServeParts DEF WorldInv
<1>2. CASE app'.port # 0 /\ route' \in Ports
  <2>1. PICK h \in {app.cid, app.pod} \ {Nil} :
          runtime[h].st = "running" /\ runtime[h].port = route
    BY <1>2, HeldBefore DEF SameApp
  <2>2. runtime'[h].st = "running" /\ runtime'[h].port = route'
    BY <2>1 DEF NamedStay
  <2>3. h \in Holders'
    BY <2>1 DEF Holders, SameApp
  <2> QED BY <2>2, <2>3, ServeParts DEF WorldInv
<1> QED BY <1>1, <1>2

\* Nothing to say of the route at the step that follows.
LEMMA NoRouteAt ==
  ASSUME NEW d \in Deploys, pc'[d] \notin Updates \cup Unrouted \cup {"rc_unroute", "t2_update"}
  PROVE  RouteAt(d)'
  BY DEF RouteAt

\* A port is a number other than 0, and None is not a number.
LEMMA PortNumbers == Nil \notin Ports /\ Nil # 0 /\ 0 \notin Ports
<1>1. Nil \notin Nat
  BY ConstantsAssumption
<1>2. Ports \subseteq Nat \ {0}
  BY ConstantsAssumption
<1>3. 0 \in Nat
  OBVIOUS
<1>4. Nil # 0
  BY <1>1, <1>3, Zenon
<1>5. Nil \notin Ports
  BY <1>1, <1>2
<1>6. 0 \notin Ports
  BY <1>2
<1> QED BY <1>4, <1>5, <1>6

\* The app has no route.
LEMMA NilServe ==
  ASSUME WorldInv, WorldInv', NEW d \in Deploys, InFlight(d), OthersStay(d), route' = Nil,
         pc'[d] \in Updates => ~IsHttp(d)'
  PROVE  ServeInv'
<1>0. TypeOK'
  BY DEF WorldInv, TypeInv
<1>3. Nil \notin Ports /\ Nil # 0
  BY PortNumbers
<1>1. /\ Nil \notin Ports
      /\ \A c \in Containers : runtime'[c].port # Nil
  BY <1>0, <1>3 DEF TypeOK, Container, HostPorts
<1>2. RouteAt(d)'
  BY <1>1 DEF RouteAt
<1> QED BY <1>1, <1>2, ServeParts DEF WorldInv

\* Steps before and beside the switch.
LEMMA BlueGreenServe ==
  ASSUME WorldInv, ServeInv, NEW d \in Deploys, Task(d), ~Timeout(d),
         \/ LookUpApp(d) \/ PullImages(d)
         \/ BgStart(d) \/ BgHealth(d) \/ BgVerify(d) \/ BgDiscard(d) \/ BgDrain(d)
         \/ PodDeploy(d) \/ PodHealth(d) \/ PodDiscard(d) \/ PodDrain(d)
         \/ RcRemoveOld(d)
  PROVE  ServeInv'
<1>0. TypeInv /\ TypeOK
  BY KnownAt
<1>1. pc[d] \in {"accepted", "pulling", "bg_start", "bg_health", "bg_verify", "bg_discard",
                "bg_drain", "pod_deploy", "pod_health", "pod_discard", "pod_drain",
                "rc_remove_old"}
  BY DEF LookUpApp, PullImages, BgStart, BgHealth, BgVerify, BgDiscard, BgDrain, PodDeploy,
         PodHealth, PodDiscard, PodDrain, RcRemoveOld
<1>2. /\ Bystander(d)
      /\ ~(BgUpdate(d) \/ PodUpdate(d) \/ RcUpdate(d) \/ T2Update(d) \/ RcStop(d)
           \/ RbRestart(d) \/ TimeoutCleanup(d))
  BY <1>1
     DEF Bystander, Updates, BgUpdate, PodUpdate, RcUpdate, T2Update, RcStop, RbRestart,
         TimeoutCleanup
<1>3. InFlight(d) /\ OthersStay(d) /\ SameTask(d) /\ SameApp /\ NamedStay
  BY <1>0, <1>2, TaskMoves, TaskNamedStay
<1>4. route' = route
  BY <1>0, LookUpMoves, BgStartMoves, BgHealthMoves, BgVerifyMoves, DiscardMoves, DrainMoves,
     PodDeployMoves, PodHealthMoves DEF Makes
<1>5. RouteAt(d)'
  <2>1. \A to : Plain(d, to) => pc'[d] \in to
    BY DEF Plain, MovesTo
  <2>2. CASE BgVerify(d) \/ PodHealth(d)
    <3>1. \A old, to : ReadsOld(d, old, to) => pc'[d] \in to
      BY DEF ReadsOld, MovesTo
    <3>2. /\ pc'[d] \in {"bg_update", "bg_switch", "pod_update", "pod_switch", "pod_discard",
                         "done"}
          /\ pc'[d] = "bg_update" => IsWorker(d)
          /\ pc'[d] = "pod_update" => ~IsHttp(d)
      <4>1. CASE BgVerify(d)
        BY <1>0, <2>1, <3>1, <4>1, BgVerifyMoves
      <4>2. CASE PodHealth(d)
        BY <1>0, <2>1, <3>1, <4>2, PodHealthMoves
      <4> QED BY <2>2, <4>1, <4>2
    <3>3. IsWorker(d) \/ ~IsHttp(d) => ~IsHttp(d)'
      BY <1>3 DEF IsWorker, IsHttp, SameTask
    <3> QED BY <3>2, <3>3 DEF RouteAt, Updates, Unrouted
  <2>3. CASE BgStart(d) \/ BgHealth(d) \/ PodDeploy(d)
    <3>1. pc'[d] \in {"bg_verify", "bg_health", "bg_discard", "pod_health", "done"}
      <4>1. \A to : Makes(d, to) => pc'[d] \in to
        BY DEF Makes, MovesTo
      <4>2. CASE BgStart(d)
        BY <2>1, <4>1, <4>2, BgStartMoves, <1>0
      <4>3. CASE BgHealth(d)
        BY <1>0, <2>1, <4>3, BgHealthMoves
      <4>4. CASE PodDeploy(d)
        BY <1>0, <2>1, <4>4, PodDeployMoves DEF MovesTo
      <4> QED BY <2>3, <4>2, <4>3, <4>4
    <3> QED BY <3>1, NoRouteAt DEF Updates, Unrouted
  <2>4. CASE LookUpApp(d) \/ PullImages(d) \/ BgDiscard(d) \/ BgDrain(d) \/ PodDiscard(d)
             \/ PodDrain(d) \/ RcRemoveOld(d)
    <3>1. pc'[d] \in {"pulling", "configuring", "done"}
      BY <1>0, <2>1, <2>4, LookUpMoves, DiscardMoves, DrainMoves
    <3> QED BY <3>1, NoRouteAt DEF Updates, Unrouted
  <2> QED BY <2>2, <2>3, <2>4
<1> QED BY <1>2, <1>3, <1>4, <1>5, ServeKept

\* What a container behind the route is.
LEMMA BehindRoute ==
  ASSUME WorldInv, ServeInv, NEW d \in Deploys, InFlight(d), Bystander(d), app.port # 0,
         route # 0, NEW c \in Containers, runtime[c].st = "running", runtime[c].port = route
  PROVE  c \in {app.cid, app.pod} \ {Nil}
<1>1. TypeOK /\ PortsInv /\ Nil \notin Containers
      /\ app.cid \in Containers \cup {Nil} /\ app.pod \in Containers \cup {Nil}
  BY KnownAt
<1>2. route \in Ports
  BY <1>1 DEF TypeOK, Container, HostPorts
<1>3. PICK h \in {app.cid, app.pod} \ {Nil} :
        runtime[h].st = "running" /\ runtime[h].port = route
  BY <1>2, HeldBefore
<1>4. Running(h) /\ Running(c) /\ h \in Containers
  BY <1>1, <1>3 DEF Running
<1>5. c = h
  BY <1>1, <1>3, <1>4 DEF PortsInv
<1> QED BY <1>3, <1>5

\* A recreate stops the old container, and then removes the route.
LEMMA UnrouteNext ==
  ASSUME WorldInv, ServeInv, NEW d \in Deploys, InFlight(d), OthersStay(d), Bystander(d),
         SameApp, route' = route, pc'[d] = "rc_unroute",
         \A c \in Containers : runtime'[c].st = "running" => runtime'[c] = runtime[c]
  PROVE  ServeInv'
<1>1. ASSUME app'.port # 0, route' # 0, NEW c \in Containers,
             runtime'[c].st = "running", runtime'[c].port = route'
      PROVE  c \in {app'.cid, app'.pod}
  <2>1. runtime[c].st = "running" /\ runtime[c].port = route
    BY <1>1
  <2> QED BY <1>1, <2>1, BehindRoute DEF SameApp
<1>2. RouteAt(d)'
  BY <1>1 DEF RouteAt, Updates, Unrouted
<1> QED BY <1>2, ServeParts DEF WorldInv

\* The choice of the strategy, and the stop.
LEMMA StopServe ==
  ASSUME WorldInv, ServeInv, NEW d \in Deploys, Configure(d) \/ RcStop(d)
  PROVE  ServeInv'
<1>0. TypeInv /\ TypeOK
  BY KnownAt
<1>1. /\ InFlight(d) /\ OthersStay(d) /\ SameApp /\ Bystander(d) /\ route' = route
      /\ pc[d] \in {"configuring", "rc_stop"}
  <2>1. pc[d] \in {"configuring", "rc_stop"}
    BY DEF Configure, RcStop
  <2>2. ~(BgUpdate(d) \/ RcUpdate(d) \/ PodUpdate(d) \/ T2Update(d))
    BY <2>1 DEF BgUpdate, RcUpdate, PodUpdate, T2Update
  <2> QED BY <1>0, <2>1, <2>2, TaskMoves, ConfigureMoves, RcStopMoves
          DEF Task, Recreate, Bystander, Updates
<1>2. CASE pc'[d] = "rc_unroute"
  <2>1. Still \/ Halts(ctx[d].old)
    BY <1>0, ConfigureMoves, RcStopMoves
  <2>2. \A c \in Containers : runtime'[c].st = "running" => runtime'[c] = runtime[c]
    BY <2>1 DEF Still, Halts, OnlyAt
  <2> QED BY <1>1, <1>2, <2>2, UnrouteNext
<1>3. CASE pc'[d] # "rc_unroute"
  <2>1. Still
    BY <1>0, <1>3, ConfigureMoves, RcStopMoves DEF Plain, MovesTo
  <2>2. pc'[d] \in {"done", "pod_deploy", "bg_start", "rc_stop"}
    BY <1>0, <1>3, ConfigureMoves, RcStopMoves DEF Plain, MovesTo, RecreateBegins
  <2>3. RouteAt(d)'
    BY <2>2, NoRouteAt DEF Updates, Unrouted
  <2>4. NamedStay
    BY <2>1 DEF Still, NamedStay
  <2> QED BY <1>1, <2>3, <2>4, ServeKept
<1> QED BY <1>2, <1>3

\* Every exit of a new container is seen.
LEMMA NoneBlind ==
  ASSUME Switches
  PROVE  ~Blind
BY DEF Switches, Blind, Fails

\* The switch of the route.
LEMMA SwitchServe ==
  ASSUME Switches, WorldInv, WorldInv', ServeInv, NEW d \in Deploys,
         BgSwitch(d) \/ PodSwitch(d) \/ RcSwitch(d)
  PROVE  ServeInv'
<1>0. /\ TypeInv /\ TypeOK /\ PlaceAt(d) /\ ~Fails("reply")
      /\ New(d) # Nil
  BY KnownAt DEF Switches, Fails
<1>1. /\ Still /\ pc[d] \in {"bg_switch", "pod_switch", "rc_switch"} /\ Bystander(d)
      /\ InFlight(d)
  BY <1>0, RouteMoves DEF Bystander, Updates, InFlight
<1>2. \A to : Plain(d, to) => OthersStay(d) /\ SameCtx(d) /\ SameApp /\ pc'[d] \in to
  BY DEF Plain, MovesTo
<1>3. OthersStay(d) /\ SameCtx(d) /\ SameApp
  BY <1>0, <1>2, RouteMoves
<1>4. CASE pc'[d] \in Updates
  <2>1. route' = ctx[d].port
    <3>1. \/ route' = ctx[d].port
          \/ Plain(d, {IF pc[d] = "bg_switch" THEN "bg_discard"
                       ELSE IF pc[d] = "pod_switch" THEN "pod_discard" ELSE "rc_discard"})
      BY <1>0, RouteMoves
    <3> QED BY <1>2, <1>4, <3>1 DEF Updates
  <2>2. runtime'[New(d)].st = "running" /\ runtime'[New(d)].port = route'
    BY <1>0, <1>1, <2>1, NoneBlind DEF PlaceAt, OwnAt, NewUp, HasPort, Running, Still
  <2>3. New(d) \in Holders'
    BY <1>4 DEF Holders
  <2>4. RouteAt(d)'
    BY <1>3, <1>4, <2>1 DEF RouteAt, SameCtx, Updates, Unrouted
  <2> QED BY <1>1, <1>3, <2>2, <2>3, <2>4, ServeParts DEF WorldInv
<1>5. CASE pc'[d] \notin Updates
  <2>1. /\ route' = route /\ pc'[d] \in {"bg_discard", "pod_discard", "rc_discard"}
        /\ pc[d] # "rc_switch" => pc'[d] # "rc_discard"
    <3>1. CASE pc[d] = "bg_switch"
      BY <1>0, <1>2, <1>5, <3>1, RouteMoves DEF Updates
    <3>2. CASE pc[d] = "pod_switch"
      BY <1>0, <1>2, <1>5, <3>2, RouteMoves DEF Updates
    <3>3. CASE pc[d] = "rc_switch"
      BY <1>0, <1>2, <1>5, <3>3, RouteMoves DEF Updates
    <3> QED BY <1>1, <3>1, <3>2, <3>3
  <2>2. CASE pc[d] = "rc_switch"
    <3>1. route' = Nil
      BY <2>1, <2>2 DEF ServeInv, RouteAt, Unrouted
    <3> QED BY <1>1, <1>3, <1>5, <3>1, NilServe
  <2>3. CASE pc[d] # "rc_switch"
    <3>1. RouteAt(d)'
      BY <2>1, <2>3, NoRouteAt DEF Updates, Unrouted
    <3>2. NamedStay
      BY <1>1 DEF Still, NamedStay
    <3> QED BY <1>1, <1>3, <2>1, <3>1, <3>2, ServeKept
  <2> QED BY <2>2, <2>3
<1> QED BY <1>4, <1>5

\* A recreate without a route.
LEMMA UnroutedServe ==
  ASSUME Switches, WorldInv, WorldInv', ServeInv, NEW d \in Deploys,
         \/ RcUnroute(d) \/ RcStart(d) \/ RcHealth(d) \/ RcDiscard(d) \/ RbRestart(d)
         \/ T2Create(d) \/ T2Health(d) \/ T2Discard(d)
  PROVE  ServeInv'
<1>0. TypeInv /\ TypeOK /\ ~Fails("unroute")
  BY KnownAt DEF Switches, Fails
<1>1. pc[d] \in {"rc_unroute", "rc_start", "rc_health", "rc_discard", "rb_restart", "t2_create",
                 "t2_health", "t2_discard"}
  BY DEF RcUnroute, RcStart, RcHealth, RcDiscard, RbRestart, T2Create, T2Health, T2Discard
<1>2. InFlight(d) /\ OthersStay(d) /\ SameTask(d)
  BY <1>0, TaskMoves DEF Task, Recreate, Rollback
<1>3. pc[d] # "rc_unroute" => route = Nil
  BY <1>1 DEF ServeInv, RouteAt, Unrouted
<1>4. route' = Nil
  <2>1. CASE RcUnroute(d)
    BY <1>0, <2>1, RcUnrouteMoves
  <2>2. CASE ~RcUnroute(d)
    <3>1. pc[d] # "rc_unroute"
      BY <1>1, <2>2 DEF RcStart, RcHealth, RcDiscard, RbRestart, T2Create, T2Health, T2Discard
    <3> QED BY <1>0, <1>3, <2>2, <3>1, RcStartMoves, RcHealthMoves, RcDiscardMoves,
               RbRestartMoves, T2CreateMoves, T2HealthMoves, T2DiscardMoves DEF Makes
  <2> QED BY <2>1, <2>2
<1>5. pc'[d] \in Updates => ~IsHttp(d)'
  <2>1. \A to : Plain(d, to) => pc'[d] \in to
    BY DEF Plain, MovesTo
  <2>2. RollsBack(d) \/ FallsBack(d) \/ AppIsDown(d) => pc'[d] \notin Updates
    BY <2>1 DEF RollsBack, FallsBack, AppIsDown, Updates
  <2>3. CASE RcHealth(d)
    <3>1. /\ pc'[d] \in {"rc_update", "rc_switch", "rc_discard"}
          /\ pc'[d] = "rc_update" => IsWorker(d)
      BY <1>0, <2>1, <2>3, RcHealthMoves
    <3> QED BY <1>2, <3>1 DEF Updates, IsWorker, IsHttp, SameTask
  <2>4. CASE RcUnroute(d)
    BY <1>0, <2>1, <2>4, RcUnrouteMoves DEF Updates
  <2>5. CASE RcStart(d) \/ RcDiscard(d)
    BY <1>0, <2>1, <2>2, <2>5, RcStartMoves, RcDiscardMoves DEF Makes, MovesTo, Updates
  <2>6. CASE RbRestart(d)
    <3>1. pc'[d] \in {"rb_route", "done"} \/ FallsBack(d)
      BY <1>0, <2>1, <2>6, RbRestartMoves
    <3> QED BY <2>2, <3>1 DEF Updates
  <2>7. CASE T2Create(d) \/ T2Discard(d)
    BY <1>0, <2>1, <2>2, <2>7, T2CreateMoves, T2DiscardMoves DEF Updates
  <2>8. CASE T2Health(d)
    <3>1. pc'[d] \in {"t2_discard", "t2_route", "t2_update"}
      BY <1>0, <2>1, <2>8, T2HealthMoves
    <3> QED BY <3>1 DEF Updates
  <2> QED BY <2>3, <2>4, <2>5, <2>6, <2>7, <2>8
<1> QED BY <1>2, <1>4, <1>5, NilServe

\* A rollback gives the route back, if it does not fail.
LEMMA RestoreServe ==
  ASSUME Switches, WorldInv, WorldInv', ServeInv, NEW d \in Deploys, RbRoute(d) \/ T2Route(d)
  PROVE  ServeInv'
<1>0. TypeInv /\ TypeOK /\ PlaceAt(d) /\ ~Fails("inspect") /\ Fallback(d) # Nil
  BY KnownAt DEF Switches, Fails
<1>1. /\ Still /\ pc[d] \in {"rb_route", "t2_route"} /\ InFlight(d) /\ OthersStay(d) /\ SameApp
      /\ pc'[d] = (IF pc[d] = "rb_route" THEN "done" ELSE "t2_update")
  BY <1>0, RbRouteMoves, T2RouteMoves DEF InFlight, Plain, MovesTo
<1>2. route = Nil
  BY <1>1 DEF ServeInv, RouteAt, Unrouted
<1>3. CASE route' = Nil
  BY <1>1, <1>3, NilServe DEF Updates
<1>4. CASE route' # Nil /\ pc[d] = "rb_route"
  <2>1. RbRoute(d)
    BY <1>4 DEF T2Route
  <2>2. route' = runtime[ctx[d].old].port
    BY <1>0, <1>2, <1>4, <2>1, RbRouteMoves
  <2>3. Running(ctx[d].old) /\ ctx[d].old = app.cid
    BY <1>0, <1>4 DEF PlaceAt, OldAt, OldIsCid, RollbackSteps
  <2>4. /\ app.cid \in Holders' /\ runtime'[app.cid].st = "running"
        /\ runtime'[app.cid].port = route'
    BY <1>1, <2>2, <2>3 DEF Holders, SameApp, Running, Still
  <2>5. RouteAt(d)'
    BY <1>1, <1>4, NoRouteAt DEF Updates, Unrouted
  <2> QED BY <1>1, <2>4, <2>5, ServeParts DEF WorldInv
<1>5. CASE route' # Nil /\ pc[d] = "t2_route"
  <2>1. T2Route(d)
    BY <1>5 DEF RbRoute
  <2>2. route' = runtime[Fallback(d)].port
    BY <1>0, <1>2, <1>5, <2>1, T2RouteMoves
  <2>3. Running(Fallback(d)) /\ pc'[d] = "t2_update"
    BY <1>0, <1>1, <1>5 DEF PlaceAt, OwnAt, FallbackUp
  <2>4. /\ Fallback(d) \in Holders' /\ runtime'[Fallback(d)].st = "running"
        /\ runtime'[Fallback(d)].port = route'
    BY <1>1, <2>2, <2>3 DEF Holders, Running, Still
  <2>5. RouteAt(d)'
    BY <1>1, <2>2, <2>3 DEF RouteAt, Still, Updates, Unrouted
  <2> QED BY <1>1, <2>4, <2>5, ServeParts DEF WorldInv
<1> QED BY <1>1, <1>3, <1>4, <1>5

\* The record of a new container or pod: the route leads to it, or it has no port.
LEMMA RecordServe ==
  ASSUME Switches, WorldInv, ServeInv, NEW d \in Deploys, BgUpdate(d) \/ RcUpdate(d) \/ PodUpdate(d)
  PROVE  ServeInv'
<1>0. /\ TypeOK /\ TypeInv /\ PlaceAt(d) /\ PortsInv /\ InFlight(d) /\ OthersStay(d)
      /\ New(d) \in Containers /\ New(d) # Nil /\ New(d)[1] = d
  BY KnownAt, TaskMoves DEF Task, BlueGreen, Pod, Recreate
<1>1. \/ /\ pc[d] \in {"bg_update", "rc_update"} /\ ctx[d].new = New(d)
         /\ Records(d, ctx[d].new, app.pod,
                    IF pc[d] = "bg_update" THEN "bg_drain" ELSE "rc_remove_old")
      \/ /\ pc[d] = "pod_update" /\ ctx[d].pod = New(d)
         /\ Records(d, app.cid, ctx[d].pod, "pod_drain")
  BY <1>0, ContainerRecorded, PodRecorded DEF PlaceAt, OwnAt, NamesNew, NamesPod, PodSteps
<1>2. /\ Still /\ route' = route /\ app'.port = ctx[d].port /\ New(d) \in {app'.cid, app'.pod}
      /\ pc'[d] \in {"bg_drain", "rc_remove_old", "pod_drain", "done"}
      /\ pc[d] \in Updates
  BY <1>1 DEF Records, Updates
<1>3. Running(New(d)) /\ ctx[d].port = runtime[New(d)].port
  BY <1>0, <1>2, NoneBlind DEF PlaceAt, OwnAt, NewUp, HasPort, Updates
<1>4. RouteAt(d)'
  BY <1>2, NoRouteAt DEF Updates, Unrouted
<1>5. CASE IsHttp(d)
  <2>1. route' = runtime'[New(d)].port /\ runtime'[New(d)].st = "running"
    BY <1>2, <1>3, <1>5 DEF ServeInv, RouteAt, Still, Running
  <2>2. New(d) \in Holders'
    BY <1>0, <1>2 DEF Holders
  <2> QED BY <1>0, <1>4, <2>1, <2>2, ServeParts DEF WorldInv
<1>6. CASE ~IsHttp(d)
  <2>1. app'.port = 0
    BY <1>0, <1>2, <1>3, <1>6 DEF PortsInv, Ported
  <2> QED BY <1>0, <1>4, <2>1, ServeParts DEF WorldInv
<1> QED BY <1>5, <1>6

\* The record of the fallback container: it has the route, or the app has none.
LEMMA FallbackServe ==
  ASSUME WorldInv, ServeInv, NEW d \in Deploys, T2Update(d)
  PROVE  ServeInv'
<1>0. /\ TypeOK /\ TypeInv /\ PlaceAt(d) /\ PortsInv /\ EntryInv /\ InFlight(d) /\ OthersStay(d)
      /\ Fallback(d) \in Containers /\ Fallback(d) # Nil /\ Fallback(d)[1] = d
      /\ Fallback(d) # New(d)
  BY KnownAt, TaskMoves DEF Task, Rollback
<1>1. pc[d] = "t2_update" /\ Still /\ route' = route
  BY <1>0, T2UpdateMoves
<1>2. app.tag # Nil /\ Running(Fallback(d))
  BY <1>0, <1>1 DEF PlaceAt, OwnAt, TaskAt, Tier2, RollbackSteps, FallbackUp
<1>3. app.entry
  BY <1>0, <1>2 DEF EntryInv
<1>4. app'.cid = Fallback(d) /\ app'.port = runtime[Fallback(d)].port /\ pc'[d] = "done"
  BY <1>0, <1>3, T2UpdateMoves DEF MovesTo
<1>5. RouteAt(d)'
  BY <1>4, NoRouteAt DEF Updates, Unrouted
<1>6. CASE ~Routed
  <2>1. app'.port = 0
    BY <1>0, <1>2, <1>4, <1>6 DEF PortsInv, Ported
  <2> QED BY <1>0, <1>5, <2>1, ServeParts DEF WorldInv
<1>7. CASE Routed /\ route' \in Ports
  <2>1. route \in {Nil, runtime[Fallback(d)].port}
    BY <1>1, <1>7 DEF ServeInv, RouteAt
  <2>2. route' = runtime'[Fallback(d)].port /\ runtime'[Fallback(d)].st = "running"
    BY <1>1, <1>2, <1>7, <2>1, PortNumbers DEF Still, Running
  <2>3. Fallback(d) \in Holders'
    BY <1>0, <1>4 DEF Holders
  <2> QED BY <1>0, <1>5, <2>2, <2>3, ServeParts DEF WorldInv
<1>8. CASE route' \notin Ports
  BY <1>0, <1>5, <1>8, ServeParts DEF WorldInv
<1> QED BY <1>6, <1>7, <1>8

\* The deadline, where it may fire, and its cleanup leave what is behind the route alone.
LEMMA TimeoutServe ==
  ASSUME Switches, WorldInv, TidyServeInv, NEW d \in Deploys, Timeout(d) \/ TimeoutCleanup(d)
  PROVE  ServeInv'
<1>0. /\ TypeInv /\ PlaceAt(d) /\ InFlight(d) /\ OthersStay(d) /\ SameApp
      /\ CleanInv /\ ServeInv /\ pc'[d] \in {"timeout_cleanup", "done"}
  BY KnownAt, TaskMoves, TimeoutMoves, CleanupMoves
     DEF Task, TidyServeInv, Plain, MovesTo
<1>1. pc[d] \in {"accepted", "pulling", "configuring", "bg_start", "bg_health", "bg_verify",
                 "bg_discard", "pod_deploy", "pod_health", "pod_discard", "pod_drain",
                 "timeout_cleanup", "rc_start", "rc_health", "rc_discard",
                 "rb_restart", "t2_create", "t2_health", "t2_discard"}
  <2>1. TimeoutCleanup(d) => pc[d] = "timeout_cleanup"
    BY <1>0, CleanupMoves
  <2>2. Timeout(d) => pc[d] \in DeadlineSteps
    BY <1>0, TimeoutMoves
  <2> QED BY <2>1, <2>2, ConstantsAssumption
          DEF Switches, TimedSteps, BlueGreenSteps, PodSteps, RecreateSteps, RollbackSteps
<1>2. route' = route
  <2>1. CallRoute(d) = {route}
    BY <1>1 DEF CallRoute
  <2> QED BY <1>0, <2>1, TimeoutMoves, CleanupMoves
<1>3. RouteAt(d)'
  BY <1>0, NoRouteAt DEF Updates, Unrouted
<1>4. CASE pc[d] \in Unrouted
  <2>1. route' \notin Ports
    BY <1>0, <1>2, <1>4, PortNumbers DEF ServeInv, RouteAt
  <2> QED BY <1>0, <1>3, <2>1, ServeParts DEF WorldInv
<1>5. CASE pc[d] \notin Unrouted
  <2>1. NamedStay
    <3>1. pc[d] = "timeout_cleanup" => New(d) \notin {app.cid, app.pod}
      BY <1>0 DEF CleanInv
    <3>2. Still \/ Effect(d)
      BY <1>0, TimeoutMoves, DiscardEffect DEF TimeoutCleanup
    <3>3. Still => NamedStay
      BY DEF Still, NamedStay
    <3> QED BY <1>1, <1>5, <3>1, <3>2, <3>3, EffectNamedStay DEF Unrouted
  <2>2. Bystander(d)
    BY <1>1 DEF Bystander, Updates
  <2> QED BY <1>0, <1>2, <1>3, <2>1, <2>2, ServeKept
<1> QED BY <1>4, <1>5

\* Every step.
LEMMA NextServe ==
  ASSUME Switches, WorldInv, TidyServeInv, [Next]_vars
  PROVE  TidyServeInv'
<1>1. CleanInv'
  <2>1. CleanDeadline
    BY DEF Switches, CleanDeadline
  <2> QED BY <2>1, NextClean DEF TidyServeInv
<1>2. WorldInv' /\ ServeInv
  BY NextWorld DEF TidyServeInv
<1>3. CASE UNCHANGED vars
  <2>1. pc' = pc /\ ctx' = ctx /\ app' = app /\ runtime' = runtime /\ route' = route
    BY <1>3 DEF vars
  <2>2. ServeInv'
    BY <1>2, <2>1 DEF ServeInv, RouteAt, Holders, IsHttp
  <2> QED BY <1>1, <2>2 DEF TidyServeInv
<1>4. CASE Request
  <2>1. PICK d \in Deploys : /\ pc[d] = "idle" /\ pc' = [pc EXCEPT ![d] = "accepted"]
                             /\ \E c : ctx' = [ctx EXCEPT ![d] = c]
                             /\ app' = app /\ runtime' = runtime /\ route' = route
    BY <1>4 DEF Request, HandleDeploy
  <2>2. /\ pc'[d] = "accepted" /\ \A e \in Deploys \ {d} : pc'[e] = pc[e] /\ ctx'[e] = ctx[e]
    BY <2>1, KnownAt DEF TypeOK
  <2>3. Holders' = Holders
    <3>1. /\ {e \in Deploys : pc'[e] \in Updates} = {e \in Deploys : pc[e] \in Updates}
          /\ {e \in Deploys : pc'[e] = "t2_update"} = {e \in Deploys : pc[e] = "t2_update"}
      BY <2>1, <2>2 DEF Updates
    <3> QED BY <2>1, <3>1 DEF Holders
  <2>4. ASSUME NEW e \in Deploys PROVE RouteAt(e)'
    <3>1. CASE e = d
      BY <2>2, <3>1 DEF RouteAt, Updates, Unrouted
    <3>2. CASE e # d
      BY <1>2, <2>1, <2>2, <3>2 DEF ServeInv, RouteAt, IsHttp
    <3> QED BY <3>1, <3>2
  <2>5. (\A e \in Deploys : pc'[e] # "rc_unroute") => \A e \in Deploys : pc[e] # "rc_unroute"
    BY <2>1, <2>2
  <2>6. ServeInv'
    BY <1>2, <2>1, <2>3, <2>4, <2>5 DEF ServeInv
  <2> QED BY <1>1, <2>6 DEF TidyServeInv
<1>5. ASSUME NEW d \in Deploys, Task(d) PROVE ServeInv'
  <2>1. CASE Timeout(d) \/ TimeoutCleanup(d)
    BY <2>1, TimeoutServe
  <2>2. CASE ~(Timeout(d) \/ TimeoutCleanup(d))
    BY <1>2, <1>5, <2>2, BlueGreenServe, StopServe, SwitchServe, UnroutedServe, RestoreServe,
       RecordServe, FallbackServe
       DEF Task, BlueGreen, Pod, Recreate, Rollback
  <2> QED BY <2>1, <2>2
<1> QED BY <1>1, <1>3, <1>4, <1>5 DEF Next, TidyServeInv

\* What holds the route of an HTTP app has passed its check.
LEMMA HoldersHealthy ==
  ASSUME WorldInv, ServeInv, NEW c \in Holders, c \in Containers,
         runtime[c].st = "running", runtime[c].port # 0
  PROVE  runtime[c].ok
<1>1. /\ PortsInv /\ HealthInv /\ Nil \notin Containers
      /\ \A d \in Deploys : /\ New(d) \in Containers /\ New(d)[1] = d
                            /\ Fallback(d) \in Containers /\ Fallback(d)[1] = d
  BY NilFresh, OwnContainers, ContainerNames DEF WorldInv, PlaceInv
<1>2. Healthy(c)
  <2>1. CASE c \in {app.cid, app.pod} \ {Nil}
    BY <1>1, <2>1 DEF HealthInv, Named
  <2>2. ASSUME NEW d \in Deploys, pc[d] \in Updates, c = New(d) PROVE Healthy(c)
    <3>1. pc[d] \in NewChecked
      BY <2>2 DEF Updates, NewChecked
    <3> QED BY <1>1, <2>2, <3>1 DEF HealthInv, DeployHealth
  <2>3. ASSUME NEW d \in Deploys, pc[d] = "t2_update", c = Fallback(d) PROVE Healthy(c)
    BY <1>1, <2>3 DEF HealthInv, DeployHealth, FallbackChecked
  <2> QED BY <2>1, <2>2, <2>3 DEF Holders
<1>3. Ported(c)
  <2>1. Running(c)
    BY <1>1 DEF Running
  <2> QED BY <1>1, <2>1 DEF PortsInv
<1>4. c[1] \in Deploys /\ (c = New(c[1]) \/ c = Fallback(c[1]))
  BY ContainerNames
<1>5. c = New(c[1]) => ctx[c[1]].kind \in {"http", "pod"}
  BY <1>3 DEF Ported, IsHttp
<1> QED BY <1>2, <1>4, <1>5 DEF Healthy

\* Traffic for an HTTP app reaches no container that has not passed its check, through
\* every strategy, failed call, rollback and reuse of a port, if Caddy does not apply what
\* it refuses and the deadline spares the switches.
THEOREM OnlyHealthyServeHolds ==
  ASSUME Switches
  PROVE  Spec => []OnlyHealthyServe
<1>1. Init => TidyServeInv
  <2> SUFFICES ASSUME Init PROVE TidyServeInv
    OBVIOUS
  <2>1. app.port = 0 /\ \A d \in Deploys : pc[d] = "idle"
    BY DEF Init, NoApp
  <2> QED BY <2>1 DEF TidyServeInv, CleanInv, ServeInv, RouteAt, Updates, Unrouted
<1>2. WorldInv /\ TidyServeInv /\ [Next]_vars => TidyServeInv'
  BY NextServe
<1>3. WorldInv /\ TidyServeInv => OnlyHealthyServe
  <2> SUFFICES ASSUME WorldInv, TidyServeInv, app.port # 0, route # 0, NEW c \in Containers,
                      Running(c), runtime[c].port = route
               PROVE  runtime[c].ok
    BY DEF OnlyHealthyServe
  <2>1. TypeOK /\ PortsInv /\ ServeInv /\ Nil \notin Containers
    BY NilFresh DEF WorldInv, TypeInv, PlaceInv, TidyServeInv
  <2>2. runtime[c].st = "running" /\ runtime[c].port \in Ports
    BY <2>1 DEF Running, TypeOK, Container, HostPorts
  <2>3. c \in Holders
    <3>1. CASE \E d \in Deploys : pc[d] = "rc_unroute"
      BY <2>1, <2>2, <3>1, NilFresh DEF ServeInv, RouteAt, Holders
    <3>2. CASE \A d \in Deploys : pc[d] # "rc_unroute"
      <4>1. PICK h \in Holders : runtime[h].st = "running" /\ runtime[h].port = route
        BY <2>1, <2>2, <3>2 DEF ServeInv
      <4>2. h \in Containers /\ h # Nil
        BY <2>1, OwnContainers, NilFresh DEF Holders, TypeOK, AppState, Option
      <4>3. Running(h)
        BY <4>1, <4>2 DEF Running
      <4>4. c = h
        BY <2>1, <4>1, <4>2, <4>3 DEF PortsInv
      <4> QED BY <4>4
    <3> QED BY <3>1, <3>2
  <2> QED BY <2>1, <2>2, <2>3, HoldersHealthy
<1> QED BY <1>1, <1>2, <1>3, WorldInvariant, PTL DEF Spec

-----------------------------------------------------------------------------
(* An HTTP app has its route.                                              *)

\* What it takes: the switches, no failure of the call that restores a route, and no
\* deadline while a recreate has taken the route away.
Restores ==
  /\ Switches /\ "restore" \notin FailingCalls
  /\ DeadlineSteps \cap (RecreateSteps \cup RollbackSteps) = {}

\* The steps at which a recreate or its rollback leaves the app without a route.
Away == Waits \cup {"rb_route"}

\* The route of an HTTP app leads to a port, but for those steps; the fallback container
\* is recorded with the route.
ZeroInv ==
  /\ \A d \in Deploys : pc[d] = "t2_update" /\ Routed => route = runtime[Fallback(d)].port
  /\ /\ app.port # 0 /\ (app.cid = Nil \/ app.pod = Nil) /\ ~RollbackFailed
     /\ \A d \in Deploys : pc[d] \notin Away
     => route \in Ports

\* Only two steps lead to that record.
LEMMA ZeroParts ==
  ASSUME WorldInv, NEW d \in Deploys, Task(d),
         pc'[d] = "t2_update" /\ Routed => route' = runtime'[Fallback(d)].port,
         \/ app'.port = 0 \/ ~(app'.cid = Nil \/ app'.pod = Nil)
         \/ ctx'[d].rollbackFailed \/ pc'[d] \in Away \/ route' \in Ports
  PROVE  ZeroInv'
<1>1. InFlight(d) /\ OthersStay(d)
  BY KnownAt, TaskMoves
<1>2. \A e \in Deploys \ {d} : pc'[e] \in {"idle", "done"}
  BY <1>1, Alone DEF WorldInv
<1>3. ctx'[d].rollbackFailed => RollbackFailed'
  BY DEF RollbackFailed
<1> QED BY <1>2, <1>3 DEF ZeroInv

\* A step that leaves the route and the app state alone.
LEMMA ZeroKept ==
  ASSUME WorldInv, ZeroInv, NEW d \in Deploys, Task(d), ~(T2Health(d) \/ T2Route(d)),
         pc[d] \notin Away, SameApp, route' = route
  PROVE  ZeroInv'
<1>1. InFlight(d) /\ OthersStay(d) /\ pc'[d] # "t2_update"
  BY KnownAt, TaskMoves
<1>2. \A e \in Deploys : pc[e] \notin Away
  BY <1>1 DEF WorldInv, OneDeployAtATime, InFlight, Away, Waits, OldDown, Tier2, RecreateSteps
<1>3. ~RollbackFailed' => ~RollbackFailed
  BY <1>1, NoneHadFailed
<1>4. \A e \in Deploys : pc'[e] # "t2_update"
  BY <1>1, Alone DEF WorldInv
<1> QED BY <1>2, <1>3, <1>4 DEF ZeroInv, SameApp

\* The port of a running container that has one.
LEMMA PortedPort ==
  ASSUME WorldInv, NEW c \in Containers, Running(c), Ported(c)
  PROVE  runtime[c].port \in Ports
<1>1. TypeOK /\ PortsInv
  BY DEF WorldInv, TypeInv, PlaceInv
<1>2. runtime[c] \in Container
  BY <1>1 DEF TypeOK
<1> QED BY <1>1, <1>2 DEF PortsInv, Container, HostPorts

\* Before the switch, and beside it.
LEMMA BlueGreenZero ==
  ASSUME WorldInv, ZeroInv, NEW d \in Deploys, Task(d), ~Timeout(d),
         \/ LookUpApp(d) \/ PullImages(d) \/ Configure(d)
         \/ BgStart(d) \/ BgHealth(d) \/ BgVerify(d) \/ BgDiscard(d) \/ BgDrain(d)
         \/ PodDeploy(d) \/ PodHealth(d) \/ PodDiscard(d) \/ PodDrain(d)
         \/ RcStop(d) \/ RcRemoveOld(d)
  PROVE  ZeroInv'
<1>0. TypeInv /\ TypeOK
  BY KnownAt
<1>1. pc[d] \in {"accepted", "pulling", "configuring", "bg_start", "bg_health", "bg_verify",
                 "bg_discard", "bg_drain", "pod_deploy", "pod_health", "pod_discard",
                 "pod_drain", "rc_stop", "rc_remove_old"}
  BY DEF LookUpApp, PullImages, Configure, BgStart, BgHealth, BgVerify, BgDiscard, BgDrain,
         PodDeploy, PodHealth, PodDiscard, PodDrain, RcStop, RcRemoveOld
<1>2. /\ pc[d] \notin Away
      /\ ~(BgUpdate(d) \/ PodUpdate(d) \/ RcUpdate(d) \/ T2Update(d) \/ T2Health(d) \/ T2Route(d))
  BY <1>1
     DEF Away, Waits, OldDown, Tier2, RecreateSteps, BgUpdate, PodUpdate, RcUpdate, T2Update,
         T2Health, T2Route
<1>3. SameApp
  BY <1>0, <1>2, TaskMoves
<1>4. route' = route
  BY <1>0, LookUpMoves, ConfigureMoves, BgStartMoves, BgHealthMoves, BgVerifyMoves,
     DiscardMoves, DrainMoves, PodDeployMoves, PodHealthMoves, RcStopMoves DEF Makes
<1> QED BY <1>2, <1>3, <1>4, ZeroKept

\* The switch: the new container has a port.
LEMMA SwitchZero ==
  ASSUME Switches, WorldInv, ZeroInv, NEW d \in Deploys, Task(d), BgSwitch(d) \/ PodSwitch(d)
  PROVE  ZeroInv'
<1>0. /\ TypeInv /\ TypeOK /\ PlaceAt(d) /\ ~Fails("reply")
      /\ New(d) \in Containers /\ New(d)[1] = d
  BY KnownAt DEF Switches, Fails
<1>1. pc[d] \in {"bg_switch", "pod_switch"}
  BY DEF BgSwitch, PodSwitch
<1>2. /\ pc[d] \notin Away
      /\ ~(BgUpdate(d) \/ PodUpdate(d) \/ RcUpdate(d) \/ T2Update(d) \/ T2Health(d) \/ T2Route(d))
  BY <1>1
     DEF Away, Waits, OldDown, Tier2, RecreateSteps, BgUpdate, PodUpdate, RcUpdate, T2Update,
         T2Health, T2Route
<1>3. SameApp /\ pc'[d] # "t2_update"
  BY <1>0, <1>2, TaskMoves
<1>4. route' = route \/ route' = ctx[d].port
  BY <1>0, RouteMoves
<1>5. ctx[d].port \in Ports
  <2>1. Running(New(d)) /\ Ported(New(d)) /\ ctx[d].port = runtime[New(d)].port
    BY <1>0, <1>1 DEF PlaceAt, OwnAt, TaskAt, NewUp, HasPort, Ported
  <2> QED BY <1>0, <2>1, PortedPort
<1> QED BY <1>2, <1>3, <1>4, <1>5, ZeroKept, ZeroParts

\* The record of a new container.
LEMMA RecordZero ==
  ASSUME Switches, WorldInv, ServeInv, NEW d \in Deploys, Task(d),
         BgUpdate(d) \/ RcUpdate(d) \/ PodUpdate(d)
  PROVE  ZeroInv'
<1>0. /\ TypeOK /\ TypeInv /\ PlaceAt(d) /\ PortsInv
      /\ New(d) \in Containers /\ New(d)[1] = d
  BY KnownAt
<1>1. /\ route' = route /\ app'.port = ctx[d].port /\ pc[d] \in Updates
      /\ pc'[d] \in {"bg_drain", "rc_remove_old", "pod_drain", "done"}
  BY <1>0, ContainerRecorded, PodRecorded DEF Records, Updates
<1>2. Running(New(d)) /\ ctx[d].port = runtime[New(d)].port
  BY <1>0, <1>1, NoneBlind DEF PlaceAt, OwnAt, NewUp, HasPort, Updates
<1>3. CASE IsHttp(d)
  <2>1. route = runtime[New(d)].port
    BY <1>1, <1>2, <1>3 DEF ServeInv, RouteAt
  <2>2. Ported(New(d))
    BY <1>0, <1>3 DEF Ported
  <2>3. route' \in Ports
    BY <1>0, <1>1, <1>2, <2>1, <2>2, PortedPort
  <2> QED BY <1>1, <2>3, ZeroParts
<1>4. CASE ~IsHttp(d)
  <2>1. app'.port = 0
    BY <1>0, <1>1, <1>2, <1>4 DEF PortsInv, Ported
  <2> QED BY <1>1, <2>1, ZeroParts
<1> QED BY <1>3, <1>4

\* A recreate and its rollback, up to the end.
LEMMA RecreateZero ==
  ASSUME Restores, WorldInv, ServeInv, ZeroInv, NEW d \in Deploys, Task(d), ~Timeout(d),
         \/ RcUnroute(d) \/ RcStart(d) \/ RcHealth(d) \/ RcDiscard(d) \/ RcSwitch(d)
         \/ T2Create(d) \/ T2Health(d) \/ T2Route(d) \/ T2Discard(d)
  PROVE  ZeroInv'
<1>0. TypeInv /\ TypeOK /\ ~Fails("restore")
  BY KnownAt DEF Restores, Fails
<1>1. pc[d] \in {"rc_unroute", "rc_start", "rc_health", "rc_discard", "rc_switch", "t2_create",
                 "t2_health", "t2_route", "t2_discard"}
  BY DEF RcUnroute, RcStart, RcHealth, RcDiscard, RcSwitch, T2Create, T2Health, T2Route,
         T2Discard
<1>2. pc[d] \in Waits /\ ~(RcUpdate(d) \/ RbRestart(d) \/ T2Update(d))
  BY <1>1 DEF Waits, OldDown, Tier2, RecreateSteps, RcUpdate, RbRestart, T2Update
<1>3. pc'[d] \in Away \/ ctx'[d].rollbackFailed
  BY <1>0, <1>2, WaitsOn DEF Away
<1>4. pc'[d] = "t2_update" /\ Routed => route' = runtime'[Fallback(d)].port
  <2> SUFFICES ASSUME pc'[d] = "t2_update", Routed PROVE route' = runtime'[Fallback(d)].port
    OBVIOUS
  <2>1. \A to : Plain(d, to) => pc'[d] \in to
    BY DEF Plain, MovesTo
  <2>2. T2Route(d)
    BY <1>0, <2>1, TaskMoves, T2HealthMoves
  <2> QED BY <1>0, <2>2, T2RouteMoves DEF Still
<1> QED BY <1>3, <1>4, ZeroParts

\* The end of a rollback.
LEMMA RollbackZero ==
  ASSUME Restores, WorldInv, ServeInv, ZeroInv, NEW d \in Deploys, Task(d),
         RbRestart(d) \/ RbRoute(d) \/ T2Update(d)
  PROVE  ZeroInv'
<1>0. /\ TypeInv /\ TypeOK /\ PlaceAt(d) /\ PortsInv /\ EntryInv
      /\ ~Fails("restore") /\ ~Fails("inspect")
      /\ Fallback(d) \in Containers /\ Fallback(d)[1] = d /\ Fallback(d) # New(d)
      /\ app.cid \in Containers \cup {Nil}
  BY KnownAt DEF Restores, Switches, Fails
<1>1. \A to : Plain(d, to) => pc'[d] \in to
  BY DEF Plain, MovesTo
<1>2. CASE RbRestart(d)
  <2>1. pc[d] = "rb_restart" /\ SameApp
    <3>1. pc[d] = "rb_restart"
      BY <1>2 DEF RbRestart
    <3> QED BY <1>0, <3>1, TaskMoves DEF BgUpdate, RcUpdate, PodUpdate, T2Update
  <2>2. \/ pc'[d] \in Away \/ ctx'[d].rollbackFailed
        \/ pc'[d] = "done" /\ ~Routed
    BY <1>0, <1>1, <1>2, RbRestartMoves DEF FallsBack, AppIsDown, Away, Waits, OldDown, Tier2
  <2>3. ~Routed => app'.port = 0
    BY <1>0, <2>1 DEF EntryInv, SameApp
  <2>4. pc'[d] # "t2_update"
    BY <1>0, <2>1, TaskMoves DEF T2Health, T2Route
  <2> QED BY <2>2, <2>3, <2>4, ZeroParts
<1>3. CASE RbRoute(d)
  <2>1. pc[d] = "rb_route" /\ SameApp /\ pc'[d] = "done" /\ route' = runtime[ctx[d].old].port
    BY <1>0, <1>3, RbRouteMoves DEF Plain, MovesTo
  <2>2. ctx[d].old = app.cid /\ Running(app.cid) /\ app.cid \in Containers
    BY <1>0, <2>1 DEF PlaceAt, OldAt, OldIsCid, RollbackSteps, Running
  <2>3. CASE app.port = 0 \/ app.pod # Nil
    <3>1. app'.port = 0 \/ ~(app'.cid = Nil \/ app'.pod = Nil)
      BY <2>1, <2>2, <2>3, NilFresh DEF SameApp
    <3> QED BY <2>1, <3>1, ZeroParts
  <2>4. CASE app.port # 0 /\ app.pod = Nil
    <3>1. Ported(app.cid)
      BY <1>0, <2>4 DEF EntryInv
    <3>2. route' \in Ports
      BY <2>1, <2>2, <3>1, PortedPort
    <3> QED BY <2>1, <3>2, ZeroParts
  <2> QED BY <2>3, <2>4
<1>4. CASE T2Update(d)
  <2>1. pc[d] = "t2_update" /\ route' = route /\ pc'[d] = "done"
    BY <1>0, <1>4, T2UpdateMoves DEF MovesTo
  <2>2. app.tag # Nil /\ Running(Fallback(d))
    BY <1>0, <2>1 DEF PlaceAt, OwnAt, TaskAt, Tier2, RollbackSteps, FallbackUp
  <2>3. app'.port = runtime[Fallback(d)].port
    BY <1>0, <1>4, <2>2, T2UpdateMoves DEF EntryInv
  <2>4. CASE Routed
    <3>1. Ported(Fallback(d)) /\ route = runtime[Fallback(d)].port
      BY <1>0, <2>1, <2>4 DEF Ported, ZeroInv
    <3>2. route' \in Ports
      BY <1>0, <2>1, <2>2, <3>1, PortedPort
    <3> QED BY <2>1, <3>2, ZeroParts
  <2>5. CASE ~Routed
    <3>1. app'.port = 0
      BY <1>0, <2>2, <2>3, <2>5 DEF PortsInv, Ported
    <3> QED BY <2>1, <3>1, ZeroParts
  <2> QED BY <2>4, <2>5
<1> QED BY <1>2, <1>3, <1>4

\* The deadline and its cleanup.
LEMMA TimeoutZero ==
  ASSUME Restores, WorldInv, ZeroInv, NEW d \in Deploys, Task(d), Timeout(d) \/ TimeoutCleanup(d)
  PROVE  ZeroInv'
<1>0. /\ TypeInv /\ SameApp
  BY KnownAt, TimeoutMoves, CleanupMoves DEF Plain, MovesTo
<1>1. pc[d] \in {"accepted", "pulling", "configuring", "bg_start", "bg_health", "bg_verify",
                 "bg_discard", "pod_deploy", "pod_health", "pod_discard", "pod_drain",
                 "timeout_cleanup"}
  <2>1. TimeoutCleanup(d) => pc[d] = "timeout_cleanup"
    BY <1>0, CleanupMoves
  <2>2. Timeout(d) => pc[d] \in DeadlineSteps
    BY <1>0, TimeoutMoves
  <2> QED BY <2>1, <2>2, ConstantsAssumption
          DEF Restores, Switches, TimedSteps, BlueGreenSteps, PodSteps
<1>2. route' = route
  <2>1. CallRoute(d) = {route}
    BY <1>1 DEF CallRoute
  <2> QED BY <1>0, <2>1, TimeoutMoves, CleanupMoves
<1>3. pc[d] \notin Away /\ ~(T2Health(d) \/ T2Route(d))
  BY <1>1 DEF Away, Waits, OldDown, Tier2, RecreateSteps, T2Health, T2Route
<1> QED BY <1>0, <1>2, <1>3, ZeroKept

\* Every step.
LEMMA NextZero ==
  ASSUME Restores, WorldInv, ServeInv, ZeroInv, [Next]_vars
  PROVE  ZeroInv'
<1>1. CASE UNCHANGED vars
  BY <1>1 DEF vars, ZeroInv, RollbackFailed
<1>2. CASE Request
  <2>1. PICK d \in Deploys : /\ pc[d] = "idle" /\ pc' = [pc EXCEPT ![d] = "accepted"]
                             /\ \E c : ctx' = [ctx EXCEPT ![d] = c]
                             /\ app' = app /\ runtime' = runtime /\ route' = route
    BY <1>2 DEF Request, HandleDeploy
  <2>2. /\ pc'[d] = "accepted" /\ \A e \in Deploys \ {d} : pc'[e] = pc[e] /\ ctx'[e] = ctx[e]
        /\ ~ctx[d].rollbackFailed
    BY <2>1, KnownAt DEF TypeOK, PlaceAt, TaskAt
  <2>3. RollbackFailed => RollbackFailed'
    BY <2>2 DEF RollbackFailed
  <2>4. (\A e \in Deploys : pc'[e] \notin Away) => \A e \in Deploys : pc[e] \notin Away
    BY <2>1, <2>2 DEF Away, Waits, OldDown, Tier2, RecreateSteps
  <2> QED BY <2>1, <2>2, <2>3, <2>4 DEF ZeroInv
<1>3. ASSUME NEW d \in Deploys, Task(d) PROVE ZeroInv'
  <2>1. Switches
    BY DEF Restores
  <2>2. CASE Timeout(d) \/ TimeoutCleanup(d)
    BY <1>3, <2>1, <2>2, TimeoutZero
  <2>3. CASE ~(Timeout(d) \/ TimeoutCleanup(d))
    BY <1>3, <2>1, <2>3, BlueGreenZero, SwitchZero, RecordZero, RecreateZero, RollbackZero
       DEF Task, BlueGreen, Pod, Recreate, Rollback
  <2> QED BY <2>2, <2>3
<1> QED BY <1>1, <1>2, <1>3 DEF Next

\* Zero downtime: while the current version of the app is an HTTP one, its route leads to
\* a running container at every moment of every blue-green deploy, whatever fails, and
\* after every recreate whose rollback does not end in tier 3.
THEOREM ZeroDowntimeHolds ==
  ASSUME Restores
  PROVE  Spec => []ZeroDowntime
<1>1. Init => TidyServeInv /\ ZeroInv
  <2> SUFFICES ASSUME Init PROVE TidyServeInv /\ ZeroInv
    OBVIOUS
  <2>1. app.port = 0 /\ \A d \in Deploys : pc[d] = "idle"
    BY DEF Init, NoApp
  <2> QED BY <2>1 DEF TidyServeInv, CleanInv, ServeInv, RouteAt, Updates, Unrouted, ZeroInv
<1>2. WorldInv /\ TidyServeInv /\ ZeroInv /\ [Next]_vars => TidyServeInv' /\ ZeroInv'
  BY NextServe, NextZero DEF Restores, TidyServeInv
<1>3. WorldInv /\ TidyServeInv /\ ZeroInv => ZeroDowntime
  <2> SUFFICES ASSUME WorldInv, TidyServeInv, ZeroInv,
                      app.port # 0, app.cid = Nil \/ app.pod = Nil, ~RollbackFailed,
                      \A d \in Deploys : InFlight(d) => ctx[d].strategy # "recreate"
               PROVE  Serving
    BY DEF ZeroDowntime
  <2>1. \A d \in Deploys : pc[d] \notin Away
    <3>1. \A d \in Deploys : TaskAt(d)
      BY DEF WorldInv, PlaceInv, PlaceAt
    <3> QED BY <3>1 DEF TaskAt, InFlight, Away, Waits, OldDown, Tier2, RecreateSteps, RollbackSteps
  <2>2. route \in Ports
    BY <2>1 DEF ZeroInv
  <2>3. \A d \in Deploys : pc[d] # "rc_unroute"
    BY <2>1 DEF Away, Waits, OldDown, RecreateSteps
  <2>4. PICK h \in Holders : runtime[h].st = "running" /\ runtime[h].port = route
    BY <2>2, <2>3 DEF TidyServeInv, ServeInv
  <2>5. h \in Containers /\ Running(h)
    <3>1. TypeOK
      BY DEF WorldInv, TypeInv
    <3>2. h \in Containers
      BY <3>1, OwnContainers DEF Holders, TypeOK, AppState, Option
    <3> QED BY <2>4, <3>2, NilFresh DEF Running
  <2>6. route # 0
    BY <2>2, PortNumbers
  <2> QED BY <2>4, <2>5, <2>6 DEF Serving
<1> QED BY <1>1, <1>2, <1>3, WorldInvariant, PTL DEF Spec

-----------------------------------------------------------------------------
(* Slipd: what Deploy promises also holds around crashes and restarts of   *)
(* the daemon, ticks of the reconcile loop, restarts of Caddy, and         *)
(* deletion of the app.                                                    *)

\* The inductive invariant.
SlipdInv ==
  /\ TypeInv
  /\ SlipdTypeOK
  /\ OneDeployAtATime
  /\ HealthInv

-----------------------------------------------------------------------------
(* Operators of the daemon.                                                *)

\* What a reconcile leaves in Caddy is a route.
LEMMA ReconciledType ==
  ASSUME TypeOK, NEW a \in AppState, NEW b
  PROVE  ReconciledRoute(a, b) \in Option(HostPorts)
  BY DEF ReconciledRoute, TypeOK, AppState, Option

\* load_app_states and verify_containers make an app state that names nothing
\* but what the file names.
LEMMA LoadedType ==
  ASSUME TypeOK
  PROVE  /\ Loaded \in AppState /\ Verified(Loaded) \in AppState
         /\ Loaded.cid = disk.cid /\ Loaded.pod = disk.pod
         /\ Verified(Loaded).cid \in {disk.cid, Nil} /\ Verified(Loaded).pod = disk.pod
<1>1. disk \in PersistedState
  BY DEF TypeOK
<1>2. Loaded \in AppState /\ Loaded.cid = disk.cid /\ Loaded.pod = disk.pod
  BY <1>1 DEF Loaded, PersistedState, AppState, AppStatus, Option
<1>3. /\ Verified(Loaded) \in AppState
      /\ Verified(Loaded).cid \in {Loaded.cid, Nil} /\ Verified(Loaded).pod = Loaded.pod
  BY <1>2, ZenonT(40) DEF Verified, AppState, AppStatus, Option, HostPorts
<1> QED BY <1>2, <1>3

\* The calls of the delete handler remove what the app state names, or nothing.
LEMMA DeleteRuntimeSpares ==
  ASSUME TypeOK
  PROVE  /\ DeleteRuntime \in [Containers -> Container]
         /\ \A c \in Containers : Spares(DeleteRuntime, c)
<1>1. \A x \in Option(Containers) :
        /\ Removed(x) \in [Containers -> Container]
        /\ \A c \in Containers : Spares(Removed(x), c)
  <2>1. ASSUME NEW x \in Containers
        PROVE  /\ Removed(x) \in [Containers -> Container]
               /\ \A c \in Containers : Spares(Removed(x), c)
    BY ChangedType, ChangedSpares
  <2>2. Removed(Nil) = runtime /\ runtime \in [Containers -> Container]
    BY NilFresh DEF Removed, TypeOK
  <2>3. \A c \in Containers : Spares(runtime, c)
    BY DEF Spares
  <2> QED BY <2>1, <2>2, <2>3 DEF Option
<1>2. app.cid \in Option(Containers) /\ app.pod \in Option(Containers)
  BY DEF TypeOK, AppState
<1>3. /\ runtime \in [Containers -> Container]
      /\ \A c \in Containers : Spares(runtime, c)
  BY DEF Spares, TypeOK
<1>4. CASE del = "stop"
  BY <1>1, <1>2, <1>4 DEF DeleteRuntime
<1>5. CASE del = "pod"
  BY <1>1, <1>2, <1>5 DEF DeleteRuntime
<1>6. CASE del \notin {"stop", "pod"}
  BY <1>3, <1>6 DEF DeleteRuntime
<1> QED BY <1>4, <1>5, <1>6

-----------------------------------------------------------------------------
(* The actions.                                                            *)

\* What happens outside the deploys leaves their tasks alone and names nothing new.
LEMMA OutsideHealth ==
  ASSUME TypeOK, HealthInv, UNCHANGED <<pc, ctx>>, Named' \subseteq Named,
         \A c \in Containers : Spares(runtime', c)
  PROVE  HealthInv'
<1>1. ASSUME NEW c \in Containers, Healthy(c) PROVE Healthy(c)'
  BY <1>1 DEF Healthy, Spares
<1>2. \A c \in Named' : Healthy(c)'
  BY <1>1, NamedType DEF HealthInv
<1>3. \A d \in Deploys : DeployHealth(d)'
  BY <1>1, OwnContainers DEF HealthInv, DeployHealth
<1> QED BY <1>2, <1>3 DEF HealthInv

\* A step of a deploy: the daemon's own variables stay, and the delete handler
\* is not between its steps.
LEMMA DeployStepInv ==
  ASSUME SlipdInv, DeployStep
  PROVE  SlipdInv'
<1>1. TypeInv' /\ OneDeployAtATime' /\ HealthInv'
  BY NextType, NextExclusive, NextHealth DEF SlipdInv, DeployStep, TypeInv
<1>2. (lock' = "api") <=> (lock = "api")
  <2>1. CASE Request
    BY <2>1, SlipdAssumption DEF Request, HandleDeploy
  <2>2. ASSUME NEW d \in Deploys, Task(d) PROVE (lock' = "api") <=> (lock = "api")
    BY <2>2, TaskGoes, SlipdAssumption DEF Goes, SlipdInv, TypeInv, OneDeployAtATime
  <2> QED BY <2>1, <2>2 DEF DeployStep, Next
<1>3. SlipdTypeOK'
  BY <1>1, <1>2 DEF SlipdInv, SlipdTypeOK, DeployStep, slipdVars, TypeInv
<1> QED BY <1>1, <1>3 DEF SlipdInv

\* Ticks of the reconcile loop and restarts of Caddy change only the route.
LEMMA RouteStepInv ==
  ASSUME SlipdInv, Snapshot \/ ApplySnapshot \/ CaddyRestart
  PROVE  SlipdInv'
<1> USE DEF SlipdInv, TypeInv
<1>1. UNCHANGED <<lock, pc, ctx, app, disk, runtime, registered>>
  BY DEF Snapshot, ApplySnapshot, CaddyRestart, vars
<1>2. route' \in Option(HostPorts)
  BY ReconciledType DEF Snapshot, ApplySnapshot, CaddyRestart, vars, TypeOK, SlipdTypeOK,
                        Option
<1>3. TypeInv'
  BY <1>1, <1>2 DEF TypeOK, OldKnown
<1>4. SlipdTypeOK'
  <2>1. NoApp \in AppState /\ app \in AppState
    BY DEF NoApp, AppState, AppStatus, Option, HostPorts, TypeOK
  <2>2. UNCHANGED <<up, config, del>>
    BY DEF Snapshot, ApplySnapshot, CaddyRestart, slipdVars
  <2>3. snap' \in AppState
    BY <2>1 DEF Snapshot, ApplySnapshot, CaddyRestart, slipdVars, SlipdTypeOK
  <2>4. snapApp' \in BOOLEAN
    BY DEF Snapshot, ApplySnapshot, CaddyRestart, slipdVars, SlipdTypeOK, TypeOK
  <2>5. ticking' \in BOOLEAN /\ (ticking' => up')
    <3>1. CASE Snapshot
      <4>1. up = TRUE /\ ticking' = TRUE
        BY <3>1 DEF Snapshot, SlipdTypeOK
      <4> QED BY <2>2, <4>1
    <3>2. CASE ApplySnapshot
      BY <3>2 DEF ApplySnapshot
    <3>3. CASE CaddyRestart
      BY <3>3 DEF CaddyRestart, slipdVars, SlipdTypeOK
    <3> QED BY <3>1, <3>2, <3>3
  <2> QED BY <1>1, <1>3, <2>2, <2>3, <2>4, <2>5 DEF SlipdTypeOK
<1>5. OneDeployAtATime'
  BY <1>1 DEF OneDeployAtATime, InFlight
<1>6. HealthInv'
  BY <1>1 DEF HealthInv, DeployHealth, Named, Healthy
<1> QED BY <1>3, <1>4, <1>5, <1>6

\* No deploy is in flight while a handler of the API holds the lock, or nobody does.
LEMMA NoneInFlight ==
  ASSUME OneDeployAtATime, lock \in {"api", Nil}, NEW d \in Deploys
  PROVE  ~InFlight(d)
  BY SlipdAssumption, NilFresh DEF OneDeployAtATime

\* Creation and deletion of the app, and a client that goes away.
LEMMA ApiInv ==
  ASSUME SlipdInv, Api
  PROVE  SlipdInv'
<1> USE DEF SlipdInv, TypeInv
<1>0. UNCHANGED <<pc, ctx, up, snap, snapApp, ticking>>
  BY DEF Api, CreateApp, DeleteApp, DeleteStop, DeleteRoute, DeleteState, DeleteConfig,
         Disconnect
<1>1. lock \in {"api", Nil} /\ lock' \in {"api", Nil}
  BY DEF Api, CreateApp, DeleteApp, DeleteStop, DeleteRoute, DeleteState, DeleteConfig,
         Disconnect, SlipdTypeOK
<1>2. runtime' \in {runtime, DeleteRuntime}
  BY DEF Api, CreateApp, DeleteApp, DeleteStop, DeleteRoute, DeleteState, DeleteConfig,
         Disconnect
<1>3. route' \in {route, Nil}
  BY DEF Api, CreateApp, DeleteApp, DeleteStop, DeleteRoute, DeleteState, DeleteConfig,
         Disconnect, DeletedRoute
<1>4. /\ app' \in {app, NoApp} /\ disk' \in {disk, [disk EXCEPT !.file = TRUE]}
      /\ registered' \in BOOLEAN /\ config' \in BOOLEAN
  BY DEF Api, CreateApp, DeleteApp, DeleteStop, DeleteRoute, DeleteState, DeleteConfig,
         Disconnect, TypeOK, SlipdTypeOK
<1>5. del' \in DeleteSteps /\ (lock' = "api" <=> del' # "none")
  BY SlipdAssumption
     DEF Api, CreateApp, DeleteApp, DeleteStop, DeleteRoute, DeleteState, DeleteConfig,
         Disconnect, SlipdTypeOK, DeleteSteps
<1>6. TypeInv'
  <2>1. NoApp \in AppState /\ app \in AppState /\ disk \in PersistedState
    BY DEF NoApp, AppState, AppStatus, Option, HostPorts, TypeOK
  <2>2. [disk EXCEPT !.file = TRUE] \in PersistedState
    BY <2>1 DEF PersistedState
  <2>3. app' \in AppState /\ disk' \in PersistedState
    BY <1>4, <2>1, <2>2
  <2>4. runtime' \in [Containers -> Container]
    BY <1>2, DeleteRuntimeSpares DEF TypeOK
  <2>5. lock' \in Option(Deploys \cup {"api"}) /\ route' \in Option(HostPorts)
    BY <1>1, <1>3 DEF TypeOK, Option
  <2> QED BY <1>0, <1>4, <2>3, <2>4, <2>5 DEF TypeOK, OldKnown
<1>7. SlipdTypeOK'
  BY <1>0, <1>4, <1>5, <1>6 DEF SlipdTypeOK
<1>8. OneDeployAtATime'
  BY <1>0, <1>1, NoneInFlight DEF OneDeployAtATime, InFlight
<1>9. HealthInv'
  <2>1. Named' \subseteq Named
    <3>1. app'.cid \in {app.cid, Nil} /\ app'.pod \in {app.pod, Nil}
      BY <1>4 DEF NoApp
    <3>2. disk'.cid = disk.cid /\ disk'.pod = disk.pod
      BY <1>4 DEF TypeOK, PersistedState
    <3> QED BY <3>1, <3>2 DEF Named
  <2>2. \A c \in Containers : Spares(runtime', c)
    <3>1. \A c \in Containers : Spares(runtime, c)
      BY DEF Spares
    <3> QED BY <1>2, <3>1, DeleteRuntimeSpares
  <2> QED BY <1>0, <2>1, <2>2, OutsideHealth
<1> QED BY <1>6, <1>7, <1>8, <1>9

\* slipd dies with a deploy, a tick or a deletion in flight.
LEMMA CrashInv ==
  ASSUME SlipdInv, Crash
  PROVE  SlipdInv'
<1> USE DEF SlipdInv, TypeInv
<1>0. /\ UNCHANGED <<ctx, disk>> /\ app' = NoApp /\ lock' = Nil
      /\ pc' \in [Deploys -> {"idle", "done"}]
      /\ \A d \in Deploys : pc'[d] = "idle" => pc[d] = "idle"
  BY DEF Crash, InFlight, TypeOK
<1>1. /\ registered' \in BOOLEAN /\ config' \in BOOLEAN /\ del' = "none"
      /\ up' = FALSE /\ snap' = NoApp /\ snapApp' = FALSE /\ ticking' = FALSE
  BY DEF Crash, SlipdTypeOK
<1>2. \/ runtime' \in {runtime, DeleteRuntime}
      \/ \E d \in Deploys : runtime' \in CallRuntime(d)
  BY DEF Crash
<1>3. \/ route' \in {route, Nil, ReconciledRoute(snap, snapApp)}
      \/ \E d \in Deploys : route' \in CallRoute(d)
  BY DEF Crash, DeletedRoute
<1>4. NoApp \in AppState
  BY DEF NoApp, AppState, AppStatus, Option, HostPorts
<1>5. TypeInv'
  <2>1. runtime' \in [Containers -> Container]
    BY <1>2, DeleteRuntimeSpares, CallRuntimeType DEF TypeOK
  <2>2. route' \in Option(HostPorts)
    <3>1. ReconciledRoute(snap, snapApp) \in Option(HostPorts)
      BY ReconciledType DEF SlipdTypeOK
    <3> QED BY <1>3, <3>1, CallRouteType DEF TypeOK, Option
  <2>3. lock' \in Option(Deploys \cup {"api"}) /\ pc' \in [Deploys -> Steps]
    BY <1>0 DEF Option, Steps
  <2>4. OldKnown'
    BY <1>0 DEF OldKnown, OldSteps
  <2> QED BY <1>0, <1>1, <1>4, <2>1, <2>2, <2>3, <2>4 DEF TypeOK
<1>6. SlipdTypeOK'
  BY <1>0, <1>1, <1>4, <1>5, SlipdAssumption DEF SlipdTypeOK, DeleteSteps
<1>7. OneDeployAtATime'
  BY <1>0 DEF OneDeployAtATime, InFlight
<1>8. HealthInv'
  <2>1. Named' \subseteq Named
    BY <1>0 DEF Named, NoApp
  <2>2. \A c \in Named : Spares(runtime', c)
    <3>1. \A c \in Containers : Spares(runtime, c) /\ Spares(DeleteRuntime, c)
      BY DeleteRuntimeSpares DEF Spares
    <3>2. ASSUME NEW d \in Deploys, runtime' \in CallRuntime(d), NEW c \in Named
          PROVE  Spares(runtime', c)
      BY <3>2, CallSpares, NamedType DEF SparesOthers, HealthInv, DeployHealth
    <3> QED BY <1>2, <3>1, <3>2, NamedType
  <2>3. \A c \in Named' : Healthy(c)'
    BY <1>0, <2>1, <2>2 DEF HealthInv, Healthy, Spares
  <2>4. \A d \in Deploys : DeployHealth(d)'
    <3> SUFFICES ASSUME NEW d \in Deploys PROVE DeployHealth(d)'
      OBVIOUS
    <3>1. pc'[d] \in {"idle", "done"} /\ (pc'[d] = "idle" => pc[d] = "idle")
      BY <1>0
    <3>2. DeployHealth(d)
      BY DEF HealthInv
    <3> QED BY <1>0, <2>1, <3>1, <3>2
            DEF DeployHealth, NewChecked, FallbackChecked, MayBeNamed
  <2> QED BY <2>3, <2>4 DEF HealthInv
<1> QED BY <1>5, <1>6, <1>7, <1>8

\* slipd comes back: what it loads is what the file names.
LEMMA BootInv ==
  ASSUME SlipdInv, Boot
  PROVE  SlipdInv'
<1> USE DEF SlipdInv, TypeInv
<1>0. UNCHANGED <<lock, pc, ctx, disk, runtime, config, snap, snapApp, ticking, del>>
      /\ up' = TRUE /\ registered' = config
  BY DEF Boot
<1>1. app' \in {Loaded, Verified(Loaded)}
  BY DEF Boot
<1>2. app' \in AppState
  BY <1>1, LoadedType
<1>3. route' \in Option(HostPorts)
  <2>1. ReconciledRoute(app', config) \in Option(HostPorts)
    BY <1>2, ReconciledType
  <2> QED BY <2>1 DEF Boot, TypeOK
<1>4. TypeInv'
  BY <1>0, <1>2, <1>3 DEF TypeOK, OldKnown, SlipdTypeOK
<1>5. SlipdTypeOK'
  BY <1>0, <1>4 DEF SlipdTypeOK
<1>6. OneDeployAtATime'
  BY <1>0 DEF OneDeployAtATime, InFlight
<1>7. HealthInv'
  <2>1. Named' \subseteq Named
    BY <1>0, <1>1, LoadedType DEF Named
  <2>2. \A c \in Containers : Spares(runtime', c)
    BY <1>0 DEF Spares
  <2> QED BY <1>0, <2>1, <2>2, OutsideHealth
<1> QED BY <1>4, <1>5, <1>6, <1>7

\* The invariant of the daemon.
LEMMA SlipdInvariant == SlipdSpec => []SlipdInv
<1>1. SlipdInit => SlipdInv
  <2> SUFFICES ASSUME SlipdInit PROVE SlipdInv
    OBVIOUS
  <2>1. TypeInv /\ HealthInv
    BY InitType, InitHealth DEF SlipdInit
  <2>2. OneDeployAtATime /\ lock = Nil
    BY DEF SlipdInit, Init, OneDeployAtATime, InFlight
  <2>3. NoApp \in AppState
    BY DEF NoApp, AppState, AppStatus, Option, HostPorts
  <2>4. SlipdTypeOK
    BY <2>1, <2>2, <2>3, SlipdAssumption DEF SlipdInit, SlipdTypeOK, TypeInv, DeleteSteps
  <2> QED BY <2>1, <2>2, <2>4 DEF SlipdInv
<1>2. SlipdInv /\ [SlipdNext]_allVars => SlipdInv'
  <2> SUFFICES ASSUME SlipdInv, [SlipdNext]_allVars PROVE SlipdInv'
    OBVIOUS
  <2>1. CASE UNCHANGED allVars
    <3>1. UNCHANGED vars /\ UNCHANGED slipdVars
      BY <2>1 DEF allVars
    <3>2. TypeInv' /\ OneDeployAtATime' /\ HealthInv'
      BY <3>1, NextType, NextExclusive, NextHealth DEF SlipdInv, TypeInv
    <3> QED BY <3>1, <3>2 DEF SlipdInv, SlipdTypeOK, TypeInv, vars, slipdVars
  <2> QED BY <2>1, DeployStepInv, RouteStepInv, ApiInv, CrashInv, BootInv DEF SlipdNext
<1> QED BY <1>1, <1>2, PTL DEF SlipdSpec

\* Through crashes, restarts, deletions and clients that go away, the lock of the app
\* still lets one deploy run at a time: a restart forgets the locks together with the
\* tasks that held them, and the delete handler takes the same lock.
THEOREM SlipdMutualExclusion == SlipdSpec => [](SlipdTypeOK /\ OneDeployAtATime)
<1>1. SlipdInv => SlipdTypeOK /\ OneDeployAtATime
  BY DEF SlipdInv
<1> QED BY <1>1, SlipdInvariant, PTL

\* A restart takes the containers of the app from the state file alone: still the app
\* state never names one that failed its health check, because the file is written only
\* after the check and a crash in the middle of a deploy touches no container it names.
THEOREM SlipdRecordsHealthy == SlipdSpec => []RecordedIsHealthy
<1>1. SlipdInv => RecordedIsHealthy
  BY HealthTells DEF SlipdInv
<1> QED BY <1>1, SlipdInvariant, PTL

-----------------------------------------------------------------------------
(* Where everything is, through crashes and deletions.                     *)

\* What the state file says, as EntryInv has it of the app state: a restart reads it.
FileInv ==
  /\ disk.cid # Nil => disk.cid # disk.pod
  /\ ~disk.file => disk.cid = Nil /\ disk.pod = Nil /\ disk.tag = Nil /\ disk.port = 0
  /\ disk.port # 0 => Routed
  /\ disk.port # 0 /\ disk.pod = Nil => disk.cid # Nil /\ Ported(disk.cid)

\* While slipd is down no task runs.
AsleepInv == up \/ \A d \in Deploys : ~InFlight(d)

DaemonInv == SlipdTypeOK /\ WorldInv /\ FileInv /\ AsleepInv

\* What is not deployed at a moment is where it was.
LEMMA CalmPlace ==
  ASSUME WorldInv, UNCHANGED ctx,
         \A d \in Deploys : pc'[d] = "done" \/ (pc'[d] = "idle" /\ pc[d] = "idle"),
         \A c \in Containers : pc[c[1]] = "idle" /\ runtime[c] = Absent => runtime'[c] = Absent,
         PortsInv', EntryInv'
  PROVE  PlaceInv'
<1>1. ASSUME NEW e \in Deploys PROVE PlaceAt(e)'
  <2>1. CASE pc'[e] = "done"
    BY <2>1, DonePlace
  <2>2. CASE pc'[e] = "idle" /\ pc[e] = "idle"
    <3>1. PlaceAt(e)
      BY DEF WorldInv, PlaceInv
    <3>2. /\ New(e) \in Containers /\ Fallback(e) \in Containers
          /\ New(e)[1] = e /\ Fallback(e)[1] = e
      BY OwnContainers, ContainerNames
    <3>3. /\ runtime[New(e)] = Absent /\ runtime[Fallback(e)] = Absent
          /\ ctx[e].new = Nil /\ ctx[e].pod = Nil /\ ~ctx[e].rollbackFailed
      BY <2>2, <3>1 DEF PlaceAt, OwnAt, TaskAt, Unmade, FallbackMade, FallbackUp
    <3>4. runtime'[New(e)] = Absent /\ runtime'[Fallback(e)] = Absent
      BY <2>2, <3>2, <3>3
    <3>5. OwnAt(e)'
      BY <2>2, <3>3, <3>4
         DEF OwnAt, Unmade, NewUp, NamesNew, NamesPod, HasPort, FallbackUp, FallbackMade, PodSteps
    <3>6. OldAt(e)'
      BY <2>2 DEF OldAt, OldIsCid, OldIsPod, OldDown, Tier2, RecreateSteps, RollbackSteps
    <3>7. TaskAt(e)'
      BY <2>2, <3>3
         DEF TaskAt, Tier2, BlueGreenSteps, PodSteps, RecreateSteps, RollbackSteps
    <3> QED BY <3>5, <3>6, <3>7 DEF PlaceAt
  <2> QED BY <2>1, <2>2
<1> QED BY <1>1 DEF PlaceInv

\* A removal, or nothing: the calls of the delete handler.
LEMMA RemovalEffect ==
  ASSUME TypeOK, runtime' \in {runtime, DeleteRuntime}
  PROVE  /\ Still \/ \E c \in Containers : Halts(c)
         /\ \A c \in Containers : runtime[c] = Absent => runtime'[c] = Absent
<1>1. app.cid \in Containers \cup {Nil} /\ app.pod \in Containers \cup {Nil}
      /\ runtime \in [Containers -> Container] /\ Nil \notin Containers
  BY NilFresh DEF TypeOK, AppState, Option
<1>2. ASSUME NEW x \in Containers \cup {Nil}, runtime' = Removed(x)
      PROVE  /\ Still \/ \E c \in Containers : Halts(c)
             /\ \A c \in Containers : runtime[c] = Absent => runtime'[c] = Absent
  <2>1. CASE x = Nil
    <3>1. runtime' = runtime
      BY <1>1, <1>2, <2>1 DEF Removed
    <3> QED BY <3>1 DEF Still
  <2>2. CASE x \in Containers
    <3>1. Halts(x)
      BY <1>2, <2>2, HaltsWhenCalled
    <3>2. \A c \in Containers : runtime'[c] \in {runtime[c], Absent}
      BY <1>1, <1>2, <2>2 DEF Removed
    <3> QED BY <2>2, <3>1, <3>2
  <2> QED BY <2>1, <2>2
<1>3. CASE runtime' = runtime
  BY <1>3 DEF Still
<1>4. CASE del = "stop" /\ runtime' = DeleteRuntime
  BY <1>1, <1>2, <1>4 DEF DeleteRuntime
<1>5. CASE del = "pod" /\ runtime' = DeleteRuntime
  BY <1>1, <1>2, <1>5 DEF DeleteRuntime
<1>6. CASE del \notin {"stop", "pod"} /\ runtime' = DeleteRuntime
  BY <1>3, <1>6 DEF DeleteRuntime
<1> QED BY <1>3, <1>4, <1>5, <1>6

\* A step of a deploy writes to the file what the app state says, or nothing.
LEMMA TaskFile ==
  ASSUME WorldInv, NEW d \in Deploys, Task(d)
  PROVE  /\ disk' \in {disk, Persisted(app')}
         /\ disk' # disk => app'.entry
         /\ disk' = disk \/ BgUpdate(d) \/ RcUpdate(d) \/ PodUpdate(d)
<1>1. CASE BgUpdate(d) \/ RcUpdate(d) \/ PodUpdate(d)
  <2>1. app \in AppState
    BY DEF WorldInv, TypeInv, TypeOK
  <2>2. app'.entry
    BY <1>1, <2>1 DEF BgUpdate, RcUpdate, PodUpdate, SwitchedContainer, SwitchedPod, AppState
  <2>3. disk' \in {disk, Persisted(app')}
    BY <1>1 DEF BgUpdate, RcUpdate, PodUpdate, SaveAppState
  <2> QED BY <1>1, <2>2, <2>3
<1>2. CASE LookUpApp(d) \/ PullImages(d) \/ Configure(d)
  BY <1>2 DEF LookUpApp, PullImages, Configure, BeginRecreate, Fail
<1>3. CASE BgStart(d) \/ BgHealth(d) \/ BgVerify(d) \/ BgDiscard(d) \/ BgSwitch(d) \/ BgDrain(d)
  BY <1>3 DEF BgStart, BgHealth, BgVerify, BgDiscard, BgSwitch, BgDrain, SetRoutes, Fail
<1>4. CASE PodDeploy(d) \/ PodHealth(d) \/ PodDiscard(d) \/ PodSwitch(d) \/ PodDrain(d)
  BY <1>4 DEF PodDeploy, PodHealth, PodDiscard, PodSwitch, PodDrain, SetRoutes, Fail
<1>5. CASE RcStop(d) \/ RcUnroute(d) \/ RcStart(d) \/ RcHealth(d) \/ RcDiscard(d) \/ RcSwitch(d)
           \/ RcRemoveOld(d)
  BY <1>5 DEF RcStop, RcUnroute, RcStart, RcHealth, RcDiscard, RcSwitch, RcRemoveOld, SetRoutes,
              BeginRollback, BeginTier2, Tier3, Fail
<1>6. CASE Rollback(d)
  BY <1>6 DEF Rollback, RbRestart, RbRoute, T2Create, T2Health, T2Route, T2Update, T2Discard,
              BeginTier2, Tier3, Fail
<1>7. CASE Timeout(d) \/ TimeoutCleanup(d)
  BY <1>7 DEF Timeout, TimeoutCleanup, Fail
<1> QED BY <1>1, <1>2, <1>3, <1>4, <1>5, <1>6, <1>7 DEF Task, BlueGreen, Pod, Recreate

\* The file of an app state is as good as that.
LEMMA WrittenFile ==
  ASSUME EntryInv', app'.entry, disk' = Persisted(app')
  PROVE  FileInv'
  BY DEF EntryInv, FileInv, Persisted, Ported, New, IsHttp


\* The file says what it said, and its containers are those of the same kinds.
LEMMA FileKept ==
  ASSUME TypeOK, FileInv, \A d \in Deploys : ctx'[d].kind = ctx[d].kind,
         disk' \in {disk, [disk EXCEPT !.file = TRUE]}
  PROVE  FileInv'
<1>1. /\ disk'.cid = disk.cid /\ disk'.pod = disk.pod /\ disk'.tag = disk.tag
      /\ disk'.port = disk.port /\ (disk.file => disk'.file)
      /\ disk.cid \in Containers \cup {Nil}
  BY DEF TypeOK, PersistedState, Option
<1>2. disk.cid # Nil => (Ported(disk.cid)' <=> Ported(disk.cid))
  BY <1>1, ContainerNames DEF Ported, New, IsHttp
<1> QED BY <1>1, <1>2 DEF FileInv

\* What places the deploys does not depend on the route.
LEMMA PlaceSame ==
  ASSUME PlaceInv, UNCHANGED <<pc, ctx, app, runtime>>
  PROVE  PlaceInv'
<1>1. PortsInv'
  BY DEF PlaceInv, PortsInv, Running, Ported, IsHttp
<1>2. EntryInv'
  BY DEF PlaceInv, EntryInv, Ported, IsHttp
<1>3. ASSUME NEW d \in Deploys PROVE PlaceAt(d)'
  <2>1. OwnAt(d) /\ OldAt(d) /\ TaskAt(d)
    BY DEF PlaceInv, PlaceAt
  <2>2. OwnAt(d)'
    BY <2>1 DEF OwnAt, Running, IsHttp
  <2>3. OldAt(d)'
    BY <2>1 DEF OldAt, Running
  <2>4. TaskAt(d)'
    BY <2>1 DEF TaskAt, IsPod, IsHttp
  <2> QED BY <2>2, <2>3, <2>4 DEF PlaceAt
<1> QED BY <1>1, <1>2, <1>3 DEF PlaceInv

\* The parts of DaemonInv that SlipdInv has as well.
LEMMA DaemonParts ==
  /\ DaemonInv => SlipdInv
  /\ SlipdInv' /\ PlaceInv' /\ FileInv' /\ AsleepInv' => DaemonInv'
  BY DEF DaemonInv, SlipdInv, WorldInv

\* A step of a deploy: what it writes to the file is its app state.
LEMMA DaemonDeploy ==
  ASSUME DaemonInv, DeployStep
  PROVE  DaemonInv'
<1> USE DEF DaemonInv
<1>1. SlipdInv' /\ WorldInv'
  BY DaemonParts, DeployStepInv, NextWorld DEF DeployStep
<1>2. TypeOK
  BY DEF WorldInv, TypeInv
<1>3. FileInv'
  <2>1. CASE Request
    <3>1. PICK d \in Deploys, t \in Tags, k \in Kinds, s \in Strategies : HandleDeploy(d, t, k, s)
      BY <2>1 DEF Request
    <3>2. /\ pc[d] = "idle" /\ disk' = disk
          /\ \A e \in Deploys \ {d} : ctx'[e].kind = ctx[e].kind
      BY <1>2, <3>1 DEF HandleDeploy, TypeOK
    <3>3. disk.cid \notin {New(d), Fallback(d)}
      BY <3>2, OwnContainers, NilFresh DEF WorldInv, HealthInv, DeployHealth, MayBeNamed, Named
    <3>4. disk.cid \in Containers \cup {Nil}
      BY <1>2 DEF TypeOK, PersistedState, Option
    <3>5. disk.cid # Nil => (Ported(disk.cid)' <=> Ported(disk.cid))
      BY <3>2, <3>3, <3>4, ContainerNames DEF Ported, New, IsHttp
    <3> QED BY <3>2, <3>5 DEF FileInv
  <2>2. ASSUME NEW d \in Deploys, Task(d) PROVE FileInv'
    <3>1. disk' \in {disk, Persisted(app')} /\ (disk' # disk => app'.entry)
      BY <2>2, TaskFile
    <3>2. \A e \in Deploys : ctx'[e].kind = ctx[e].kind
      BY <2>2, TaskMoves DEF OthersStay, SameTask, WorldInv
    <3>3. EntryInv'
      BY <1>1 DEF WorldInv, PlaceInv
    <3>4. CASE disk' = disk
      BY <1>2, <3>2, <3>4, FileKept
    <3>5. CASE disk' = Persisted(app') /\ app'.entry
      BY <3>3, <3>5, WrittenFile
    <3> QED BY <3>1, <3>4, <3>5
  <2> QED BY <2>1, <2>2 DEF DeployStep, Next
<1>4. AsleepInv'
  BY DEF DeployStep, slipdVars, AsleepInv
<1> QED BY <1>1, <1>3, <1>4, DaemonParts DEF WorldInv

\* Ticks of the reconcile loop and restarts of Caddy place nothing.
LEMMA DaemonRoute ==
  ASSUME DaemonInv, Snapshot \/ ApplySnapshot \/ CaddyRestart
  PROVE  DaemonInv'
<1> USE DEF DaemonInv
<1>1. SlipdInv'
  BY DaemonParts, RouteStepInv
<1>2. UNCHANGED <<pc, ctx, app, runtime, disk, up>>
  BY DEF Snapshot, ApplySnapshot, CaddyRestart, vars, slipdVars
<1>3. PlaceInv'
  BY <1>2, PlaceSame DEF WorldInv
<1>4. FileInv'
  BY <1>2, FileKept DEF WorldInv, TypeInv
<1>5. AsleepInv'
  BY <1>2 DEF AsleepInv, InFlight
<1> QED BY <1>1, <1>3, <1>4, <1>5, DaemonParts

\* Creation and deletion of the app: no deploy is in flight, and containers only go.
LEMMA DaemonApi ==
  ASSUME DaemonInv, Api
  PROVE  DaemonInv'
<1> USE DEF DaemonInv
<1>1. SlipdInv'
  BY DaemonParts, ApiInv
<1>2. TypeOK
  BY DEF WorldInv, TypeInv
<1>3. /\ UNCHANGED <<pc, ctx, up>> /\ lock \in {"api", Nil}
      /\ runtime' \in {runtime, DeleteRuntime}
      /\ app' \in {app, NoApp} /\ disk' \in {disk, [disk EXCEPT !.file = TRUE]}
  BY DEF Api, CreateApp, DeleteApp, DeleteStop, DeleteRoute, DeleteState, DeleteConfig,
         Disconnect, SlipdTypeOK
<1>4. \A d \in Deploys : ~InFlight(d)
  BY <1>3, NoneInFlight DEF WorldInv
<1>5. /\ Still \/ \E c \in Containers : Halts(c)
      /\ \A c \in Containers : runtime[c] = Absent => runtime'[c] = Absent
  BY <1>2, <1>3, RemovalEffect
<1>6. PortsInv'
  BY <1>2, <1>3, <1>5, PortsKept DEF WorldInv, PlaceInv
<1>7. EntryInv'
  <2>1. CASE app' = app
    BY <1>2, <1>3, <2>1, AppKept, EntryKept DEF WorldInv, PlaceInv
  <2>2. CASE app' = NoApp
    BY <2>2 DEF EntryInv, NoApp
  <2> QED BY <1>3, <2>1, <2>2
<1>8. PlaceInv'
  BY <1>3, <1>4, <1>5, <1>6, <1>7, CalmPlace DEF InFlight
<1>9. FileInv' /\ AsleepInv'
  BY <1>2, <1>3, <1>4, FileKept DEF AsleepInv, InFlight
<1> QED BY <1>1, <1>8, <1>9, DaemonParts

\* slipd dies: the tasks end where they are, with their calls done or not.
LEMMA DaemonCrash ==
  ASSUME DaemonInv, Crash
  PROVE  DaemonInv'
<1> USE DEF DaemonInv
<1>1. SlipdInv'
  BY DaemonParts, CrashInv
<1>2. TypeOK /\ TypeInv
  BY DEF WorldInv, TypeInv
<1>3. /\ UNCHANGED <<ctx, disk>> /\ app' = NoApp
      /\ \A d \in Deploys : pc'[d] = IF InFlight(d) THEN "done" ELSE pc[d]
  BY DEF Crash
<1>4. \/ runtime' \in {runtime, DeleteRuntime}
      \/ \E d \in Deploys : InFlight(d) /\ runtime' \in CallRuntime(d)
  BY DEF Crash
<1>5. /\ Still \/ \E c \in Containers : Starts(c) \/ Halts(c)
      /\ \A c \in Containers : pc[c[1]] = "idle" /\ runtime[c] = Absent => runtime'[c] = Absent
  <2>1. CASE runtime' \in {runtime, DeleteRuntime}
    BY <1>2, <2>1, RemovalEffect
  <2>2. ASSUME NEW d \in Deploys, InFlight(d), runtime' \in CallRuntime(d)
        PROVE  /\ Still \/ \E c \in Containers : Starts(c) \/ Halts(c)
               /\ \A c \in Containers :
                    pc[c[1]] = "idle" /\ runtime[c] = Absent => runtime'[c] = Absent
    <3>1. Effect(d) /\ NoneAppears(d)
      BY <1>2, <2>2, CallEffect
    <3> QED BY <2>2, <3>1, EffectAtOne DEF NoneAppears, InFlight
  <2> QED BY <1>4, <2>1, <2>2
<1>6. PortsInv'
  BY <1>2, <1>3, <1>5, PortsKept DEF WorldInv, PlaceInv
<1>7. EntryInv'
  BY <1>3 DEF EntryInv, NoApp
<1>8. PlaceInv'
  BY <1>3, <1>5, <1>6, <1>7, CalmPlace DEF InFlight
<1>9. FileInv' /\ AsleepInv'
  BY <1>2, <1>3, FileKept DEF AsleepInv, InFlight
<1> QED BY <1>1, <1>8, <1>9, DaemonParts

\* slipd comes back with the app state that the file holds.
LEMMA DaemonBoot ==
  ASSUME DaemonInv, Boot
  PROVE  DaemonInv'
<1> USE DEF DaemonInv
<1>1. SlipdInv'
  BY DaemonParts, BootInv
<1>2. TypeOK
  BY DEF WorldInv, TypeInv
<1>3. UNCHANGED <<pc, ctx, disk, runtime>> /\ up' = TRUE /\ ~up
  BY DEF Boot
<1>4. app' \in {Loaded, Verified(Loaded)}
  BY DEF Boot
<1>5. PortsInv'
  BY <1>2, <1>3, PortsKept DEF WorldInv, PlaceInv, Still
<1>6. EntryInv'
  <2>3. CASE app' = Loaded
    <3>1. /\ app'.cid = disk.cid /\ app'.pod = disk.pod /\ app'.port = disk.port
          /\ app'.entry = disk.file /\ app'.tag = disk.tag
      BY <2>3 DEF Loaded
    <3>2. FileInv'
      BY <1>2, <1>3, FileKept
    <3> QED BY <1>3, <3>1, <3>2 DEF EntryInv, FileInv
  <2>4. CASE app' = [Loaded EXCEPT !.cid = Nil, !.port = 0, !.status = "not_deployed"]
    BY <2>4 DEF EntryInv, FileInv, Loaded
  <2> QED BY <1>4, <2>3, <2>4 DEF Verified
<1>7. PlaceInv'
  BY <1>3, <1>5, <1>6, CalmPlace DEF AsleepInv, InFlight
<1>8. FileInv' /\ AsleepInv'
  BY <1>2, <1>3, FileKept DEF AsleepInv
<1> QED BY <1>1, <1>7, <1>8, DaemonParts

\* The invariant of the daemon at the start.
LEMMA InitDaemon == SlipdInit => DaemonInv
<1> SUFFICES ASSUME SlipdInit PROVE DaemonInv
  OBVIOUS
<1>1. TypeInv /\ HealthInv /\ PlaceInv
  BY InitType, InitHealth, InitPlace DEF SlipdInit
<1>2. OneDeployAtATime /\ lock = Nil
  BY DEF SlipdInit, Init, OneDeployAtATime, InFlight
<1>3. NoApp \in AppState
  BY DEF NoApp, AppState, AppStatus, Option, HostPorts
<1>4. SlipdTypeOK
  BY <1>1, <1>2, <1>3, SlipdAssumption DEF SlipdInit, SlipdTypeOK, TypeInv, DeleteSteps
<1>5. FileInv /\ AsleepInv
  BY DEF SlipdInit, Init, FileInv, NoFile, AsleepInv
<1> QED BY <1>1, <1>2, <1>4, <1>5 DEF DaemonInv, WorldInv

\* DaemonInv over every step.
LEMMA NextDaemon ==
  ASSUME DaemonInv, [SlipdNext]_allVars
  PROVE  DaemonInv'
<1>1. CASE UNCHANGED allVars
  <2>1. UNCHANGED vars /\ UNCHANGED slipdVars
    BY <1>1 DEF allVars
  <2>2. WorldInv'
    BY <2>1, NextWorld DEF DaemonInv
  <2> QED BY <2>1, <2>2
          DEF DaemonInv, SlipdTypeOK, FileInv, AsleepInv, WorldInv, TypeInv, vars, slipdVars,
              InFlight, Ported, IsHttp
<1> QED BY <1>1, DaemonDeploy, DaemonRoute, DaemonApi, DaemonCrash, DaemonBoot DEF SlipdNext

\* The places of everything, through crashes, restarts and deletions.
LEMMA DaemonInvariant == SlipdSpec => []DaemonInv
  BY InitDaemon, NextDaemon, PTL DEF SlipdSpec

\* A deploy does not register its app or unregister it.
LEMMA TaskRegistered ==
  ASSUME NEW d \in Deploys, Task(d)
  PROVE  registered' = registered
<1> DEFINE Keeps == registered' = registered
<1> USE DEF Advance, Return
<1>1. Fail(d) \/ Tier3(d) \/ Complete(d) => Keeps
  BY DEF Fail, Tier3, Complete
<1>2. BeginTier2(d) \/ BeginRollback(d) => Keeps
  BY <1>1 DEF BeginTier2, BeginRollback
<1>3. ASSUME NEW x, NEW y, SetRoutes(d, x, y) PROVE Keeps
  BY <1>3 DEF SetRoutes
<1> HIDE DEF Keeps
<1>4. CASE LookUpApp(d) \/ PullImages(d) \/ Configure(d)
  BY <1>1, <1>4 DEF LookUpApp, PullImages, Configure, BeginRecreate, Keeps
<1>5. CASE BlueGreen(d)
  BY <1>1, <1>3, <1>5 DEF BlueGreen, BgStart, BgHealth, BgVerify, BgDiscard, BgSwitch,
                      BgUpdate, BgDrain, Keeps
<1>6. CASE Pod(d)
  BY <1>1, <1>3, <1>6 DEF Pod, PodDeploy, PodHealth, PodDiscard, PodSwitch, PodUpdate,
                      PodDrain, Keeps
<1>7. CASE Recreate(d)
  BY <1>1, <1>2, <1>3, <1>7 DEF Recreate, RcStop, RcUnroute, RcStart, RcHealth,
                      RcDiscard, RcSwitch, RcUpdate, RcRemoveOld, Keeps
<1>8. CASE Rollback(d)
  BY <1>1, <1>2, <1>8 DEF Rollback, RbRestart, RbRoute, T2Create, T2Health, T2Route,
                      T2Update, T2Discard, Keeps
<1>9. CASE Timeout(d) \/ TimeoutCleanup(d)
  BY <1>1, <1>9 DEF Timeout, TimeoutCleanup, Keeps
<1> QED BY <1>4, <1>5, <1>6, <1>7, <1>8, <1>9 DEF Task, Keeps

-----------------------------------------------------------------------------
(* Deletion stops what the app ran.                                        *)

\* The calls and events without which a deletion leaves a container running: those of
\* Collects leave one that nothing names, a restart forgets a deletion half way through,
\* and a client that goes away before the handler returned ends it.
Stopping == Collects /\ Events \cap {"crash", "disconnect"} = {}

NothingRuns == \A c \in Containers : ~Running(c)

\* What the delete handler has stopped at each of its calls, and that a deploy finds its
\* app registered.
StoppedInv ==
  /\ up
  /\ OwnedInv
  /\ \A d \in Deploys : InFlight(d) => registered
  /\ del \in {"pod", "route", "state"} => ~Running(app.cid)
  /\ del \in {"route", "state"} => ~Running(app.pod)
  /\ del = "config" \/ (~registered /\ lock = Nil) => NothingRuns

\* Nothing outside the deploys makes a container run or an app state forget one that does.
LEMMA OwnedOutside ==
  ASSUME OwnedInv, UNCHANGED <<pc, ctx>>, \A d \in Deploys : ~InFlight(d),
         \A c \in Containers : runtime'[c].st = "running" => runtime[c].st = "running",
         UNCHANGED <<app>> \/ NothingRuns
  PROVE  OwnedInv'
  BY OwnContainers, NilFresh DEF OwnedInv, NothingRuns, Running, InFlight, Drains, RollbackSteps

\* A step of a deploy: no deletion is under way, before or after.
LEMMA StoppedDeploy ==
  ASSUME Stopping, DaemonInv, StoppedInv, DeployStep
  PROVE  StoppedInv'
<1> USE DEF StoppedInv, DaemonInv
<1>1. UNCHANGED <<up, del>> /\ up
  BY DEF DeployStep, slipdVars
<1>2. OwnedInv'
  BY NextOwned DEF DeployStep, Stopping
<1>3. TypeOK /\ OneDeployAtATime /\ (lock = "api" <=> del # "none")
  BY DEF WorldInv, TypeInv, SlipdTypeOK
<1>4. CASE Request
  <2>1. registered /\ registered' = registered /\ lock = Nil
    BY <1>4 DEF Request, HandleDeploy
  <2>2. del = "none"
    BY <1>3, <2>1, SlipdAssumption
  <2> QED BY <1>1, <1>2, <2>1, <2>2
<1>5. ASSUME NEW d \in Deploys, Task(d) PROVE StoppedInv'
  <2>1. InFlight(d) /\ registered' = registered
    <3>1. InFlight(d)
      BY <1>3, <1>5, TaskGoes
    <3>2. registered' = registered
      BY <1>5, TaskRegistered
    <3> QED BY <3>1, <3>2
  <2>2. registered /\ del = "none"
    BY <1>3, <2>1, SlipdAssumption DEF OneDeployAtATime
  <2> QED BY <1>1, <1>2, <2>1, <2>2
<1> QED BY <1>4, <1>5 DEF DeployStep, Next

\* Ticks of the reconcile loop and restarts of Caddy stop and start nothing.
LEMMA StoppedRoute ==
  ASSUME Stopping, DaemonInv, StoppedInv, Snapshot \/ ApplySnapshot \/ CaddyRestart
  PROVE  StoppedInv'
<1>1. UNCHANGED <<lock, pc, ctx, app, runtime, registered, up, del>>
  BY DEF Snapshot, ApplySnapshot, CaddyRestart, vars, slipdVars
<1>2. OwnedInv'
  BY <1>1 DEF StoppedInv, OwnedInv, Running, InFlight
<1> QED BY <1>1, <1>2 DEF StoppedInv, InFlight, Running, NothingRuns

\* Each call of the delete handler stops what the next one relies on.
LEMMA StoppedApi ==
  ASSUME Stopping, DaemonInv, StoppedInv, Api
  PROVE  StoppedInv'
<1> USE DEF DaemonInv
<1>1. TypeOK /\ OneDeployAtATime /\ (lock = "api" <=> del # "none")
  BY DEF WorldInv, TypeInv, SlipdTypeOK
<1>2. /\ UNCHANGED <<pc, ctx, up>> /\ lock \in {"api", Nil}
      /\ runtime' \in {runtime, DeleteRuntime}
  BY DEF Api, CreateApp, DeleteApp, DeleteStop, DeleteRoute, DeleteState, DeleteConfig,
         Disconnect, SlipdTypeOK
<1>3. \A d \in Deploys : ~InFlight(d)
  BY <1>1, <1>2, NoneInFlight
<1>4. /\ app.cid \in Containers \cup {Nil} /\ app.pod \in Containers \cup {Nil}
      /\ runtime \in [Containers -> Container]
  BY <1>1 DEF TypeOK, AppState, Option
<1>5. \A c \in Containers : runtime'[c].st = "running" => runtime[c].st = "running"
  <2>1. runtime' \in {runtime, Removed(app.cid), Removed(app.pod)}
    BY <1>2 DEF DeleteRuntime
  <2> QED BY <1>4, <2>1 DEF Removed, Absent
<1>6. CASE CreateApp \/ DeleteApp \/ DeleteRoute \/ DeleteConfig
  <2>1. app' = app /\ runtime' = runtime
    BY <1>6 DEF CreateApp, DeleteApp, DeleteRoute, DeleteConfig
  <2>2. OwnedInv'
    BY <1>2, <1>3, <1>5, <2>1, OwnedOutside DEF StoppedInv
  <2>3. /\ del' \in {"pod", "route", "state"} => ~Running(app.cid)
        /\ del' \in {"route", "state"} => ~Running(app.pod)
    BY <1>6 DEF CreateApp, DeleteApp, DeleteRoute, DeleteConfig, StoppedInv, Running
  <2>4. del' = "config" \/ (~registered' /\ lock' = Nil) => NothingRuns
    BY <1>6, SlipdAssumption DEF CreateApp, DeleteApp, DeleteRoute, DeleteConfig, StoppedInv
  <2> QED BY <1>2, <1>3, <2>1, <2>2, <2>3, <2>4 DEF StoppedInv, InFlight, Running, NothingRuns
<1>7. CASE DeleteStop
  <2>1. /\ runtime' = DeleteRuntime /\ UNCHANGED <<lock, app, registered>>
        /\ del \in {"stop", "pod"} /\ lock = "api"
        /\ del' = IF del = "stop" /\ app.pod # Nil THEN "pod" ELSE "route"
    BY <1>1, <1>7 DEF DeleteStop, Stopping, Collects, Fails
  <2>2. OwnedInv'
    BY <1>2, <1>3, <1>5, <2>1, OwnedOutside DEF StoppedInv
  <2>3. ~Running(app.cid)'
    <3>1. CASE del = "stop"
      BY <1>4, <2>1, <3>1 DEF DeleteRuntime, Removed, Absent, Running
    <3>2. CASE del = "pod"
      BY <1>4, <1>5, <2>1, <3>2 DEF StoppedInv, Running
    <3> QED BY <2>1, <3>1, <3>2
  <2>4. del' = "route" => ~Running(app.pod)'
    BY <1>4, <2>1 DEF DeleteRuntime, Removed, Absent, Running
  <2>5. del' \in {"pod", "route"} /\ lock' # Nil
    BY <2>1, SlipdAssumption
  <2> QED BY <1>2, <1>3, <2>1, <2>2, <2>3, <2>4, <2>5 DEF StoppedInv, InFlight
<1>8. CASE DeleteState
  <2>1. del = "state" /\ del' = "config" /\ runtime' = runtime
    BY <1>8 DEF DeleteState
  <2>2. NothingRuns
    BY <1>3, <2>1, ContainerNames
       DEF StoppedInv, OwnedInv, NothingRuns, InFlight, Drains
  <2>3. OwnedInv'
    BY <1>2, <1>3, <1>5, <2>2, OwnedOutside DEF StoppedInv
  <2> QED BY <1>2, <1>3, <2>1, <2>2, <2>3 DEF StoppedInv, InFlight, NothingRuns, Running
<1>9. ~Disconnect
  BY DEF Disconnect, Stopping
<1> QED BY <1>6, <1>7, <1>8, <1>9 DEF Api

\* StoppedInv at the start.
LEMMA InitStopped == SlipdInit => StoppedInv
<1> SUFFICES ASSUME SlipdInit PROVE StoppedInv
  OBVIOUS
<1>1. \A c \in Containers : ~Running(c)
  BY DEF SlipdInit, Init, Running, Absent
<1>2. \A d \in Deploys : pc[d] = "idle"
  BY DEF SlipdInit, Init
<1> QED BY <1>1, <1>2, OwnContainers
        DEF SlipdInit, Init, StoppedInv, OwnedInv, NothingRuns, InFlight, RollbackSteps

\* StoppedInv over every step.
LEMMA NextStopped ==
  ASSUME Stopping, DaemonInv, StoppedInv, [SlipdNext]_allVars
  PROVE  StoppedInv'
<1>1. CASE UNCHANGED allVars
  <2>1. UNCHANGED <<lock, pc, ctx, app, runtime, registered, up, del>>
    BY <1>1 DEF allVars, vars, slipdVars
  <2>2. OwnedInv'
    BY <2>1 DEF StoppedInv, OwnedInv, Running, InFlight
  <2> QED BY <2>1, <2>2 DEF StoppedInv, InFlight, Running, NothingRuns
<1>2. ~Crash /\ ~Boot
  BY DEF Crash, Boot, Stopping, StoppedInv
<1> QED BY <1>1, <1>2, StoppedDeploy, StoppedRoute, StoppedApi DEF SlipdNext

\* Once the app is deleted nothing it ran is running: the delete handler stops the container
\* and the pod of the app state, and by OwnedInv nothing else runs between deploys.
THEOREM DeletedIsStoppedHolds ==
  ASSUME Stopping
  PROVE  SlipdSpec => []DeletedIsStopped
<1>1. SlipdInit => StoppedInv
  BY InitStopped
<1>2. DaemonInv /\ StoppedInv /\ [SlipdNext]_allVars => StoppedInv'
  BY NextStopped
<1>3. StoppedInv => DeletedIsStopped
  BY DEF StoppedInv, DeletedIsStopped, NothingRuns
<1> QED BY <1>1, <1>2, <1>3, DaemonInvariant, PTL DEF SlipdSpec

-----------------------------------------------------------------------------
(* Deletion leaves no route.                                               *)

\* What a step of a deploy has to do with routes: what it leaves in Caddy is what it found
\* or what its call leaves; tier 2 restores a route only for a routed app; the routes of the
\* app state are those of the last version it recorded.
RoutesMove(d) ==
  /\ route' = route \/ route' \in CallRoute(d)
  /\ pc'[d] = "t2_route" => Routed
  /\ \/ app'.entry = app.entry /\ app'.routes = app.routes
     \/ BgUpdate(d) \/ RcUpdate(d) \/ PodUpdate(d)

\* A failure of the app is recorded in its status alone.
LEMMA FailedRoutes ==
  ASSUME NEW a \in AppState, NEW b \in SetAppFailed(a)
  PROVE  b.entry = a.entry /\ b.routes = a.routes
  BY DEF SetAppFailed, AppState

\* A deploy that fails leaves the routes of the app state alone.
LEMMA EndRoutes ==
  ASSUME TypeOK, NEW d \in Deploys, Fail(d) \/ Tier3(d)
  PROVE  pc'[d] = "done" /\ app'.entry = app.entry /\ app'.routes = app.routes
<1>1. app' \in SetAppFailed(app) /\ app \in AppState /\ pc \in [Deploys -> Steps]
  BY DEF Fail, Tier3, TypeOK
<1>2. app'.entry = app.entry /\ app'.routes = app.routes
  BY <1>1, FailedRoutes
<1>3. pc'[d] = "done"
  BY <1>1 DEF Fail, Tier3, Return
<1> QED BY <1>2, <1>3

\* So does one that begins to roll back.
LEMMA RollbackRoutes ==
  ASSUME TypeOK, NEW d \in Deploys, BeginRollback(d) \/ BeginTier2(d)
  PROVE  pc'[d] # "t2_route" /\ app'.entry = app.entry /\ app'.routes = app.routes
<1>1. CASE Tier3(d)
  BY <1>1, EndRoutes
<1>2. CASE ~Tier3(d)
  BY <1>2 DEF BeginRollback, BeginTier2, Advance, TypeOK
<1> QED BY <1>1, <1>2

\* Every step of a deploy is such a move.
LEMMA TaskRoutes ==
  ASSUME TypeOK, NEW d \in Deploys, Task(d)
  PROVE  RoutesMove(d)
<1> USE DEF RoutesMove
<1>a. ASSUME NEW s, NEW c, Advance(d, s, c) PROVE pc'[d] = s
  BY <1>a DEF Advance, TypeOK
<1>b. ASSUME Complete(d) PROVE pc'[d] = "done"
  BY <1>b DEF Complete, Return, TypeOK
<1>c. ASSUME NEW x, NEW y, SetRoutes(d, x, y), x # "t2_route", y # "t2_route"
      PROVE  RoutesMove(d)
  BY <1>a, <1>c DEF SetRoutes
<1>d. ASSUME BeginRecreate(d) PROVE pc'[d] # "t2_route"
  BY <1>a, <1>d DEF BeginRecreate
<1>1. CASE LookUpApp(d) \/ PullImages(d) \/ Configure(d)
  <2>1. app' = [app EXCEPT !.status = "deploying"] => app'.entry = app.entry /\ app'.routes = app.routes
    BY DEF TypeOK, AppState
  <2> QED BY <1>1, <1>a, <1>d, <2>1, EndRoutes DEF LookUpApp, PullImages, Configure
<1>2. CASE BgStart(d) \/ BgHealth(d) \/ BgVerify(d) \/ BgDiscard(d) \/ BgDrain(d)
  BY <1>2, <1>a, <1>b, EndRoutes
     DEF BgStart, BgHealth, BgVerify, BgDiscard, BgDrain, CreateFails, Discard, Refused
<1>3. CASE PodDeploy(d) \/ PodHealth(d) \/ PodDiscard(d) \/ PodDrain(d)
  BY <1>3, <1>a, <1>b, EndRoutes
     DEF PodDeploy, PodHealth, PodDiscard, PodDrain, CreateFails, Discard
<1>4. CASE BgSwitch(d) \/ PodSwitch(d) \/ RcSwitch(d)
  BY <1>4, <1>c DEF BgSwitch, PodSwitch, RcSwitch
<1>5. CASE BgUpdate(d) \/ PodUpdate(d) \/ RcUpdate(d)
  <2>1. route' = route
    BY <1>5 DEF BgUpdate, PodUpdate, RcUpdate
  <2>2. pc'[d] # "t2_route"
    BY <1>5, <1>a, <1>b DEF BgUpdate, PodUpdate, RcUpdate
  <2> QED BY <1>5, <2>1, <2>2
<1>6. CASE RcStop(d) \/ RcUnroute(d) \/ RcRemoveOld(d) \/ RcHealth(d)
  BY <1>6, <1>a, <1>b, EndRoutes DEF RcStop, RcUnroute, RcRemoveOld, RcHealth, Discard
<1>7. CASE RcStart(d) \/ RcDiscard(d)
  BY <1>7, <1>a, RollbackRoutes DEF RcStart, RcDiscard, CreateFails, Discard
<1>8. CASE RbRestart(d) \/ RbRoute(d) \/ T2Create(d) \/ T2Discard(d)
  BY <1>8, <1>a, EndRoutes, RollbackRoutes
     DEF RbRestart, RbRoute, T2Create, T2Discard, RestoreRoute, CreateFails, Discard
<1>9. CASE T2Health(d) \/ T2Route(d)
  BY <1>9, <1>a DEF T2Health, T2Route, RestoreRoute
<1>10. CASE T2Update(d)
  <2>1. pc'[d] = "done" /\ route' = route
    BY <1>10 DEF T2Update, Return, TypeOK
  <2>2. app'.entry = app.entry /\ app'.routes = app.routes
    <3> DEFINE a == [app EXCEPT !.cid = Fallback(d), !.tag = ctx[d].oldTag,
                                !.port = runtime[Fallback(d)].port]
    <3>1. app \in AppState /\ a \in AppState /\ a.entry = app.entry /\ a.routes = app.routes
      BY OwnContainers DEF TypeOK, AppState, Context, Container, Option
    <3>2. app' \in SetAppFailed(a) \cup SetAppFailed(app)
      BY <1>10 DEF T2Update
    <3> HIDE DEF a
    <3> QED BY <3>1, <3>2, FailedRoutes
  <2> QED BY <2>1, <2>2
<1>11. CASE Timeout(d) \/ TimeoutCleanup(d)
  BY <1>11, <1>a, EndRoutes DEF Timeout, TimeoutCleanup, Discard
<1> QED BY <1>1, <1>2, <1>3, <1>4, <1>5, <1>6, <1>7, <1>8, <1>9, <1>10, <1>11
        DEF Task, BlueGreen, Pod, Recreate, Rollback

\* The calls, events and apps without which a deletion leaves a route.  The handler removes
\* one route for each of current_routes: an app whose routes no deploy records keeps its
\* route, as one does whose unrouting Caddy refuses, or to which a tick of the reconcile loop
\* gives it back; a restart or a client that goes away ends the deletion before its call.
Unrouting ==
  /\ RepoConfig /\ "workerpod" \notin Kinds
  /\ "unroute" \notin FailingCalls
  /\ Events \cap {"crash", "disconnect", "reconcile"} = {}

\* While the app is routed the app state records a route, which is what the delete handler
\* goes by; an app that is not routed has no route to remove.
RoutesInv ==
  /\ up /\ ~ticking
  /\ \A d \in Deploys :
       /\ InFlight(d) => registered
       /\ ctx[d].kind # "workerpod"
       /\ pc[d] = "t2_route" => Routed
  /\ app.entry /\ Routed => app.routes # Nil
  /\ ~Routed => route = Nil
  /\ del \in {"state", "config"} \/ (~registered /\ lock = Nil) => route = Nil

\* A deploy of an app that is not routed calls Caddy for nothing but to unroute it.
LEMMA UnroutedCalls ==
  ASSUME WorldInv, NEW d \in Deploys, ~Routed, pc[d] # "t2_route"
  PROVE  CallRoute(d) \subseteq {route, Nil}
<1>1. TaskAt(d) /\ pc[d] # "rb_route"
  BY DEF WorldInv, PlaceInv, PlaceAt, TaskAt
<1>2. pc[d] \notin {"bg_switch", "rc_switch", "pod_switch"}
  BY <1>1 DEF TaskAt, BlueGreenSteps, PodSteps, RecreateSteps
<1> QED BY <1>1, <1>2 DEF CallRoute

\* An update records the routes of an app that is routed.
LEMMA RecordedRoutes ==
  ASSUME WorldInv, RepoConfig, Routed, NEW d \in Deploys, ctx[d].kind # "workerpod",
         BgUpdate(d) \/ RcUpdate(d) \/ PodUpdate(d)
  PROVE  app'.routes # Nil
<1>1. app \in AppState /\ ctx[d] \in Context /\ ctx[d].port # Nil
  <2>1. TypeOK
    BY DEF WorldInv, TypeInv
  <2>2. ctx[d].port \in HostPorts
    BY <2>1 DEF TypeOK, Context
  <2> QED BY <2>1, <2>2, PortNumbers DEF TypeOK, HostPorts
<1>2. CASE BgUpdate(d) \/ RcUpdate(d)
  BY <1>1, <1>2 DEF BgUpdate, RcUpdate, SwitchedContainer, AppState
<1>3. CASE PodUpdate(d)
  <2>1. IsPod(d)
    BY <1>3 DEF WorldInv, PlaceInv, PlaceAt, TaskAt, PodUpdate, PodSteps
  <2>2. IsHttp(d)
    BY <2>1 DEF IsPod, IsHttp
  <2> QED BY <1>1, <1>3, <2>2 DEF PodUpdate, SwitchedPod, AppState
<1> QED BY <1>2, <1>3

\* A step of a deploy: no deletion is under way, before or after.
LEMMA RoutesDeploy ==
  ASSUME Unrouting, DaemonInv, RoutesInv, DeployStep
  PROVE  RoutesInv'
<1> USE DEF RoutesInv, DaemonInv
<1>1. UNCHANGED <<up, del, ticking>>
  BY DEF DeployStep, slipdVars
<1>2. TypeOK /\ OneDeployAtATime /\ (lock = "api" <=> del # "none")
  BY DEF WorldInv, TypeInv, SlipdTypeOK
<1>3. CASE Request
  <2>1. PICK d \in Deploys, t \in Tags, k \in Kinds, s \in Strategies : HandleDeploy(d, t, k, s)
    BY <1>3 DEF Request
  <2>2. /\ registered /\ lock = Nil
        /\ UNCHANGED <<app, route, registered>>
        /\ \A e \in Deploys \ {d} : ctx'[e] = ctx[e] /\ pc'[e] = pc[e]
        /\ pc'[d] = "accepted" /\ ctx'[d].kind = k
    BY <1>2, <2>1 DEF HandleDeploy, TypeOK, NewContext
  <2>3. del = "none" /\ k # "workerpod"
    BY <1>2, <2>2, SlipdAssumption DEF Unrouting
  <2> QED BY <1>1, <2>2, <2>3 DEF InFlight
<1>4. ASSUME NEW d \in Deploys, Task(d) PROVE RoutesInv'
  <2>1. InFlight(d) /\ registered' = registered
    BY <1>2, <1>4, TaskGoes, TaskRegistered
  <2>2. registered /\ del = "none"
    BY <1>2, <2>1, SlipdAssumption DEF OneDeployAtATime
  <2>3. OthersStay(d) /\ ctx'[d].kind = ctx[d].kind
    BY <1>4, TaskMoves DEF WorldInv, SameTask
  <2>4. RoutesMove(d)
    BY <1>2, <1>4, TaskRoutes
  <2>5. app'.entry /\ Routed => app'.routes # Nil
    BY <2>4, RecordedRoutes DEF RoutesMove, Unrouting
  <2>6. ~Routed => route' = Nil
    BY <2>4, UnroutedCalls DEF RoutesMove
  <2>7. \A e \in Deploys : pc'[e] = "t2_route" => Routed
    BY <2>3, <2>4 DEF RoutesMove, OthersStay
  <2>8. \A e \in Deploys : ctx'[e].kind # "workerpod"
    BY <2>3 DEF OthersStay
  <2> QED BY <1>1, <2>1, <2>2, <2>5, <2>6, <2>7, <2>8
<1> QED BY <1>3, <1>4 DEF DeployStep, Next

\* Without a tick of the reconcile loop the route can only be lost.
LEMMA RoutesRoute ==
  ASSUME Unrouting, DaemonInv, RoutesInv, Snapshot \/ ApplySnapshot \/ CaddyRestart
  PROVE  RoutesInv'
<1>1. CaddyRestart
  BY DEF Snapshot, ApplySnapshot, Unrouting, RoutesInv
<1> QED BY <1>1 DEF CaddyRestart, slipdVars, RoutesInv, InFlight

\* The delete handler removes the route by what the app state records of it.
LEMMA RoutesApi ==
  ASSUME Unrouting, DaemonInv, RoutesInv, Api
  PROVE  RoutesInv'
<1>1. OneDeployAtATime /\ (lock = "api" <=> del # "none")
  BY DEF DaemonInv, WorldInv, SlipdTypeOK
<1>2. UNCHANGED <<pc, ctx, up, ticking>> /\ lock \in {"api", Nil}
  BY <1>1 DEF Api, CreateApp, DeleteApp, DeleteStop, DeleteRoute, DeleteState, DeleteConfig,
              Disconnect
<1>3. \A d \in Deploys : ~InFlight(d)
  BY <1>1, <1>2, NoneInFlight
<1>4. CASE CreateApp \/ DeleteApp \/ DeleteStop \/ DeleteConfig
  <2>1. UNCHANGED <<app, route>>
    BY <1>4 DEF CreateApp, DeleteApp, DeleteStop, DeleteConfig
  <2>2. del' \in {"state", "config"} \/ (~registered' /\ lock' = Nil) => route' = Nil
    BY <1>1, <1>4, SlipdAssumption
       DEF CreateApp, DeleteApp, DeleteStop, DeleteConfig, RoutesInv
  <2> QED BY <1>2, <1>3, <2>1, <2>2 DEF RoutesInv, InFlight
<1>5. CASE DeleteRoute
  <2>1. route' = DeletedRoute /\ UNCHANGED <<lock, app, registered>> /\ del = "route"
    BY <1>5 DEF DeleteRoute, Unrouting, Fails
  <2>2. route' = Nil
    BY <2>1 DEF DeletedRoute, RoutesInv
  <2> QED BY <1>2, <1>3, <2>1, <2>2 DEF RoutesInv, InFlight
<1>6. CASE DeleteState
  BY <1>2, <1>3, <1>6 DEF DeleteState, NoApp, RoutesInv, InFlight
<1>7. ~Disconnect
  BY DEF Disconnect, Unrouting
<1> QED BY <1>4, <1>5, <1>6, <1>7 DEF Api

\* RoutesInv at the start.
LEMMA InitRoutes == SlipdInit => RoutesInv
<1> SUFFICES ASSUME SlipdInit PROVE RoutesInv
  OBVIOUS
<1>1. \A d \in Deploys : pc[d] = "idle" /\ ctx[d].kind = "http"
  BY DEF SlipdInit, Init, NewContext
<1> QED BY <1>1 DEF SlipdInit, Init, NoApp, RoutesInv, InFlight

\* RoutesInv over every step.
LEMMA NextRoutes ==
  ASSUME Unrouting, DaemonInv, RoutesInv, [SlipdNext]_allVars
  PROVE  RoutesInv'
<1>1. CASE UNCHANGED allVars
  BY <1>1 DEF allVars, vars, slipdVars, RoutesInv, InFlight
<1>2. ~Crash /\ ~Boot
  BY DEF Crash, Boot, Unrouting, RoutesInv
<1> QED BY <1>1, <1>2, RoutesDeploy, RoutesRoute, RoutesApi DEF SlipdNext

\* Once the app is deleted no route of it is left: its current_routes name the route for as
\* long as there can be one, so the delete handler removes it.
THEOREM DeletedIsUnroutedHolds ==
  ASSUME Unrouting
  PROVE  SlipdSpec => []DeletedIsUnrouted
<1>1. SlipdInit => RoutesInv
  BY InitRoutes
<1>2. DaemonInv /\ RoutesInv /\ [SlipdNext]_allVars => RoutesInv'
  BY NextRoutes
<1>3. RoutesInv => DeletedIsUnrouted
  BY DEF RoutesInv, DeletedIsUnrouted
<1> QED BY <1>1, <1>2, <1>3, DaemonInvariant, PTL DEF SlipdSpec

-----------------------------------------------------------------------------
(* Traffic survives a restart of the daemon.                               *)

\* The apps, calls and deadlines with which slipd may die at any step: a worker or a recreate
\* deploy has a moment without a container behind the route, and otherwise the file must
\* follow the app state, and the route must not change without it.
Survives ==
  /\ Kinds \subseteq {"http", "pod"} /\ "recreate" \notin Strategies
  /\ FailingCalls \cap {"save", "reply", "route"} = {}
  /\ DeadlineSteps \cap {"bg_switch", "bg_update", "bg_drain"} = {}
  /\ Events \cap {"delete", "reconcile", "caddy_restart"} = {}

\* The route leads to the new version and the file does not name it yet.
Ahead == {"bg_update", "pod_update"}

\* The awaits at which the app is shown as being deployed.
Busy == (TimedSteps \cup {"timeout_cleanup"}) \ ({"accepted"} \cup Drains)

FileNames == disk.cid # Nil \/ disk.pod # Nil

\* What a deploy tells of the route and of the status of the app.
DeployKeep(d) ==
  /\ ctx[d].strategy # "recreate" /\ ctx[d].kind \in {"http", "pod"}
  /\ pc[d] \in Ahead => route = ctx[d].port
  /\ pc[d] \in Drains => app.status = "running"
  /\ pc[d] \in Busy => app.status # "running"

\* What the file names runs, and its port is one of them.
FileKeep ==
  /\ \A c \in {disk.cid, disk.pod} \ {Nil} : Running(c)
  /\ disk.routes \in {Nil, disk.port}
  /\ FileNames =>
       disk.port # 0 /\ \E c \in {disk.cid, disk.pod} \ {Nil} : runtime[c].port = disk.port

\* The app state says what the file says.
AppKeep ==
  /\ up => /\ app.cid = disk.cid /\ app.pod = disk.pod
           /\ app.port = disk.port /\ app.routes = disk.routes
  /\ app.status = "running" => app.entry /\ (app.cid # Nil \/ app.pod # Nil)

\* A container behind the route that no deploy will stop: the timeout of a pod deploy left it.
LeftBehind ==
  /\ app.status # "running" /\ route # 0
  /\ \E c \in Containers : pc[c[1]] = "done" /\ Running(c) /\ runtime[c].port = route

RouteKeep ==
  FileNames =>
    IF up THEN (\E d \in Deploys : pc[d] \in Ahead) \/ route = disk.port \/ LeftBehind
    ELSE Serving

KeepInv ==
  /\ config /\ del = "none" /\ ~ticking /\ CleanInv
  /\ \A d \in Deploys : DeployKeep(d)
  /\ FileKeep /\ AppKeep /\ RouteKeep

\* What a blue-green deploy can be at.
LEMMA BlueGreenOnly ==
  ASSUME WorldInv, NEW d \in Deploys, DeployKeep(d)
  PROVE  /\ pc[d] \notin RecreateSteps \cup RollbackSteps
         /\ ~Recreate(d) /\ ~Rollback(d)
<1>1. pc[d] \notin RecreateSteps \cup RollbackSteps
  BY DEF WorldInv, PlaceInv, PlaceAt, TaskAt, DeployKeep
<1>2. ~Recreate(d)
  BY <1>1 DEF Recreate, RcStop, RcUnroute, RcStart, RcHealth, RcDiscard, RcSwitch, RcUpdate,
              RcRemoveOld, RecreateSteps
<1>3. ~Rollback(d)
  BY <1>1 DEF Rollback, RbRestart, RbRoute, T2Create, T2Health, T2Route, T2Update, T2Discard,
              RollbackSteps
<1> QED BY <1>1, <1>2, <1>3

\* The call of a blue-green deploy touches containers of its own, or the one it drains.
LEMMA EffectTouches ==
  ASSUME WorldInv, NEW d \in Deploys, Effect(d), pc[d] \notin RecreateSteps \cup RollbackSteps
  PROVE  \/ Still \/ OnlyAt(New(d))
         \/ pc[d] \in Drains /\ OnlyAt(ctx[d].old)
<1>1. pc[d] = "timeout_cleanup" => ctx[d].new = New(d) /\ New(d) # Nil
  BY OwnContainers, NilFresh DEF WorldInv, PlaceInv, PlaceAt, OwnAt
<1>2. CASE pc[d] \in {"bg_start", "pod_deploy"}
  BY <1>2 DEF Effect, Starts
<1>3. CASE pc[d] \in {"bg_discard", "pod_discard", "timeout_cleanup"} \cup Drains
  BY <1>1, <1>3 DEF Effect, Halts, Drains
<1>4. CASE pc[d] \notin {"bg_start", "pod_deploy", "bg_discard", "pod_discard",
                        "timeout_cleanup"} \cup Drains
  BY <1>4 DEF Effect, Drains, RecreateSteps, RollbackSteps
<1> QED BY <1>2, <1>3, <1>4

\* A step of a blue-green deploy touches no more than the calls it makes.
LEMMA TaskTouchesOwn ==
  ASSUME WorldInv, NEW d \in Deploys, DeployKeep(d), Task(d)
  PROVE  \/ Still \/ OnlyAt(New(d)) \/ OnlyAt(Fallback(d))
         \/ pc[d] \in Drains /\ OnlyAt(ctx[d].old)
<1>1. TypeInv /\ pc[d] \notin RecreateSteps \cup RollbackSteps /\ ~Recreate(d) /\ ~Rollback(d)
  BY BlueGreenOnly DEF WorldInv
<1>2. CASE Timeout(d)
  BY <1>1, <1>2, TimeoutMoves, EffectTouches
<1>3. CASE TimeoutCleanup(d)
  <2>1. pc[d] = "timeout_cleanup" /\ (ctx[d].new # Nil => Discards(ctx[d].new))
    BY <1>1, <1>3, CleanupMoves
  <2>2. ctx[d].new = New(d)
    BY <2>1 DEF WorldInv, PlaceInv, PlaceAt, OwnAt
  <2>3. New(d) # Nil
    BY OwnContainers, NilFresh
  <2> QED BY <2>1, <2>2, <2>3, TouchesOne
<1>4. CASE BgDrain(d) \/ PodDrain(d)
  BY <1>1, <1>4, DrainMoves, TouchesOne DEF Drains, RecreateSteps
<1>5. CASE ~(Timeout(d) \/ TimeoutCleanup(d) \/ BgDrain(d) \/ PodDrain(d)) /\ ~Still
  BY <1>1, <1>5, TaskTouches DEF Recreate, Rollback
<1> QED BY <1>2, <1>3, <1>4, <1>5

\* No step of a blue-green deploy, and no call it makes, changes what the app state names.
LEMMA KeepNamed ==
  ASSUME WorldInv, CleanInv, NEW d \in Deploys, DeployKeep(d), Task(d) \/ Effect(d)
  PROVE  NamedStay
<1>1. TypeInv /\ pc[d] \notin RecreateSteps \cup RollbackSteps /\ ~Recreate(d) /\ ~Rollback(d)
  BY BlueGreenOnly DEF WorldInv
<1>2. CASE Effect(d)
  BY <1>1, <1>2, EffectNamedStay DEF CleanInv, RecreateSteps, RollbackSteps
<1>3. CASE Timeout(d)
  <2>1. Still \/ Effect(d)
    BY <1>1, <1>3, TimeoutMoves
  <2>2. Still => NamedStay
    BY KnownAt DEF Still, NamedStay
  <2> QED BY <1>2, <2>1, <2>2
<1>4. CASE TimeoutCleanup(d)
  <2>1. pc[d] = "timeout_cleanup" /\ (ctx[d].new # Nil => Discards(ctx[d].new))
    BY <1>1, <1>4, CleanupMoves
  <2>2. ctx[d].new = New(d) /\ New(d) \notin {app.cid, app.pod} /\ New(d) # Nil
    BY <2>1, OwnContainers, NilFresh DEF WorldInv, PlaceInv, PlaceAt, OwnAt, CleanInv
  <2>3. Still \/ OnlyAt(New(d))
    BY <2>1, <2>2, TouchesOne
  <2> QED BY <2>2, <2>3, KnownAt DEF Still, OnlyAt, NamedStay
<1>5. CASE Task(d) /\ ~Timeout(d) /\ ~TimeoutCleanup(d)
  BY <1>1, <1>5, TaskNamedStay DEF Recreate, Rollback
<1> QED BY <1>2, <1>3, <1>4, <1>5

\* The status of the app turns to running by an update alone, and looking up an app that has
\* an entry takes it away.
LEMMA StatusMove ==
  ASSUME WorldInv, NEW d \in Deploys, DeployKeep(d), Task(d),
         ~(BgUpdate(d) \/ RcUpdate(d) \/ PodUpdate(d))
  PROVE  /\ app'.status = "running" => app.status = "running"
         /\ pc[d] = "accepted" /\ pc'[d] # "done" /\ app.entry => app'.status # "running"
<1>1. TypeOK /\ TypeInv /\ app \in AppState /\ ~Recreate(d) /\ ~Rollback(d)
  BY BlueGreenOnly DEF WorldInv, TypeInv, TypeOK
<1>2. ASSUME Fail(d) PROVE pc'[d] = "done" /\ (app'.status = "running" => app.status = "running")
  BY <1>1, <1>2 DEF Fail, Return, SetAppFailed, AppState, TypeOK
<1>3. CASE LookUpApp(d)
  <2>1. CASE Fail(d)
    BY <1>2, <2>1
  <2>2. CASE app' = IF app.entry THEN [app EXCEPT !.status = "deploying"] ELSE app
    BY <1>1, <2>2 DEF AppState
  <2> QED BY <1>3, <2>1, <2>2 DEF LookUpApp
<1>4. CASE Timeout(d) /\ pc[d] = "accepted"
  <2>1. ctx[d].new = Nil
    BY <1>4 DEF WorldInv, PlaceInv, PlaceAt, OwnAt, Unmade
  <2> QED BY <1>2, <1>4, <2>1 DEF Timeout
<1>5. CASE ~LookUpApp(d) /\ ~(Timeout(d) /\ pc[d] = "accepted")
  <2>1. pc[d] # "accepted"
    BY <1>5, <1>1
       DEF Task, PullImages, Configure, BlueGreen, BgStart, BgHealth, BgVerify, BgDiscard,
           BgSwitch, BgUpdate, BgDrain, Pod, PodDeploy, PodHealth, PodDiscard, PodSwitch,
           PodUpdate, PodDrain, TimeoutCleanup
  <2>2. Fail(d) \/ app' = app
    <3>1. CASE PullImages(d) \/ Configure(d)
      BY <3>1 DEF PullImages, Configure
    <3>2. CASE BgStart(d) \/ BgHealth(d) \/ BgVerify(d) \/ BgDiscard(d) \/ BgSwitch(d) \/ BgDrain(d)
      BY <3>2 DEF BgStart, BgHealth, BgVerify, BgDiscard, BgSwitch, BgDrain, SetRoutes
    <3>3. CASE PodDeploy(d) \/ PodHealth(d) \/ PodDiscard(d) \/ PodSwitch(d) \/ PodDrain(d)
      BY <3>3 DEF PodDeploy, PodHealth, PodDiscard, PodSwitch, PodDrain, SetRoutes
    <3>4. CASE Timeout(d) \/ TimeoutCleanup(d)
      BY <3>4 DEF Timeout, TimeoutCleanup
    <3> QED BY <1>1, <1>5, <3>1, <3>2, <3>3, <3>4 DEF Task, BlueGreen, Pod
  <2> QED BY <1>2, <2>1, <2>2
<1> QED BY <1>3, <1>4, <1>5

\* The steps of a blue-green deploy but the updates: where they go, and what they leave in
\* Caddy.  Only the timeout of a pod deploy ends one that is switched.
LEMMA KeepMoves ==
  ASSUME Survives, WorldInv, NEW d \in Deploys, DeployKeep(d), Task(d),
         ~(BgUpdate(d) \/ RcUpdate(d) \/ PodUpdate(d))
  PROVE  /\ pc'[d] \notin Drains
         /\ pc'[d] \in Ahead => route' = ctx'[d].port
         /\ pc'[d] \in Busy => pc[d] \in Busy \cup {"accepted"}
         /\ \/ route' = route \/ pc'[d] \in Ahead
            \/ pc[d] = "pod_switch" /\ pc'[d] = "done" /\ Still /\ route' = ctx[d].port
         /\ pc[d] \in Ahead =>
              pc[d] = "pod_update" /\ pc'[d] = "done" /\ Still /\ route' = route
<1>1. TypeOK /\ TypeInv /\ ~Recreate(d) /\ ~Rollback(d)
  BY BlueGreenOnly DEF WorldInv, TypeInv
<1>2. ~IsWorker(d) /\ IsHttp(d)
  BY DEF DeployKeep, IsWorker, IsHttp
<1>a. "done" \notin Busy
  BY DEF Busy, TimedSteps, BlueGreenSteps, PodSteps, RecreateSteps, RollbackSteps
<1>3. CASE LookUpApp(d) \/ PullImages(d)
  BY <1>1, <1>3, LookUpMoves
     DEF Plain, MovesTo, Busy, Drains, Ahead, TimedSteps, BlueGreenSteps, PodSteps
<1>4. CASE Configure(d)
  BY <1>1, <1>4, ConfigureMoves DEF Plain, MovesTo, Busy, Drains, Ahead, TimedSteps,
     RecreateBegins, BlueGreenSteps, PodSteps
<1>5. CASE BgStart(d) \/ BgHealth(d) \/ BgVerify(d)
  BY <1>1, <1>2, <1>5, BgStartMoves, BgHealthMoves, BgVerifyMoves
     DEF Plain, MovesTo, Makes, ReadsOld, Busy, Drains, Ahead, TimedSteps, BlueGreenSteps
<1>6. CASE PodDeploy(d) \/ PodHealth(d)
  BY <1>1, <1>2, <1>6, PodDeployMoves, PodHealthMoves
     DEF Plain, MovesTo, ReadsOld, Busy, Drains, Ahead, TimedSteps, PodSteps
<1>7. CASE BgDiscard(d) \/ PodDiscard(d) \/ BgDrain(d) \/ PodDrain(d)
  BY <1>1, <1>a, <1>7, DiscardMoves, DrainMoves DEF Plain, MovesTo, Busy, Drains, Ahead, TimedSteps
<1>8. CASE BgSwitch(d) \/ PodSwitch(d)
  <2>1. /\ pc[d] \in {"bg_switch", "pod_switch"}
        /\ route' = ctx[d].port
        /\ Plain(d, {IF pc[d] = "bg_switch" THEN "bg_update" ELSE "pod_update"})
    <3>1. pc[d] \in {"bg_switch", "pod_switch"} /\ ~Fails("route") /\ ~Fails("reply")
      BY <1>8 DEF BgSwitch, PodSwitch, Fails, Survives
    <3>2. route' \in CallRoute(d)
      BY <1>8, <3>1 DEF BgSwitch, PodSwitch, SetRoutes
    <3>3. Advance(d, IF pc[d] = "bg_switch" THEN "bg_update" ELSE "pod_update", ctx[d])
          /\ app' = app
      BY <1>8, <3>1 DEF BgSwitch, PodSwitch, SetRoutes
    <3> QED BY <1>1, <3>1, <3>2, <3>3, AdvancePlain, AppKept DEF CallRoute
  <2> QED BY <2>1 DEF Plain, SameCtx, MovesTo, Busy, Drains, Ahead, TimedSteps, BlueGreenSteps,
                      PodSteps
<1>9. CASE Timeout(d)
  <2>1. /\ pc[d] \in DeadlineSteps /\ (Still \/ Effect(d))
        /\ route' = route \/ route' \in CallRoute(d)
        /\ \/ Plain(d, {"timeout_cleanup"}) /\ ctx[d].new # Nil
           \/ Plain(d, {"done"}) /\ ctx[d].new = Nil
    BY <1>1, <1>9, TimeoutMoves
  <2>2. pc[d] \in TimedSteps /\ pc[d] \notin {"bg_switch", "bg_update", "bg_drain"}
    BY <2>1, ConstantsAssumption DEF Survives
  <2>3. pc[d] \notin RecreateSteps \cup RollbackSteps
    BY BlueGreenOnly
  <2>4. pc[d] \in PodSteps \cup {"accepted"} => ctx[d].new = Nil
    BY DEF WorldInv, PlaceInv, PlaceAt, OwnAt, Unmade
  <2>5. pc'[d] \in {"timeout_cleanup", "done"}
        /\ (pc[d] \in PodSteps \cup {"accepted"} => pc'[d] = "done")
    BY <2>1, <2>4 DEF Plain, MovesTo
  <2>6. CASE pc[d] = "pod_switch"
    BY <2>1, <2>5, <2>6 DEF CallRoute, Effect, Busy, Drains, Ahead, PodSteps, TimedSteps
  <2>7. CASE pc[d] = "pod_update"
    BY <2>1, <2>5, <2>7 DEF CallRoute, Effect, Busy, Drains, Ahead, PodSteps, TimedSteps
  <2>8. CASE pc[d] \notin {"pod_switch", "pod_update"}
    <3>1. route' = route
      BY <2>1, <2>2, <2>3, <2>8 DEF CallRoute, RecreateSteps, RollbackSteps
    <3> QED BY <1>a, <2>2, <2>5, <2>8, <3>1 DEF Busy, Drains, Ahead, PodSteps
  <2> QED BY <2>6, <2>7, <2>8
<1>10. CASE TimeoutCleanup(d)
  BY <1>1, <1>10, CleanupMoves DEF Plain, MovesTo, Busy, Drains, Ahead, TimedSteps
<1> QED BY <1>1, <1>3, <1>4, <1>5, <1>6, <1>7, <1>8, <1>9, <1>10 DEF Task, BlueGreen, Pod

\* Where no deploy is being switched and none is left behind, and the app state says what the
\* file says, traffic goes where the file says; otherwise to the new version or to what a
\* timeout left.  Either way it reaches a container.
LEMMA KeepServes ==
  ASSUME WorldInv, KeepInv, FileNames
  PROVE  Serving
<1>1. TypeOK /\ Nil \notin Containers
  BY NilFresh DEF WorldInv, TypeInv
<1>2. CASE ~up
  BY <1>2 DEF KeepInv, RouteKeep
<1>3. ASSUME NEW d \in Deploys, pc[d] \in Ahead PROVE Serving
  <2>1. Running(New(d)) /\ ctx[d].port = runtime[New(d)].port /\ New(d) \in Containers
    BY <1>3, OwnContainers
       DEF WorldInv, PlaceInv, PlaceAt, OwnAt, NewUp, HasPort, Ahead
  <2>2. IsHttp(d) /\ route = ctx[d].port
    BY <1>3 DEF KeepInv, DeployKeep, IsHttp
  <2>3. runtime[New(d)].port \in Ports
    BY <2>1, <2>2, PortedPort, ContainerNames DEF Ported
  <2> QED BY <2>1, <2>2, <2>3, PortNumbers DEF Serving
<1>4. CASE route = disk.port
  <2>1. PICK c \in {disk.cid, disk.pod} \ {Nil} : runtime[c].port = disk.port
    BY DEF KeepInv, FileKeep
  <2>2. Running(c) /\ disk.port # 0 /\ c \in Containers
    BY <1>1, <2>1 DEF KeepInv, FileKeep, TypeOK, PersistedState, Option
  <2> QED BY <1>4, <2>1, <2>2 DEF Serving
<1>5. CASE LeftBehind
  BY <1>5 DEF LeftBehind, Serving
<1> QED BY <1>2, <1>3, <1>4, <1>5 DEF KeepInv, RouteKeep

\* What the file names is what the app state names, and stays.
LEMMA FileStays ==
  ASSUME KeepInv, up, NamedStay, disk' = disk
  PROVE  FileKeep'
  BY DEF KeepInv, AppKeep, FileKeep, FileNames, NamedStay, Running

\* A step of a deploy that records nothing.
LEMMA KeepPlain ==
  ASSUME Survives, WorldInv, KeepInv, up, NEW d \in Deploys, Task(d), UNCHANGED slipdVars,
         ~(BgUpdate(d) \/ RcUpdate(d) \/ PodUpdate(d))
  PROVE  KeepInv'
<1> USE DEF KeepInv
<1>1. /\ TypeOK /\ TypeInv /\ OneDeployAtATime
      /\ DeployKeep(d) /\ ~Recreate(d) /\ ~Rollback(d)
  BY BlueGreenOnly DEF WorldInv, TypeInv
<1>2. InFlight(d) /\ OthersStay(d) /\ SameTask(d) /\ SameApp
  BY <1>1, TaskMoves DEF Rollback
<1>3. disk' = disk /\ app'.routes = app.routes /\ app'.entry = app.entry
  BY <1>1, TaskFile, TaskRoutes DEF RoutesMove
<1>4. NamedStay
  BY <1>1, KeepNamed
<1>5. FileKeep'
  BY <1>3, <1>4, FileStays
<1>6. up' /\ config' /\ del' = "none" /\ ~ticking'
  BY DEF slipdVars
<1>7. CleanInv'
  <2> SUFFICES ASSUME NEW e \in Deploys, pc'[e] = "timeout_cleanup"
               PROVE  New(e) \notin {app.cid, app.pod}
    BY <1>2 DEF CleanInv, SameApp
  <2>1. CASE e # d
    BY <1>2, <2>1 DEF CleanInv, OthersStay
  <2>2. CASE e = d
    <3>1. Timeout(d)
      BY <1>1, <2>2, TaskMoves
    <3>2. pc[d] \in DeadlineSteps /\ ctx[d].new # Nil
      BY <1>1, <2>2, <3>1, TimeoutMoves DEF Plain, MovesTo
    <3>3. pc[d] \in TimedSteps /\ pc[d] # "bg_drain"
      BY <3>2, ConstantsAssumption DEF Survives
    <3>4. pc[d] \notin PodSteps \cup RecreateSteps
      BY <3>2, BlueGreenOnly DEF WorldInv, PlaceInv, PlaceAt, OwnAt
    <3>5. pc[d] \notin MayBeNamed
      BY <3>3, <3>4
         DEF MayBeNamed, TimedSteps, BlueGreenSteps, PodSteps, RecreateSteps, RollbackSteps
    <3> QED BY <2>2, <3>5, KnownAt
  <2> QED BY <2>1, <2>2
<1>8. app'.status = "running" => app.status = "running"
  BY <1>1, StatusMove
<1>9. AppKeep'
  BY <1>2, <1>3, <1>6, <1>8 DEF AppKeep, SameApp
<1>10. \A e \in Deploys \ {d} : pc[e] \notin Ahead \cup Busy \cup Drains
  <2>1. \A e \in Deploys \ {d} : pc[e] \in {"idle", "done"}
    BY <1>1, <1>2, Alone
  <2> QED BY <2>1 DEF Ahead, Busy, Drains, TimedSteps, BlueGreenSteps, PodSteps, RecreateSteps,
                      RollbackSteps
<1>11. ASSUME NEW e \in Deploys PROVE DeployKeep(e)'
  <2>1. CASE e # d
    BY <1>2, <1>10, <2>1 DEF OthersStay, DeployKeep
  <2>2. CASE e = d
    <3>1. ctx'[d].strategy # "recreate" /\ ctx'[d].kind \in {"http", "pod"}
      BY <1>1, <1>2 DEF SameTask, DeployKeep
    <3>2. /\ pc'[d] \notin Drains
          /\ pc'[d] \in Ahead => route' = ctx'[d].port
          /\ pc'[d] \in Busy => pc[d] \in Busy \cup {"accepted"}
      BY <1>1, KeepMoves
    <3>3. pc'[d] \in Busy => app'.status # "running"
      <4>1. CASE pc[d] \in Busy
        BY <1>1, <1>8, <4>1 DEF DeployKeep
      <4>2. CASE pc[d] = "accepted" /\ pc'[d] # "done" /\ app.entry
        BY <1>1, <4>2, StatusMove
      <4>3. CASE ~app.entry
        BY <1>8, <4>3 DEF AppKeep
      <4>4. "done" \notin Busy
        BY DEF Busy, TimedSteps, BlueGreenSteps, PodSteps, RecreateSteps, RollbackSteps
      <4> QED BY <3>2, <4>1, <4>2, <4>3, <4>4
    <3> QED BY <2>2, <3>1, <3>2, <3>3 DEF DeployKeep
  <2> QED BY <2>1, <2>2
<1>12. RouteKeep'
  <2> SUFFICES ASSUME FileNames PROVE RouteKeep'
    BY <1>3 DEF RouteKeep, FileNames
  <2>1. CASE pc'[d] \in Ahead
    BY <1>6, <2>1 DEF RouteKeep
  <2>2. CASE \/ pc[d] = "pod_switch" /\ pc'[d] = "done" /\ Still /\ route' = ctx[d].port
             \/ pc[d] \in Ahead
    <3>1. /\ pc[d] \in {"pod_switch", "pod_update"} /\ pc'[d] = "done" /\ Still
          /\ route' = ctx[d].port
      BY <1>1, <2>2, KeepMoves DEF DeployKeep
    <3>2. Running(New(d)) /\ ctx[d].port = runtime[New(d)].port /\ New(d) \in Containers
      BY <3>1, OwnContainers DEF WorldInv, PlaceInv, PlaceAt, OwnAt, NewUp, HasPort
    <3>3. runtime[New(d)].port \in Ports
      BY <1>1, <3>2, PortedPort, ContainerNames DEF Ported, DeployKeep, IsHttp
    <3>4. app'.status # "running"
      BY <1>1, <1>8, <3>1 DEF DeployKeep, Busy, Drains, TimedSteps, PodSteps
    <3>5. LeftBehind'
      BY <3>1, <3>2, <3>3, <3>4, PortNumbers, ContainerNames DEF LeftBehind, Still, Running
    <3> QED BY <1>6, <3>5 DEF RouteKeep
  <2>3. CASE route' = route /\ pc[d] \notin Ahead
    <3>1. route = disk.port \/ LeftBehind
      BY <1>10, <2>3 DEF RouteKeep
    <3>2. CASE route = disk.port
      BY <1>3, <1>6, <2>3, <3>2 DEF RouteKeep
    <3>3. CASE LeftBehind
      <4>1. PICK c \in Containers : pc[c[1]] = "done" /\ Running(c) /\ runtime[c].port = route
        BY <3>3 DEF LeftBehind
      <4>2. c[1] \in Deploys \ {d}
        BY <1>2, <4>1, ContainerNames DEF InFlight
      <4>3. pc[d] \notin Drains
        BY <1>1, <3>3 DEF DeployKeep, LeftBehind
      <4>4. runtime'[c] = runtime[c]
        BY <1>1, <4>2, <4>3, TaskTouchesOwn, ContainerNames DEF Still, OnlyAt
      <4>5. LeftBehind'
        BY <1>2, <1>8, <2>3, <3>3, <4>1, <4>2, <4>4 DEF LeftBehind, Running, OthersStay
      <4> QED BY <1>6, <4>5 DEF RouteKeep
    <3> QED BY <3>1, <3>2, <3>3
  <2> QED BY <1>1, <2>1, <2>2, <2>3, KeepMoves
<1> QED BY <1>5, <1>6, <1>7, <1>9, <1>11, <1>12

\* What an update makes of the app state and of the file.
LEMMA RecordWrites ==
  ASSUME Survives, WorldInv, NEW d \in Deploys, DeployKeep(d), BgUpdate(d) \/ PodUpdate(d)
  PROVE  /\ app'.status = "running" /\ app'.entry
         /\ app'.routes \in {Nil, app'.port}
         /\ disk'.cid = app'.cid /\ disk'.pod = app'.pod
         /\ disk'.port = app'.port /\ disk'.routes = app'.routes
<1>1. app \in AppState /\ IsHttp(d)
  BY DEF WorldInv, TypeInv, TypeOK, DeployKeep, IsHttp
<1>2. app' \in {SwitchedContainer(d), SwitchedPod(d)}
  BY DEF BgUpdate, PodUpdate
<1>3. /\ app'.status = "running" /\ app'.entry /\ app'.routes \in {Nil, app'.port}
  BY <1>1, <1>2 DEF SwitchedContainer, SwitchedPod, AppState
<1>4. disk' = Persisted(app')
  BY DEF BgUpdate, PodUpdate, SaveAppState, Fails, Survives
<1> QED BY <1>3, <1>4 DEF Persisted

\* The update of a deploy: the file follows the route.
LEMMA KeepRecord ==
  ASSUME Survives, WorldInv, KeepInv, up, NEW d \in Deploys, UNCHANGED slipdVars,
         BgUpdate(d) \/ RcUpdate(d) \/ PodUpdate(d)
  PROVE  KeepInv'
<1> USE DEF KeepInv
<1>1. /\ TypeOK /\ TypeInv /\ OneDeployAtATime
      /\ DeployKeep(d) /\ ~RcUpdate(d)
  BY BlueGreenOnly DEF WorldInv, TypeInv, Recreate
<1>2. InFlight(d) /\ OthersStay(d) /\ SameTask(d)
  BY <1>1, TaskMoves DEF Task, BlueGreen, Pod
<1>3. /\ pc[d] \in Ahead /\ Still /\ route' = route
      /\ ctx'[d].port = ctx[d].port /\ app'.port = ctx[d].port
      /\ \/ pc[d] = "bg_update" /\ app'.cid = ctx[d].new /\ app'.pod = app.pod
         \/ pc[d] = "pod_update" /\ app'.cid = app.cid /\ app'.pod = ctx[d].pod
      /\ pc'[d] \in Drains \cup {"done"}
  <2>1. CASE BgUpdate(d)
    <3>1. pc[d] = "bg_update" /\ Records(d, ctx[d].new, app.pod, "bg_drain")
      BY <1>1, <2>1, ContainerRecorded DEF BgUpdate
    <3> QED BY <3>1 DEF Records, SameCtx, Ahead, Drains
  <2>2. CASE PodUpdate(d)
    <3>1. pc[d] = "pod_update" /\ Records(d, app.cid, ctx[d].pod, "pod_drain")
      BY <1>1, <2>2, PodRecorded
    <3> QED BY <3>1 DEF Records, SameCtx, Ahead, Drains
  <2> QED BY <1>1, <2>1, <2>2
<1>4. /\ New(d) \in {app'.cid, app'.pod} /\ {app'.cid, app'.pod} \subseteq {New(d), app.cid, app.pod}
      /\ Running(New(d)) /\ ctx[d].port = runtime[New(d)].port /\ New(d) \in Containers
  BY <1>3, OwnContainers
     DEF WorldInv, PlaceInv, PlaceAt, OwnAt, NamesNew, NamesPod, PodSteps, NewUp, HasPort
<1>5. runtime[New(d)].port \in Ports /\ New(d) # Nil
  BY <1>1, <1>4, PortedPort, ContainerNames, NilFresh DEF Ported, DeployKeep, IsHttp
<1>6. /\ app'.status = "running" /\ app'.entry
      /\ app'.routes \in {Nil, app'.port}
      /\ disk'.cid = app'.cid /\ disk'.pod = app'.pod
      /\ disk'.port = app'.port /\ disk'.routes = app'.routes
  BY <1>1, RecordWrites
<1>7. up' /\ config' /\ del' = "none" /\ ~ticking'
  BY DEF slipdVars
<1>8. FileKeep'
  <2>1. ASSUME NEW c \in {disk'.cid, disk'.pod} \ {Nil} PROVE Running(c)'
    <3>1. c \in {New(d), disk.cid, disk.pod} \ {Nil}
      BY <1>4, <1>6, <2>1 DEF AppKeep
    <3> QED BY <1>3, <1>4, <3>1 DEF FileKeep, Still, Running
  <2>2. /\ disk'.port # 0
        /\ \E c \in {disk'.cid, disk'.pod} \ {Nil} : runtime'[c].port = disk'.port
    BY <1>3, <1>4, <1>5, <1>6, PortNumbers DEF Still
  <2> QED BY <1>6, <2>1, <2>2 DEF FileKeep
<1>9. AppKeep'
  BY <1>4, <1>5, <1>6 DEF AppKeep
<1>10. \A e \in Deploys \ {d} : pc'[e] \in {"idle", "done"} /\ ctx'[e] = ctx[e]
  BY <1>1, <1>2, Alone
<1>11. \A e \in Deploys : pc'[e] \notin Ahead \cup Busy \cup {"timeout_cleanup"}
  BY <1>3, <1>10
     DEF Ahead, Busy, Drains, TimedSteps, BlueGreenSteps, PodSteps, RecreateSteps, RollbackSteps
<1>12. CleanInv'
  BY <1>11 DEF CleanInv
<1>13. \A e \in Deploys : DeployKeep(e)'
  BY <1>1, <1>2, <1>6, <1>10, <1>11 DEF DeployKeep, SameTask
<1>14. RouteKeep'
  <2>1. route' = disk'.port
    BY <1>1, <1>3, <1>6 DEF DeployKeep
  <2> QED BY <1>7, <2>1 DEF RouteKeep
<1> QED BY <1>7, <1>8, <1>9, <1>12, <1>13, <1>14

\* A deploy that is accepted.
LEMMA KeepRequest ==
  ASSUME Survives, WorldInv, KeepInv, up, Request, UNCHANGED slipdVars
  PROVE  KeepInv'
<1> USE DEF KeepInv
<1>1. PICK d \in Deploys, t \in Tags, k \in Kinds, s \in Strategies : HandleDeploy(d, t, k, s)
  BY DEF Request
<1>2. /\ UNCHANGED <<app, disk, runtime, route>> /\ pc[d] = "idle" /\ pc'[d] = "accepted"
      /\ \A e \in Deploys \ {d} : ctx'[e] = ctx[e] /\ pc'[e] = pc[e]
      /\ ctx'[d].kind = k /\ ctx'[d].strategy = s
  BY <1>1 DEF HandleDeploy, NewContext, WorldInv, TypeInv, TypeOK
<1>3. k \in {"http", "pod"} /\ s # "recreate"
  BY DEF Survives
<1>4. up' /\ config' /\ del' = "none" /\ ~ticking'
  BY DEF slipdVars
<1>5. FileKeep' /\ AppKeep'
  BY <1>2, <1>4 DEF FileKeep, AppKeep, FileNames, Running
<1>6. CleanInv'
  BY <1>2 DEF CleanInv
<1>7. \A e \in Deploys : DeployKeep(e)'
  BY <1>2, <1>3 DEF DeployKeep, Ahead, Drains, Busy
<1>8. RouteKeep'
  <2> SUFFICES ASSUME FileNames PROVE RouteKeep'
    BY <1>2 DEF RouteKeep, FileNames
  <2>1. CASE \E e \in Deploys : pc[e] \in Ahead
    BY <1>2, <1>4, <2>1 DEF RouteKeep, Ahead
  <2>2. CASE route = disk.port
    BY <1>2, <1>4, <2>2 DEF RouteKeep
  <2>3. CASE LeftBehind
    <3>1. PICK c \in Containers : pc[c[1]] = "done" /\ Running(c) /\ runtime[c].port = route
      BY <2>3 DEF LeftBehind
    <3>2. pc'[c[1]] = "done"
      BY <1>2, <3>1, ContainerNames
    <3> QED BY <1>2, <1>4, <2>3, <3>1, <3>2 DEF RouteKeep, LeftBehind, Running
  <2> QED BY <2>1, <2>2, <2>3 DEF RouteKeep
<1> QED BY <1>4, <1>5, <1>6, <1>7, <1>8

\* slipd dies: the calls that were pending touch nothing that the file names, and the route
\* leads to what it names or to the new version of the deploy that was in flight.
LEMMA KeepCrash ==
  ASSUME Survives, DaemonInv, KeepInv, Crash
  PROVE  KeepInv'
<1> USE DEF KeepInv, DaemonInv
<1>1. TypeOK /\ TypeInv /\ OneDeployAtATime /\ Nil \notin Containers
  BY NilFresh DEF WorldInv, TypeInv
<1>2. /\ up /\ ~up' /\ UNCHANGED <<ctx, disk>> /\ app' = NoApp /\ del' = "none" /\ ~ticking'
      /\ \A d \in Deploys : pc'[d] = IF InFlight(d) THEN "done" ELSE pc[d]
  BY DEF Crash, SlipdTypeOK
<1>3. config'
  BY DEF Crash
<1>4. /\ runtime' = runtime
         \/ \E d \in Deploys : InFlight(d) /\ runtime' \in CallRuntime(d)
      /\ route' = route \/ \E d \in Deploys : InFlight(d) /\ route' \in CallRoute(d)
  BY DEF Crash, DeleteRuntime, DeletedRoute
<1>5. ASSUME NEW d \in Deploys, runtime' \in CallRuntime(d)
      PROVE  Effect(d) /\ DeployKeep(d)
  BY <1>1, <1>5, CallEffect
<1>6. NamedStay
  <2>1. CASE runtime' = runtime
    BY <2>1 DEF NamedStay
  <2>2. ASSUME NEW d \in Deploys, runtime' \in CallRuntime(d) PROVE NamedStay
    BY <1>5, <2>2, KeepNamed
  <2> QED BY <1>4, <2>1, <2>2
<1>7. FileKeep'
  BY <1>2, <1>6, FileStays
<1>8. AppKeep'
  BY <1>2 DEF AppKeep, NoApp
<1>9. CleanInv' /\ \A d \in Deploys : DeployKeep(d)'
  <2>1. \A d \in Deploys : pc'[d] \in {"idle", "done"}
    BY <1>2 DEF InFlight
  <2> QED BY <1>2, <2>1
          DEF CleanInv, DeployKeep, Ahead, Drains, Busy, TimedSteps, BlueGreenSteps, PodSteps,
              RecreateSteps, RollbackSteps
<1>10. ASSUME NEW d \in Deploys, pc[d] \in Ahead \cup {"bg_switch", "pod_switch"},
              route' = ctx[d].port
       PROVE  Serving'
  <2>1. Running(New(d)) /\ ctx[d].port = runtime[New(d)].port /\ New(d) \in Containers
    BY <1>10, OwnContainers
       DEF WorldInv, PlaceInv, PlaceAt, OwnAt, NewUp, HasPort, Ahead
  <2>2. runtime[New(d)].port \in Ports
    BY <2>1, PortedPort, ContainerNames DEF Ported, DeployKeep, IsHttp
  <2>3. runtime' = runtime
    <3>1. InFlight(d)
      BY <1>10 DEF InFlight, Ahead
    <3>2. \A e \in Deploys : InFlight(e) => e = d
      BY <1>1, <3>1 DEF OneDeployAtATime
    <3>3. runtime' \in CallRuntime(d) => runtime' = runtime
      BY <1>10 DEF CallRuntime, Ahead
    <3> QED BY <1>4, <3>2, <3>3
  <2> QED BY <1>10, <2>1, <2>2, <2>3, PortNumbers DEF Serving, Running
<1>11. RouteKeep'
  <2> SUFFICES ASSUME FileNames PROVE Serving'
    BY <1>2 DEF RouteKeep, FileNames
  <2>1. ASSUME NEW d \in Deploys, InFlight(d), route' \in CallRoute(d), route' # route
        PROVE  Serving'
    <3>1. pc[d] \notin RecreateSteps \cup RollbackSteps
      BY BlueGreenOnly
    <3>2. pc[d] \in {"bg_switch", "pod_switch"} /\ route' = ctx[d].port
      BY <2>1, <3>1 DEF CallRoute, RecreateSteps, RollbackSteps
    <3> QED BY <1>10, <3>2
  <2>2. ASSUME route' = route, NEW d \in Deploys, pc[d] \in Ahead PROVE Serving'
    BY <1>10, <2>2 DEF DeployKeep
  <2>3. CASE route' = route /\ route = disk.port
    <3>1. PICK c \in {disk.cid, disk.pod} \ {Nil} : runtime[c].port = disk.port
      BY DEF FileKeep
    <3>2. Running(c) /\ disk.port # 0 /\ c \in Containers
      BY <1>1, <3>1 DEF FileKeep, TypeOK, PersistedState, Option
    <3>3. runtime'[c] = runtime[c]
      BY <1>2, <1>6, <3>1 DEF NamedStay, AppKeep
    <3> QED BY <2>3, <3>1, <3>2, <3>3 DEF Serving, Running
  <2>4. CASE route' = route /\ LeftBehind
    <3>1. PICK c \in Containers : pc[c[1]] = "done" /\ Running(c) /\ runtime[c].port = route
      BY <2>4 DEF LeftBehind
    <3>2. runtime'[c] = runtime[c]
      <4>1. ASSUME NEW d \in Deploys, InFlight(d), runtime' \in CallRuntime(d)
            PROVE  runtime'[c] = runtime[c]
        <5>1. pc[d] \notin RecreateSteps \cup RollbackSteps
          BY BlueGreenOnly
        <5>2. pc[d] \notin Drains
          BY <2>4 DEF DeployKeep, LeftBehind
        <5>3. Still \/ OnlyAt(New(d))
          BY <1>5, <4>1, <5>1, <5>2, EffectTouches
        <5>4. c # New(d)
          BY <3>1, <4>1, ContainerNames DEF InFlight
        <5> QED BY <5>3, <5>4 DEF Still, OnlyAt
      <4> QED BY <1>4, <4>1
    <3> QED BY <2>4, <3>1, <3>2 DEF LeftBehind, Serving, Running
  <2>5. CASE route' = route
    BY <1>2, <2>2, <2>3, <2>4, <2>5 DEF RouteKeep
  <2> QED BY <1>4, <2>1, <2>5
<1> QED BY <1>2, <1>3, <1>7, <1>8, <1>9, <1>11

\* slipd comes back: what it loads from the file runs, and reconciling leads there.
LEMMA KeepBoot ==
  ASSUME Survives, DaemonInv, KeepInv, Boot
  PROVE  KeepInv'
<1> USE DEF KeepInv, DaemonInv
<1>1. TypeOK /\ Nil \notin Containers /\ disk \in PersistedState
  BY NilFresh DEF WorldInv, TypeInv, TypeOK
<1>2. /\ UNCHANGED <<pc, ctx, disk, runtime, config, ticking, del>> /\ up' /\ ~up
      /\ app' \in {Loaded, Verified(Loaded)}
      /\ route' = ReconciledRoute(app', config)
  BY DEF Boot, Fails, Survives
<1>3. app' = Loaded
  <2>1. Loaded.cid = disk.cid
    BY <1>1, LoadedType
  <2>2. disk.cid # Nil => Exists(disk.cid)
    BY DEF FileKeep, Running, Exists
  <2> QED BY <1>2, <2>1, <2>2 DEF Verified
<1>4. /\ app'.cid = disk.cid /\ app'.pod = disk.pod /\ app'.port = disk.port
      /\ app'.routes = disk.routes /\ app'.entry = disk.file
      /\ app'.status = IF FileNames THEN "running" ELSE "not_deployed"
  BY <1>3 DEF Loaded, FileNames
<1>5. FileKeep'
  BY <1>2 DEF FileKeep, FileNames, Running
<1>6. AppKeep'
  BY <1>2, <1>4 DEF AppKeep, FileNames, FileInv
<1>7. \A d \in Deploys : pc[d] \in {"idle", "done"}
  BY <1>2 DEF AsleepInv, InFlight
<1>8. CleanInv' /\ \A d \in Deploys : DeployKeep(d)'
  BY <1>2, <1>7
     DEF CleanInv, DeployKeep, Ahead, Drains, Busy, TimedSteps, BlueGreenSteps, PodSteps,
         RecreateSteps, RollbackSteps
<1>9. RouteKeep'
  <2> SUFFICES ASSUME FileNames PROVE route' = disk.port
    BY <1>2 DEF RouteKeep, FileNames
  <2>1. app'.status = "running" /\ disk.port # 0
    BY <1>4 DEF FileKeep
  <2>2. CASE disk.routes = Nil
    BY <1>2, <1>4, <2>1, <2>2 DEF ReconciledRoute
  <2>3. CASE disk.routes # Nil
    BY <1>2, <1>4, <2>1, <2>3 DEF ReconciledRoute, FileKeep
  <2> QED BY <2>2, <2>3
<1> QED BY <1>2, <1>5, <1>6, <1>8, <1>9

\* Nothing else happens but that the app is created, which finds its files there.
LEMMA KeepApi ==
  ASSUME Survives, DaemonInv, KeepInv, Snapshot \/ ApplySnapshot \/ CaddyRestart \/ Api
  PROVE  KeepInv'
<1> USE DEF KeepInv
<1>1. CreateApp
  BY DEF Snapshot, ApplySnapshot, CaddyRestart, Api, DeleteApp, DeleteStop, DeleteRoute,
         DeleteState, DeleteConfig, Disconnect, Survives
<1>2. /\ UNCHANGED <<pc, ctx, app, runtime, route, up, ticking, del>> /\ config'
      /\ disk' = [disk EXCEPT !.file = TRUE]
  BY <1>1 DEF CreateApp
<1>3. disk \in PersistedState
  BY DEF DaemonInv, WorldInv, TypeInv, TypeOK
<1>4. /\ disk'.cid = disk.cid /\ disk'.pod = disk.pod
      /\ disk'.port = disk.port /\ disk'.routes = disk.routes
  BY <1>2, <1>3 DEF PersistedState
<1>5. FileKeep' /\ AppKeep'
  BY <1>2, <1>4 DEF FileKeep, AppKeep, FileNames, Running
<1>6. CleanInv' /\ (LeftBehind => LeftBehind') /\ (Serving => Serving')
  BY <1>2 DEF CleanInv, LeftBehind, Serving, Running
<1>7. \A d \in Deploys : DeployKeep(d)'
  BY <1>2 DEF DeployKeep
<1>8. RouteKeep'
  BY <1>2, <1>4, <1>6 DEF RouteKeep, FileNames
<1> QED BY <1>2, <1>5, <1>6, <1>7, <1>8

\* KeepInv at the start.
LEMMA InitKeep == ASSUME Survives PROVE SlipdInit => KeepInv
<1> SUFFICES ASSUME SlipdInit PROVE KeepInv
  OBVIOUS
<1>1. \A d \in Deploys : pc[d] = "idle" /\ ctx[d].kind = "http" /\ ctx[d].strategy = "blue-green"
  BY DEF SlipdInit, Init, NewContext
<1>2. \A d \in Deploys : DeployKeep(d)
  BY <1>1 DEF DeployKeep, Ahead, Drains, Busy, TimedSteps, BlueGreenSteps, PodSteps,
              RecreateSteps, RollbackSteps
<1>3. CleanInv
  BY <1>1 DEF CleanInv
<1> QED BY <1>2, <1>3
        DEF SlipdInit, Init, NoApp, NoFile, KeepInv, FileKeep, AppKeep, RouteKeep, FileNames

\* KeepInv over every step.
LEMMA NextKeep ==
  ASSUME Survives, DaemonInv, KeepInv, [SlipdNext]_allVars
  PROVE  KeepInv'
<1>1. CASE UNCHANGED allVars
  <2>1. UNCHANGED vars /\ UNCHANGED slipdVars
    BY <1>1 DEF allVars
  <2>2. CleanInv' /\ (LeftBehind => LeftBehind') /\ (Serving => Serving')
    BY <2>1 DEF vars, KeepInv, CleanInv, LeftBehind, Serving, Running
  <2>3. FileKeep' /\ AppKeep'
    BY <2>1 DEF vars, slipdVars, KeepInv, FileKeep, AppKeep, FileNames, Running
  <2>4. \A d \in Deploys : DeployKeep(d)'
    BY <2>1 DEF vars, KeepInv, DeployKeep
  <2>5. RouteKeep'
    BY <2>1, <2>2 DEF vars, slipdVars, KeepInv, RouteKeep, FileNames
  <2> QED BY <2>1, <2>2, <2>3, <2>4, <2>5 DEF slipdVars, KeepInv
<1>2. CASE DeployStep
  BY <1>2, KeepRequest, KeepRecord, KeepPlain DEF DeployStep, Next, DaemonInv
<1> QED BY <1>1, <1>2, KeepCrash, KeepBoot, KeepApi DEF SlipdNext

\* The invariant of a daemon that may die.
LEMMA KeepInvariant ==
  ASSUME Survives
  PROVE  SlipdSpec => []KeepInv
<1>1. SlipdInit => KeepInv
  BY InitKeep
<1>2. DaemonInv /\ KeepInv /\ [SlipdNext]_allVars => KeepInv'
  BY NextKeep
<1> QED BY <1>1, <1>2, DaemonInvariant, PTL DEF SlipdSpec

\* Traffic survives a crash of slipd at any step of a blue-green deploy: the update that
\* writes the file comes after the switch and before the drain, so that at every moment what
\* the file names runs and the route leads to it or to the version that replaces it.
THEOREM CrashKeepsServingHolds ==
  ASSUME Survives
  PROVE  SlipdSpec => []CrashKeepsServing
<1>1. DaemonInv /\ KeepInv => CrashKeepsServing
  BY KeepServes DEF CrashKeepsServing, DaemonInv, FileNames
<1> QED BY <1>1, DaemonInvariant, KeepInvariant, PTL

\* What startup guesses from the state file is true: an app shown as running between deploys
\* is routed to the port its state names, and its container or pod listens there.
THEOREM RunningIsRoutedHolds ==
  ASSUME Survives
  PROVE  SlipdSpec => []RunningIsRouted
<1>1. DaemonInv /\ KeepInv => RunningIsRouted
  <2> SUFFICES ASSUME DaemonInv, KeepInv, up, lock = Nil, app.status = "running"
               PROVE  /\ route = RoutePort(app)
                      /\ \E c \in {app.cid, app.pod} \ {Nil} : Running(c) /\ runtime[c].port = route
    BY DEF RunningIsRouted
  <2>1. /\ FileNames /\ app.cid = disk.cid /\ app.pod = disk.pod /\ RoutePort(app) = disk.port
    BY DEF KeepInv, AppKeep, FileKeep, FileNames, RoutePort
  <2>2. \A d \in Deploys : ~InFlight(d)
    BY NoneInFlight DEF DaemonInv, WorldInv
  <2>3. route = disk.port
    BY <2>1, <2>2 DEF KeepInv, RouteKeep, LeftBehind, InFlight, Ahead
  <2> QED BY <2>1, <2>3 DEF KeepInv, FileKeep
<1> QED BY <1>1, DaemonInvariant, KeepInvariant, PTL

=============================================================================
