------------------------------- MODULE Backend -------------------------------
(***************************************************************************)
(* The two RuntimeBackends, DockerClient (docker.rs) and PodmanBackend     *)
(* (podman.rs), and the health checker (health.rs).  An operation is a     *)
(* script of daemon calls; each call may fail before or after the daemon   *)
(* acted, a caller may give up between any two, and several callers share  *)
(* the daemon.                                                             *)
(***************************************************************************)
EXTENDS Manifest, FiniteSets

CONSTANTS
  Callers, Ids,
  NoId,          \* no container
  Nil,           \* no name, no pod
  MaxNow,        \* bound: clock windows
  MaxFaults,     \* bound: daemon calls that fail
  Retries,       \* HealthConfig.retries
  Scenarios,     \* what runs in each of the instances that are explored
  Manifests,     \* manifests in images, by metadata.name
  RenderInputs   \* what a deploy renders its manifest with

ASSUME BackendAssumption ==
  /\ NoId \notin Ids /\ IsFiniteSet(Ids)
  /\ \A c \in Callers \cup {"extract", "service"}, n \in 0..MaxNow : Nil # <<c, n>>
  /\ MaxNow \in Nat /\ MaxFaults \in Nat /\ Retries \in Nat
  /\ \A e \in Scenarios : e.backend \in {"docker", "podman"}

VARIABLES
  env,     \* the scenario of this behaviour
  now,     \* the clock, in windows of 1024 ms
  faults,  \* daemon calls that failed so far
  unit,    \* containers: state and name, the name kept after removal
  net,     \* the bridge network exists
  pods,    \* pods by name: the manifest they run
  cmd,     \* per caller: the command its exec runs
  call,    \* per caller: the operation in progress
  res      \* per caller: the answer of its last operation

vars == <<env, now, faults, unit, net, pods, cmd, call, res>>

PodNames == (DOMAIN Manifests) \X (0..MaxNow)
NoCall == [op |-> "idle", at |-> "idle", id |-> NoId, n |-> 0,
           pod |-> Nil, doc |-> Nil]

Init ==
  /\ env \in Scenarios
  /\ now = 0 /\ faults = 0
  /\ unit = [i \in Ids |-> [st |-> "none", name |-> Nil]]
  /\ net = FALSE
  /\ pods = [p \in PodNames |-> Nil]
  /\ cmd = [c \in Callers |-> "none"]
  /\ call = [c \in Callers |-> NoCall]
  /\ res = [c \in Callers |-> "-"]

-----------------------------------------------------------------------------
(* Scripts: the daemon calls of an operation, and after which answers it   *)
(* goes on.  Whatever other answer ends the operation with Err.                 *)

On(at, answers, to) == [at |-> at, answers |-> answers, to |-> to]

Ping == {On("ping", {"ok"}, "Ok")}
PullImage == {On("pull", {"ok"}, "Ok")}

\* Nothing is removed when start or inspect fails.
CreateAndStart ==
  {On("create", {"ok"}, "start"), On("start", {"ok"}, "inspect"), On("inspect", {"up"}, "Ok")}

\* Under a name of its own, and without a host port to ask for.
CreateAndStartService == {On("create", {"ok"}, "start"), On("start", {"ok"}, "Ok")}

StopContainer == {On("stop", {"ok", "304"}, "Ok")}
StartContainer == {On("start", {"ok"}, "Ok")}
InspectContainerPort == {On("inspect", {"up"}, "Ok")}

\* Mutant of StopAndRemove: the result of the removal is dropped.
StopAndRemoveUnchecked ==
  {On("stop", {"ok", "304"}, "remove"), On("remove", {"ok", "404", "409", "error"}, "Ok")}

StopAndRemove == {On("stop", {"ok", "304"}, "remove"), On("remove", {"ok"}, "Ok")}

ContainerExists ==
  {On("inspect", {"up", "noport", "down"}, "Ok"), On("inspect", {"404"}, "No")}
ContainerIsRunning == {On("inspect", {"up", "noport"}, "Ok"), On("inspect", {"down"}, "No")}

Whatever == {"ok", "404", "409", "error"}

\* The temporary container is removed whatever the download says, and the
\* answer of the removal is ignored.
ExtractFile ==
  {On("create", {"ok"}, "download"),
   On("download", {"ok"}, "purge"), On("purge", Whatever, "Ok"),
   On("download", {"404"}, "purgeNone"), On("purgeNone", Whatever, "No"),
   On("download", {"error"}, "purgeErr"), On("purgeErr", Whatever, "Err")}

\* Podman removes it in two places: before the early return for an absent
\* file, and after the download.
PodmanExtractFile ==
  {On("create", {"ok"}, "download"),
   On("download", {"404"}, "purgeNone"), On("purgeNone", Whatever, "No"),
   On("download", {"ok"}, "purge"), On("purge", Whatever, "Ok"),
   On("download", {"error"}, "purgeErr"), On("purgeErr", Whatever, "Err")}

EnsureNetwork ==
  {On("netInspect", {"ok"}, "Ok"), On("netInspect", {"404"}, "netCreate"),
   On("netCreate", {"ok"}, "Ok")}

ListByLabel == {On("list", {"ok"}, "Ok")}
ContainerLogs == {On("logs", {"ok"}, "Ok")}

\* A broken output stream fails exec_in_container and exec_service_stdin.
ExecInContainer ==
  {On("execCreate", {"ok"}, "execStart"), On("execStart", {"ok"}, "stream"),
   On("stream", {"ok"}, "execInspect"), On("execInspect", {"zero"}, "Ok")}
ExecServiceStdin ==
  {On("execCreate", {"ok"}, "execStart"), On("execStart", {"ok"}, "stream"),
   On("stream", {"ok"}, "execInspect"), On("execInspect", {"zero"}, "Ok")}

\* Mutant of ExecServiceProbe: no exit code counts as zero.
ExecServiceProbeDefault ==
  {On("execCreate", {"ok"}, "execStart"), On("execStart", {"ok"}, "stream"),
   On("stream", {"ok", "error"}, "execInspect"), On("execInspect", {"zero", "null"}, "Ok")}

\* exec_service_probe only stops reading: the exit code decides.
ExecServiceProbe ==
  {On("execCreate", {"ok"}, "execStart"), On("execStart", {"ok"}, "stream"),
   On("stream", {"ok", "error"}, "execInspect"), On("execInspect", {"zero"}, "Ok")}

\* The same calls in the same order through podman's Docker-compatible socket.
PodmanPing == {On("ping", {"ok"}, "Ok")}
PodmanPullImage == {On("pull", {"ok"}, "Ok")}
PodmanCreateAndStart ==
  {On("create", {"ok"}, "start"), On("start", {"ok"}, "inspect"), On("inspect", {"up"}, "Ok")}
PodmanCreateAndStartService == {On("create", {"ok"}, "start"), On("start", {"ok"}, "Ok")}
PodmanStopContainer == {On("stop", {"ok", "304"}, "Ok")}
PodmanStartContainer == {On("start", {"ok"}, "Ok")}
PodmanInspectContainerPort == {On("inspect", {"up"}, "Ok")}
PodmanStopAndRemove == {On("stop", {"ok", "304"}, "remove"), On("remove", {"ok"}, "Ok")}
PodmanContainerExists ==
  {On("inspect", {"up", "noport", "down"}, "Ok"), On("inspect", {"404"}, "No")}
PodmanContainerIsRunning ==
  {On("inspect", {"up", "noport"}, "Ok"), On("inspect", {"down"}, "No")}
PodmanEnsureNetwork ==
  {On("netInspect", {"ok"}, "Ok"), On("netInspect", {"404"}, "netCreate"),
   On("netCreate", {"ok"}, "Ok")}
PodmanListByLabel == {On("list", {"ok"}, "Ok")}
PodmanContainerLogs == {On("logs", {"ok"}, "Ok")}

\* Podman runs its CLI for exec and for pods.
PodmanExec == {On("execStart", {"ok"}, "stream"), On("stream", {"ok"}, "exit"),
               On("exit", {"zero"}, "Ok")}
PodmanServiceProbe == PodmanExec
PodmanServiceStdin == PodmanExec
DeployPod == {On("play", {"ok"}, "Ok")}
TeardownPod == {On("down", {"ok"}, "Ok")}
PodContainerPort == {On("port", {"ok"}, "Ok")}

\* inspect_service: the digests stay empty when the image cannot be inspected;
\* podman then asks its CLI for the capabilities, and fails without them.
InspectService ==
  {On("inspect", {"up", "noport", "down"}, "image"), On("image", {"ok", "error"}, "Ok")}
PodmanInspectService ==
  {On("inspect", {"up", "noport", "down"}, "image"), On("image", {"ok", "error"}, "caps"),
   On("caps", {"ok"}, "Ok")}

\* docker asks the daemon and fails closed; podman compares its socket path.
IsRootful == {On("info", {"ok"}, "Ok"), On("info", {"rootless", "error"}, "No")}
PodmanIsRootful == {On("socket", {"ok"}, "Ok"), On("socket", {"rootless"}, "No")}

\* HealthChecker::check: a path is probed up to Retries times, else only the
\* start period passes.  It is given a host port and knows no container.
Check == {On("probe", {"good"}, "Ok"), On("wait", {"ok"}, "Ok")}

\* RuntimeBackend: docker has no pods, which is Unsupported.
Docker ==
  [ping |-> Ping, pull |-> PullImage, create |-> CreateAndStart,
   svcCreate |-> CreateAndStartService, stop |-> StopContainer,
   start |-> StartContainer, port |-> InspectContainerPort, remove |-> StopAndRemove,
   exists |-> ContainerExists, running |-> ContainerIsRunning, extract |-> ExtractFile,
   network |-> EnsureNetwork, list |-> ListByLabel, logs |-> ContainerLogs,
   exec |-> ExecInContainer, svcProbe |-> ExecServiceProbe, svcStdin |-> ExecServiceStdin,
   inspectSvc |-> InspectService, rootful |-> IsRootful, health |-> Check, settle |-> Check]
Podman ==
  [ping |-> PodmanPing, pull |-> PodmanPullImage, create |-> PodmanCreateAndStart,
   svcCreate |-> PodmanCreateAndStartService, stop |-> PodmanStopContainer,
   start |-> PodmanStartContainer, port |-> PodmanInspectContainerPort,
   remove |-> PodmanStopAndRemove, exists |-> PodmanContainerExists,
   running |-> PodmanContainerIsRunning, extract |-> PodmanExtractFile,
   network |-> PodmanEnsureNetwork, list |-> PodmanListByLabel, logs |-> PodmanContainerLogs,
   exec |-> PodmanExec, svcProbe |-> PodmanServiceProbe, svcStdin |-> PodmanServiceStdin,
   inspectSvc |-> PodmanInspectService, rootful |-> PodmanIsRootful, health |-> Check, settle |-> Check,
   podUp |-> DeployPod, podDown |-> TeardownPod, podPort |-> PodContainerPort]

Script(op) == IF env.backend = "docker" THEN Docker[op] ELSE Podman[op]
Supported == IF env.backend = "docker" THEN DOMAIN Docker ELSE DOMAIN Podman

\* The first daemon call of an operation.
Entry(op) ==
  CASE op \in {"create", "svcCreate", "extract"} -> "create"
    [] op \in {"port", "exists", "running", "inspectSvc"} -> "inspect"
    [] op = "network" -> "netInspect"
    [] op \in {"stop", "remove"} -> "stop"
    [] op \in {"exec", "svcProbe", "svcStdin"} ->
         IF env.backend = "docker" THEN "execCreate" ELSE "execStart"
    [] op = "rootful" -> IF env.backend = "docker" THEN "info" ELSE "socket"
    [] op = "health" -> "probe" [] op = "settle" -> "wait"
    [] op = "podUp" -> "play" [] op = "podDown" -> "down" [] op = "podPort" -> "port"
    [] OTHER -> op

Ends == {"Ok", "No", "Err"}

\* Where answer a of the daemon leads.
Goto(op, at, a) ==
  LET next == {r.to : r \in {s \in Script(op) : s.at = at /\ a \in s.answers}}
  IN IF next = {} THEN "Err" ELSE CHOOSE to \in next : TRUE

-----------------------------------------------------------------------------
(* The daemon.                                                             *)

\* The native id must be the one that was asked for; the CLI is bound to the
\* socket that find_socket chose.
NativeInspectIdAndCaps(s) == IF s = "none" THEN {"404"} ELSE {"ok"}

\* The user's socket is preferred to the system's.
FindSocket ==
  IF "xdg" \in env.sockets THEN "xdg" ELSE IF "run" \in env.sockets THEN "run" ELSE "var"

\* The state a unit call leaves the unit in, and its possible answers.
Daemon(at, s) ==
  CASE at = "start" ->
         IF s \in {"created", "stopped"} THEN <<"running", {"ok"}>>
         ELSE <<s, IF s = "none" THEN {"404"} ELSE {"304"}>>
    [] at = "stop" ->
         IF s = "running" THEN <<"stopped", {"ok"}>>
         ELSE <<s, IF s = "none" THEN {"404"} ELSE {"304"}>>
    [] at = "remove" ->
         IF s \in {"created", "stopped"} THEN <<"none", {"ok"}>>
         ELSE <<s, IF s = "none" THEN {"404"} ELSE {"409"}>>
    [] at \in {"purge", "purgeNone", "purgeErr"} ->
         <<"none", IF s = "none" THEN {"404"} ELSE {"ok"}>>
    [] at = "inspect" ->
         <<s, CASE s = "none" -> {"404"} [] s = "running" -> {"up", "noport"}
                [] OTHER -> {"down"}>>
    [] at = "caps" -> <<s, NativeInspectIdAndCaps(s)>>
    [] at = "download" -> <<s, IF s = "none" THEN {"404"} ELSE {"ok", "404"}>>
    [] at \in {"execCreate", "execStart"} ->
         <<s, IF s = "running" THEN {"ok"} ELSE {"409"}>>
    [] OTHER -> <<s, {"ok"}>>

\* Calls that name no container, a probe of a port among them; of these, those about no pod and no
\* command either.
Bare == {"ping", "pull", "list", "logs", "info", "socket", "wait", "probe", "image",
         "netInspect", "netCreate"}
Free == Bare \cup {"play", "down", "port", "stream", "execInspect", "exit"}

Plain(at) ==
  CASE at = "netInspect" -> IF net THEN {"ok"} ELSE {"404"}
    [] at = "netCreate" -> IF net THEN {"409"} ELSE {"ok"}
    [] at = "probe" -> {"refused"} \cup (IF \E i \in Ids : unit[i].st = "running"
                                          THEN {"good", "bad"} ELSE {})
    [] at = "info" -> {"ok", "rootless"}
    [] at = "socket" -> {IF FindSocket \in {"run", "var"} THEN "ok" ELSE "rootless"}
    [] OTHER -> {"ok"}

\* The suffix of a name: the first 8 characters of a ULID are its time.  A service's
\* container has a name without one.
Suffix == now
Name(c, op) ==
  CASE op = "extract"   -> <<"extract", Suffix>>
    [] op = "svcCreate" -> <<"service", 0>>
    [] OTHER            -> <<c, Suffix>>
Taken(n) == \E i \in Ids : unit[i].st # "none" /\ unit[i].name = n
Fresh == {i \in Ids : unit[i].name = Nil}

\* The containers after the daemon has acted on the call of c, and the
\* container that the call is about.
Acted(c) ==
  LET k == call[c] IN
  CASE k.at = "create" ->
         IF Taken(Name(c, k.op)) THEN {<<unit, NoId>>}
         ELSE {<<[unit EXCEPT ![i] = [st |-> "created", name |-> Name(c, k.op)]], i>> :
                 i \in Fresh}
    [] k.at \in Free -> {<<unit, k.id>>}
    [] OTHER -> {<<[unit EXCEPT ![k.id].st = Daemon(k.at, @)[1]], k.id>>}

Answers(c) ==
  LET k == call[c] IN
  CASE k.at = "create" -> IF Taken(Name(c, k.op)) THEN {"409"} ELSE {"ok"}
    [] k.at = "stream" -> IF cmd[c] = "running" THEN {} ELSE {"ok"}
    [] k.at \in {"execInspect", "exit"} -> {IF cmd[c] = "running" THEN "null" ELSE cmd[c]}
    [] k.at = "play" -> IF pods[k.pod] = Nil THEN {"ok"} ELSE {"409"}
    [] k.at \in {"down", "port"} ->
         IF pods[k.pod] = Nil THEN {"404"} ELSE {"ok"}
    [] k.at \in Bare -> Plain(k.at)
    [] OTHER -> Daemon(k.at, unit[k.id].st)[2]

\* What else the daemon does.
ActedElsewhere(c, done) ==
  LET k == call[c] IN
  /\ net' = (net \/ (done /\ k.at = "netCreate"))
  /\ pods' = IF done /\ k.at = "play" /\ pods[k.pod] = Nil
                THEN [pods EXCEPT ![k.pod] = k.doc]
              ELSE IF done /\ k.at = "down" THEN [pods EXCEPT ![k.pod] = Nil]
              ELSE pods
  /\ cmd' = IF done /\ k.at = "execStart" /\ unit[k.id].st = "running"
               THEN [cmd EXCEPT ![c] = "running"] ELSE cmd

-----------------------------------------------------------------------------
(* Actions.                                                                *)

Addressed == {"inspectSvc", "stop", "start", "remove", "port", "exists", "running", "exec", "svcProbe",
              "svcStdin"}

\* A caller calls an operation of the trait, or the health checker.
Invoke(c, op) ==
  /\ call[c].op = "idle" /\ op \in env.ops
  /\ op \in {"create", "svcCreate", "extract"} => Fresh # {}
  /\ IF op \notin Supported \/ (op = "health" /\ Retries = 0)
     THEN res' = [res EXCEPT ![c] = "Err"] /\ UNCHANGED call
     ELSE /\ res' = [res EXCEPT ![c] = "-"]
          /\ \E i \in IF op \in Addressed THEN Ids \ Fresh ELSE {NoId},
                p \in IF op = "podUp" THEN {<<b, Suffix>> : b \in DOMAIN Manifests}
                      ELSE IF op \in {"podDown", "podPort"} THEN PodNames ELSE {Nil},
                x \in IF op = "podUp" THEN RenderInputs ELSE {Nil} :
               call' = [call EXCEPT ![c] =
                 [NoCall EXCEPT !.op = op, !.at = Entry(op), !.id = i, !.pod = p,
                    !.doc = IF x = Nil THEN Nil
                            ELSE [input |-> x,
                                  out |-> RenderManifest(Manifests[p[1]],
                                    [suffix |-> p[2], tag |-> x.tag, image |-> x.image,
                                     overrides |-> x.overrides, volumes |-> x.volumes,
                                     workers |-> x.workers,
                                     env |-> ResolveEnvVars(x.vars, x.file, x.secrets)])]]]
  /\ cmd' = [cmd EXCEPT ![c] = "none"]
  /\ UNCHANGED <<env, now, faults, unit, net, pods>>

\* The operation of c goes on with container i after answer a.
Proceed(c, i, a) ==
  LET k == call[c]
      again == k.at = "probe" /\ a # "good" /\ k.n + 1 < Retries
      to == IF again THEN "probe" ELSE Goto(k.op, k.at, a)
  IN IF to \in Ends
     THEN /\ call' = [call EXCEPT ![c] = NoCall]
          /\ res' = [res EXCEPT ![c] = to]
     ELSE /\ call' = [call EXCEPT ![c] =
                         [k EXCEPT !.at = to, !.id = i, !.n = IF again THEN @ + 1 ELSE 0]]
          /\ UNCHANGED res

\* The daemon acts and answers.
Answered(c) ==
  /\ call[c].op # "idle"
  /\ \E x \in Acted(c), a \in Answers(c) :
       /\ unit' = x[1]
       /\ ActedElsewhere(c, TRUE)
       /\ Proceed(c, x[2], a)
  /\ UNCHANGED <<env, now, faults>>

\* The daemon acts, or does not, and the client gets an error; the id of a
\* container that was created is not known then.
Failed(c) ==
  /\ call[c].op # "idle" /\ call[c].at \notin {"wait", "socket"} /\ faults < MaxFaults
  /\ faults' = faults + 1
  /\ \E x \in Acted(c), done \in BOOLEAN :
       /\ unit' = IF done THEN x[1] ELSE unit
       /\ ActedElsewhere(c, done)
       /\ Proceed(c, call[c].id, "error")
  /\ UNCHANGED <<env, now>>

\* The caller gives up: a deploy that ran into its timeout, or an exec whose
\* own timeout passed.
Abandon(c) ==
  /\ call[c].op # "idle" /\ (env.drops \/ call[c].op \in {"svcProbe", "svcStdin"})
  /\ \E x \in Acted(c), done \in BOOLEAN :
       /\ unit' = IF done THEN x[1] ELSE unit
       /\ ActedElsewhere(c, done)
  /\ call' = [call EXCEPT ![c] = NoCall]
  /\ res' = [res EXCEPT ![c] = IF call[c].op \in {"svcProbe", "svcStdin"} THEN "Err" ELSE "-"]
  /\ UNCHANGED <<env, now, faults>>

\* A process ends by itself, a command ends, time passes.
Exit ==
  /\ \E i \in Ids : unit[i].st = "running" /\ unit' = [unit EXCEPT ![i].st = "stopped"]
  /\ UNCHANGED <<env, now, faults, net, pods, cmd, call, res>>
CommandEnds ==
  /\ \E c \in Callers, r \in {"zero", "nonzero"} :
       cmd[c] = "running" /\ cmd' = [cmd EXCEPT ![c] = r]
  /\ UNCHANGED <<env, now, faults, unit, net, pods, call, res>>
Tick ==
  /\ now < MaxNow /\ now' = now + 1
  /\ UNCHANGED <<env, faults, unit, net, pods, cmd, call, res>>

Next ==
  \/ \E c \in Callers : \/ \E op \in DOMAIN Podman : Invoke(c, op)
                        \/ Answered(c) \/ Failed(c) \/ Abandon(c)
  \/ Exit \/ CommandEnds \/ Tick

Spec == Init /\ [][Next]_vars

-----------------------------------------------------------------------------
(* Properties.                                                             *)

\* Every operation of both backends keeps the contract of RuntimeBackend:
\* whatever other callers, crashes and failing daemon calls do in between, it
\* touches one container only and its answer is true when it is given.
Unit == INSTANCE Runtime WITH
  Units <- Ids, NoUnit <- NoId,
  state <- [i \in Ids |-> unit[i].st],
  pending <- [c \in Callers |->
                IF call[c].op \in {"idle", "create", "stop", "start", "remove", "exists",
                                   "running", "extract"} THEN call[c].op
                ELSE IF call[c].op = "svcCreate" THEN "create" ELSE "other"],
  target <- [c \in Callers |-> call[c].id],
  answer <- res
KeepsContract == Unit!Spec

\* An exec that answers Ok ran its command to the end with exit code 0: a
\* broken output stream or a command still running is never taken for success
\* (readiness probes and provisioning SQL rest on it).
ExecOkIsDone ==
  [][\A c \in Callers : call[c].op \in {"exec", "svcProbe", "svcStdin"} /\ res'[c] = "Ok"
       => cmd[c] = "zero"]_vars

\* Every container of a pod, init containers included, sees each variable of
\* the app with the value of the strongest source (secret, env file, [env])
\* unless the manifest sets it itself, and reads each injected volume from the
\* host path configured for it, provided the labels made of the paths differ.
PodIsComplete ==
  \A p \in PodNames : pods[p] # Nil =>
    LET x == pods[p].input
        d == pods[p].out
        m == Manifests[p[1]]
        Strongest(k) == IF HasKey(x.secrets, k) THEN Seen(x.secrets, k)
                        ELSE IF HasKey(x.file, k) THEN Seen(x.file, k) ELSE Seen(x.vars, k)
        Distinct == \A v, w \in Range(x.volumes) :
                      VolumeName(v.mount) = VolumeName(w.mount) => v = w
        Whole(was, is) ==
          \A i \in DOMAIN was :
            /\ \A k \in Keys(x.vars) \cup Keys(x.file) \cup Keys(x.secrets) :
                 Seen(is[i].env, k) = IF HasKey(was[i].env, k) THEN Seen(was[i].env, k)
                                      ELSE Strongest(k)
            /\ Distinct => \A v \in Range(Injected(m, x.volumes)) :
                 \E mount \in is[i].mounts :
                   /\ mount.path = v.mount
                   /\ {e.host : e \in {f \in Range(d.volumes) : f.name = mount.name}} = {v.host}
    IN Whole(m.containers, d.containers) /\ Whole(m.init, d.init)

=============================================================================
