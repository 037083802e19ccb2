---------------------------- MODULE BackendProofs ----------------------------
(***************************************************************************)
(* Proofs about Backend: every operation of both backends implements the   *)
(* contract Runtime, step by step, and an exec that answers Ok has run its *)
(* command to the end.  Both hold for any number of callers, containers,   *)
(* retries and failing daemon calls, and for every set of operations that  *)
(* run beside each other.                                                  *)
(***************************************************************************)
EXTENDS Backend, TLAPS

States == {"none", "created", "running", "stopped"}
Replies == {"-", "Ok", "No", "Err"}
Execs == {"exec", "svcProbe", "svcStdin"}

\* Operations that may name or make a container, as the contract knows them.
Makers == {"create", "svcCreate", "extract"}
Named == {"stop", "start", "remove", "exists", "running"}

\* The operation as the contract sees it.
Pend(op) ==
  IF op \in {"idle", "create", "stop", "start", "remove", "exists", "running", "extract"} THEN op
  ELSE IF op = "svcCreate" THEN "create" ELSE "other"

\* Daemon calls that leave every container as it is.
Quiet == Free \cup {"inspect", "caps", "execCreate", "execStart"}

\* The daemon calls an operation makes after its first one, and all of them.
Later(op) ==
  CASE op = "create" -> {"start", "inspect"}
    [] op = "svcCreate" -> {"start"}
    [] op = "extract" -> {"download", "purge", "purgeNone", "purgeErr"}
    [] op = "stop" -> {"stop"}
    [] op = "start" -> {"start"}
    [] op = "remove" -> {"stop", "remove"}
    [] op \in {"exists", "running"} -> {"inspect"}
    [] OTHER -> Quiet

Places(op) == Later(op) \cup (IF op \in Makers THEN {"create"} ELSE {})

\* An operation under way: it makes one of its own calls, and knows its
\* container from the answer of the create call on.
Shape(k) ==
  /\ k = [op |-> k.op, at |-> k.at, id |-> k.id, n |-> k.n, pod |-> k.pod, doc |-> k.doc]
  /\ k.id \in Ids \cup {NoId}
  /\ k.op = "idle" => k.id = NoId
  /\ k.op # "idle" => k.op \in Supported /\ k.at \in Places(k.op)
  /\ k.op \in Makers => (k.id = NoId <=> k.at = "create")
  /\ k.op \in Named => k.id \in Ids

\* A container that was never created has no name and no state.
Container(u) ==
  /\ u = [st |-> u.st, name |-> u.name]
  /\ u.st \in States
  /\ u.name = Nil => u.st = "none"

UnitsInv == unit = [i \in Ids |-> unit[i]] /\ \A i \in Ids : Container(unit[i])

CallsInv ==
  /\ call = [c \in Callers |-> call[c]] /\ res = [c \in Callers |-> res[c]]
  /\ \A c \in Callers : /\ Shape(call[c])
                        /\ call[c].op # "idle" => res[c] = "-"

BackendInv ==
  /\ env \in Scenarios /\ now \in 0..MaxNow /\ cmd = [c \in Callers |-> cmd[c]]
  /\ UnitsInv /\ CallsInv

-----------------------------------------------------------------------------
(* The scripts.                                                            *)

\* What an operation has to have seen to answer Ok or No.
Promise(op, r) ==
  /\ op = "create" => r.at = "inspect" /\ r.answers = {"up"} /\ r.to = "Ok"
  /\ op \in {"svcCreate", "start"} => r.at = "start" /\ r.answers = {"ok"} /\ r.to = "Ok"
  /\ op = "stop" => r.at = "stop" /\ r.answers = {"ok", "304"} /\ r.to = "Ok"
  /\ op = "remove" => r.at = "remove" /\ r.answers = {"ok"} /\ r.to = "Ok"
  /\ op = "exists" => /\ r.at = "inspect"
                      /\ r.to = "Ok" => r.answers = {"up", "noport", "down"}
                      /\ r.to = "No" => r.answers = {"404"}
  /\ op = "running" => /\ r.at = "inspect"
                       /\ r.to = "Ok" => r.answers = {"up", "noport"}
                       /\ r.to = "No" => r.answers = {"down"}
  /\ op = "extract" => r.at \in {"purge", "purgeNone"}
  /\ op \in Execs => r.at \in {"execInspect", "exit"} /\ r.answers = {"zero"}

\* A line of a script leads to another call of the operation or to its end, and
\* not to an Ok or a No before the last call (docker.rs).
LEMMA DockerScripts ==
  ASSUME NEW op \in DOMAIN Docker, NEW r \in Docker[op]
  PROVE  /\ r.to \in Later(op) \cup Ends
         /\ r.at = "create" => op \in Makers /\ r.answers = {"ok"} /\ r.to \notin Ends
         /\ r.to \in {"Ok", "No"} => Promise(op, r)
<1>1. CASE op \in {"create", "svcCreate", "start", "stop", "remove"}
  BY <1>1 DEF Docker, CreateAndStart, CreateAndStartService, StartContainer, StopContainer, StopAndRemove, On, Later,
       Ends, Makers, Promise, Execs
<1>2. CASE op \in {"exists", "running"}
  BY <1>2 DEF Docker, ContainerExists, ContainerIsRunning, On, Later, Ends, Makers,
       Promise, Execs
<1>3. CASE op = "extract"
  BY <1>3 DEF Docker, ExtractFile, On, Later, Ends, Makers, Promise, Execs
<1>4. CASE op \in Execs
  BY <1>4 DEF Docker, ExecInContainer, ExecServiceProbe, ExecServiceStdin, On, Later, Ends,
       Makers, Promise, Execs, Quiet, Free, Bare
<1>5. CASE op \in {"ping", "pull", "port", "network", "list", "logs", "inspectSvc", "rootful", "health", "settle"}
  BY <1>5 DEF Docker, Ping, PullImage, InspectContainerPort, EnsureNetwork, ListByLabel,
       ContainerLogs, InspectService, IsRootful, Check, On, Later, Ends, Makers, Promise, Execs,
       Quiet, Free, Bare
<1> QED BY <1>1, <1>2, <1>3, <1>4, <1>5 DEF Docker, Execs

\* The same of podman.rs.
LEMMA PodmanScripts ==
  ASSUME NEW op \in DOMAIN Podman, NEW r \in Podman[op]
  PROVE  /\ r.to \in Later(op) \cup Ends
         /\ r.at = "create" => op \in Makers /\ r.answers = {"ok"} /\ r.to \notin Ends
         /\ r.to \in {"Ok", "No"} => Promise(op, r)
<1>1. CASE op \in {"create", "svcCreate", "start", "stop", "remove"}
  BY <1>1 DEF Podman, PodmanCreateAndStart, PodmanCreateAndStartService, PodmanStartContainer, PodmanStopContainer,
       PodmanStopAndRemove, On, Later, Ends, Makers, Promise, Execs
<1>2. CASE op \in {"exists", "running"}
  BY <1>2 DEF Podman, PodmanContainerExists, PodmanContainerIsRunning, On, Later, Ends,
       Makers, Promise, Execs
<1>3. CASE op = "extract"
  BY <1>3 DEF Podman, PodmanExtractFile, On, Later, Ends, Makers, Promise, Execs
<1>4. CASE op \in Execs
  BY <1>4 DEF Podman, PodmanExec, PodmanServiceProbe, PodmanServiceStdin, On, Later, Ends,
       Makers, Promise, Execs, Quiet, Free, Bare
<1>5. CASE op \in {"ping", "pull", "port", "network", "list", "logs", "rootful", "health", "settle", "podUp",
                   "podDown", "podPort"}
  BY <1>5 DEF Podman, PodmanPing, PodmanPullImage, PodmanInspectContainerPort, PodmanEnsureNetwork,
       PodmanListByLabel, PodmanContainerLogs, PodmanIsRootful, Check, DeployPod, TeardownPod,
       PodContainerPort, On, Later, Ends, Makers, Promise, Execs, Quiet, Free, Bare
<1>6. CASE op = "inspectSvc"
  BY <1>6 DEF Podman, PodmanInspectService, On, Later, Ends, Makers, Promise, Execs, Quiet, Free, Bare
<1> QED BY <1>1, <1>2, <1>3, <1>4, <1>5, <1>6 DEF Podman, Execs

\* Where an answer leads: to the end with Err, or along a line of the script.
LEMMA GotoLine ==
  ASSUME env \in Scenarios, NEW op \in Supported, NEW at, NEW a
  PROVE  \/ Goto(op, at, a) = "Err"
         \/ \E r \in Script(op) : /\ r.at = at /\ a \in r.answers /\ Goto(op, at, a) = r.to
                                  /\ r.to \in Later(op) \cup Ends
                                  /\ at = "create" => op \in Makers /\ r.answers = {"ok"} /\ r.to \notin Ends
                                  /\ r.to \in {"Ok", "No"} => Promise(op, r)
<1> DEFINE next == {r.to : r \in {s \in Script(op) : s.at = at /\ a \in s.answers}}
<1>1. Goto(op, at, a) = IF next = {} THEN "Err" ELSE CHOOSE to \in next : TRUE
  BY DEF Goto
<1>2. CASE next = {}
  BY <1>1, <1>2
<1>3. CASE next # {}
  <2>1. Goto(op, at, a) \in next
    BY <1>1, <1>3
  <2>2. PICK r \in Script(op) : r.at = at /\ a \in r.answers /\ Goto(op, at, a) = r.to
    BY <2>1
  <2>3. /\ r.to \in Later(op) \cup Ends
        /\ r.at = "create" => op \in Makers /\ r.answers = {"ok"} /\ r.to \notin Ends
        /\ r.to \in {"Ok", "No"} => Promise(op, r)
    BY <2>2, DockerScripts, PodmanScripts, BackendAssumption DEF Script, Supported
  <2> QED BY <2>2, <2>3
<1> QED BY <1>2, <1>3

-----------------------------------------------------------------------------
(* The daemon.                                                             *)

\* A call on a container leaves it as it is, or takes it along an edge of the
\* operation that makes the call.
LEMMA DaemonMoves ==
  ASSUME NEW op, op # "idle", NEW at \in Later(op), NEW s \in States
  PROVE  /\ Daemon(at, s)[1] \in States
         /\ Daemon(at, s)[1] = s \/ <<s, Daemon(at, s)[1]>> \in Unit!Edges(Pend(op))
         /\ op \notin Makers \cup Named => Daemon(at, s)[1] = s
<1>1. CASE op \in Makers
  BY <1>1 DEF Daemon, NativeInspectIdAndCaps, Later, States, Pend, Makers, Unit!Edges
<1>2. CASE op \in Named
  BY <1>2 DEF Daemon, NativeInspectIdAndCaps, Later, States, Pend, Makers, Named, Unit!Edges
<1>3. CASE op \notin Makers \cup Named
  <2>1. at \in Quiet
    BY <1>3 DEF Later, Makers, Named
  <2>2. Daemon(at, s)[1] = s
    BY <2>1 DEF Daemon, NativeInspectIdAndCaps, Quiet, Free, Bare, States
  <2> QED BY <2>2, <1>3
<1> QED BY <1>1, <1>2, <1>3

\* An operation that saw what its answer needs tells the truth about the
\* container, as the call that it saw it from left it.
LEMMA DaemonTells ==
  ASSUME NEW op, NEW at \in Later(op), NEW s \in States, NEW a \in Daemon(at, s)[2],
         op \in Makers \cup Named, NEW r, r.at = at, a \in r.answers, NEW x, x = r.to,
         x \in {"Ok", "No"} => Promise(op, r)
  PROVE  Unit!Holds(Pend(op), Daemon(at, s)[1], x)
<1>1. CASE x \notin {"Ok", "No"}
  BY <1>1 DEF Unit!Holds
<1>2. CASE x \in {"Ok", "No"}
  <2> USE DEF Pend, Promise, Unit!Holds
  <2>1. CASE op = "create"
    <3>1. at = "inspect" /\ a = "up" /\ x = "Ok"
      BY <2>1, <1>2
    <3>2. s = "running" /\ Daemon(at, s)[1] = "running"
      BY <3>1 DEF Daemon, States
    <3> QED BY <2>1, <3>2
  <2>2. CASE op \in {"svcCreate", "start"}
    <3>1. at = "start" /\ a = "ok" /\ x = "Ok"
      BY <2>2, <1>2
    <3>2. Daemon(at, s)[1] = "running"
      BY <3>1 DEF Daemon, States
    <3> QED BY <2>2, <3>2
  <2>3. CASE op = "stop"
    <3>1. at = "stop" /\ a \in {"ok", "304"} /\ x = "Ok"
      BY <2>3, <1>2
    <3>2. Daemon(at, s)[1] \in {"created", "stopped"}
      BY <3>1 DEF Daemon, States
    <3> QED BY <2>3, <3>2
  <2>4. CASE op = "remove"
    <3>1. at = "remove" /\ a = "ok" /\ x = "Ok"
      BY <2>4, <1>2
    <3>2. Daemon(at, s)[1] = "none"
      BY <3>1 DEF Daemon, States
    <3> QED BY <2>4, <3>2
  <2>5. CASE op \in {"exists", "running"}
    <3>1. at = "inspect"
      BY <2>5, <1>2
    <3>2. /\ Daemon(at, s)[1] = s
          /\ a = "404" => s = "none"
          /\ a \in {"up", "noport"} => s = "running"
          /\ a = "down" => s \in {"created", "stopped"}
      BY <3>1 DEF Daemon, States
    <3>3. CASE op = "exists"
      BY <3>2, <3>3, <1>2
    <3>4. CASE op = "running"
      BY <3>2, <3>4, <1>2
    <3> QED BY <2>5, <3>3, <3>4
  <2>6. CASE op = "extract"
    BY <2>6
  <2> QED BY <2>1, <2>2, <2>3, <2>4, <2>5, <2>6 DEF Makers, Named
<1> QED BY <1>1, <1>2

-----------------------------------------------------------------------------
(* The daemon call of caller c.                                            *)

\* The containers before and after a call: u is the one that moved.
Moved(c, u, new) ==
  /\ call[c].id = u \/ (call[c].id = NoId /\ call[c].op \in Makers)
  /\ \E e \in Unit!Edges(Pend(call[c].op)) :
       unit[u].st = e[1] /\ [i \in Ids |-> new[i].st] = [[i \in Ids |-> unit[i].st] EXCEPT ![u] = e[2]]

Same(new) == [i \in Ids |-> new[i].st] = [i \in Ids |-> unit[i].st]

Sane(new) == new = [i \in Ids |-> new[i]] /\ \A i \in Ids : Container(new[i])

\* A call acts on the container of its operation, or creates one that was never
\* there before.
LEMMA ActedMoves ==
  ASSUME BackendInv, NEW c \in Callers, call[c].op # "idle", NEW x \in Acted(c)
  PROVE  /\ Sane(x[1])
         /\ call[c].at = "create" =>
              \/ Taken(Name(c, call[c].op)) /\ x[1] = unit /\ x[2] = NoId
              \/ ~Taken(Name(c, call[c].op)) /\ x[2] \in Ids /\ Moved(c, x[2], x[1])
         /\ call[c].at # "create" =>
              /\ x[2] = call[c].id
              /\ Same(x[1]) \/ (call[c].id \in Ids /\ Moved(c, call[c].id, x[1]))
              /\ call[c].op \in Makers \cup Named =>
                   x[1][call[c].id].st = Daemon(call[c].at, unit[call[c].id].st)[1]
<1> DEFINE k == call[c]
<1>0. /\ Shape(k) /\ unit = [i \in Ids |-> unit[i]]
      /\ \A i \in Ids : Container(unit[i])
      /\ Sane(unit) /\ Same(unit)
  BY DEF BackendInv, CallsInv, UnitsInv, Sane, Same
<1>1. CASE k.at = "create"
  <2>1. k.op \in Makers
    BY <1>0, <1>1 DEF Shape, Places, Later, Quiet, Free, Bare
  <2>2. CASE Taken(Name(c, k.op))
    <3>1. Acted(c) = {<<unit, NoId>>}
      BY <1>1, <2>2 DEF Acted, Free, Bare
    <3>2. x[1] = unit /\ x[2] = NoId
      BY <3>1
    <3> QED BY <1>0, <1>1, <2>2, <3>2
  <2>3. CASE ~Taken(Name(c, k.op))
    <3>1. PICK i \in Fresh : x = <<[unit EXCEPT ![i] = [st |-> "created", name |-> Name(c, k.op)]], i>>
      <4>1. Acted(c) = {<<[unit EXCEPT ![j] = [st |-> "created", name |-> Name(c, k.op)]], j>> :
                          j \in Fresh}
        BY <1>1, <2>3 DEF Acted, Free, Bare
      <4> QED BY <4>1
    <3>2. i \in Ids /\ unit[i].st = "none"
      BY <1>0 DEF Fresh, Container
    <3>3. Name(c, k.op) # Nil
      BY BackendAssumption DEF Name, Suffix, BackendInv
    <3>4. Sane(x[1])
      BY <1>0, <3>1, <3>2, <3>3 DEF Sane, Container, States
    <3>5. <<"none", "created">> \in Unit!Edges(Pend(k.op))
      BY <2>1 DEF Makers, Pend, Unit!Edges
    <3>6. [j \in Ids |-> x[1][j].st] = [[j \in Ids |-> unit[j].st] EXCEPT ![i] = "created"]
      BY <1>0, <3>1, <3>2
    <3>7. k.id = NoId
      BY <1>0, <1>1, <2>1 DEF Shape
    <3>8. Moved(c, i, x[1])
      <4>1. /\ unit[i].st = <<"none", "created">>[1]
            /\ [j \in Ids |-> x[1][j].st]
                 = [[j \in Ids |-> unit[j].st] EXCEPT ![i] = <<"none", "created">>[2]]
        BY <3>2, <3>6
      <4> QED BY <2>1, <3>5, <3>7, <4>1 DEF Moved
    <3>9. x[2] = i
      BY <3>1
    <3> QED BY <1>1, <2>3, <3>2, <3>4, <3>8, <3>9
  <2> QED BY <2>2, <2>3
<1>2. CASE k.at # "create" /\ k.at \in Free
  <2>1. x = <<unit, k.id>>
    BY <1>2 DEF Acted
  <2>2. k.op \notin Makers \cup Named
    BY <1>0, <1>2 DEF Shape, Places, Later, Makers, Named, Free, Bare
  <2> QED BY <1>0, <1>2, <2>1, <2>2
<1>3. CASE k.at # "create" /\ k.at \notin Free
  <2> DEFINE d == Daemon(k.at, unit[k.id].st)
  <2>1. x = <<[unit EXCEPT ![k.id].st = d[1]], k.id>>
    BY <1>3 DEF Acted
  <2>2. k.at \in Later(k.op)
    BY <1>0, <1>3 DEF Shape, Places, Makers
  <2>3. CASE k.id \in Ids
    <3>1. unit[k.id].st \in States /\ Container(unit[k.id])
      BY <1>0, <2>3 DEF Container
    <3>2. /\ d[1] \in States
          /\ d[1] = unit[k.id].st \/ <<unit[k.id].st, d[1]>> \in Unit!Edges(Pend(k.op))
      BY <2>2, <3>1, DaemonMoves
    <3> HIDE DEF d
    <3>3. /\ x[1][k.id] = [st |-> d[1], name |-> unit[k.id].name]
          /\ \A i \in Ids : i # k.id => x[1][i] = unit[i]
          /\ x[1] = [i \in Ids |-> x[1][i]]
      BY <1>0, <2>1, <2>3, <3>1 DEF Container
    <3>4. unit[k.id].name = Nil => d[1] = "none"
      <4>1. SUFFICES ASSUME unit[k.id].name = Nil PROVE d[1] = "none"
        OBVIOUS
      <4>2. unit[k.id].st = "none"
        BY <3>1, <4>1 DEF Container
      <4> QED BY <4>2 DEF d, Daemon
    <3>5. Sane(x[1])
      BY <1>0, <3>2, <3>3, <3>4 DEF Sane, Container
    <3>6. CASE d[1] = unit[k.id].st
      <4>1. Same(x[1])
        BY <3>3, <3>6, <1>0, <2>3 DEF Same
      <4>2. x[2] = k.id /\ x[1][k.id].st = d[1] /\ k.at # "create"
        BY <1>3, <2>1, <3>3
      <4> QED BY <3>5, <4>1, <4>2 DEF d
    <3>7. CASE <<unit[k.id].st, d[1]>> \in Unit!Edges(Pend(k.op))
      <4>1. [i \in Ids |-> x[1][i].st] = [[i \in Ids |-> unit[i].st] EXCEPT ![k.id] = d[1]]
        <5>1. \A i \in Ids : x[1][i].st = IF i = k.id THEN d[1] ELSE unit[i].st
          BY <3>3, <2>3
        <5> HIDE DEF k
        <5> QED BY <5>1, <2>3
      <4>2. /\ unit[k.id].st = <<unit[k.id].st, d[1]>>[1]
            /\ d[1] = <<unit[k.id].st, d[1]>>[2]
        OBVIOUS
      <4>3. Moved(c, k.id, x[1])
        BY <4>1, <4>2, <3>7 DEF Moved
      <4> QED BY <1>3, <3>5, <4>3, <2>1, <2>3, <3>3 DEF d
    <3> QED BY <3>2, <3>6, <3>7
  <2>4. CASE k.id \notin Ids
    <3>1. k.id \notin DOMAIN unit
      BY <1>0, <2>4
    <3>2. x[1] = unit /\ x[2] = k.id
      BY <2>1, <3>1, <1>0
    <3>3. k.op \notin Makers \cup Named
      BY <1>0, <1>3, <2>4 DEF Shape, Makers, Named
    <3> QED BY <1>0, <1>3, <3>2, <3>3
  <2> QED BY <2>3, <2>4
<1> QED BY <1>1, <1>2, <1>3

-----------------------------------------------------------------------------
(* Steps of the contract.                                                  *)

\* A call that ends after at most one move of its container is an Answer.
LEMMA AbstractAnswer ==
  ASSUME BackendInv, NEW c \in Callers, call[c].op # "idle",
         call' = [call EXCEPT ![c] = NoCall],
         NEW to \in Replies, res' = [res EXCEPT ![c] = to],
         Same(unit') \/ \E u \in Ids : Moved(c, u, unit'),
         call[c].id # NoId => Unit!Holds(Pend(call[c].op), unit'[call[c].id].st, to),
         call[c].id = NoId => to # "Ok" \/ call[c].op \notin Makers
  PROVE  Unit!Answer(c)
<1> DEFINE st == [i \in Ids |-> unit[i].st]
           pend == [e \in Callers |-> Pend(call[e].op)]
           tgt == [e \in Callers |-> call[e].id]
<1>1. /\ Shape(call[c]) /\ call = [e \in Callers |-> call[e]] /\ res = [e \in Callers |-> res[e]]
  BY DEF BackendInv, CallsInv
<1>2. /\ pend' = [pend EXCEPT ![c] = "idle"]
      /\ tgt' = [tgt EXCEPT ![c] = NoId]
      /\ pend[c] = Pend(call[c].op) /\ tgt[c] = call[c].id
  BY <1>1 DEF NoCall, Pend
<1>3. Pend(call[c].op) # "idle"
  BY DEF Pend
<1>4. st' = st \/ \E u \in Ids : Unit!Move(c, u)
  <2>1. CASE Same(unit')
    BY <2>1 DEF Same
  <2>2. CASE \E u \in Ids : Moved(c, u, unit')
    <3>1. PICK u \in Ids : Moved(c, u, unit')
      BY <2>2
    <3>2. PICK e \in Unit!Edges(Pend(call[c].op)) :
            unit[u].st = e[1] /\ [i \in Ids |-> unit'[i].st] = [st EXCEPT ![u] = e[2]]
      BY <3>1 DEF Moved
    <3>3. tgt[c] = u \/ (tgt[c] = NoId /\ pend[c] \in {"create", "extract"})
      BY <3>1, <1>2 DEF Moved, Makers, Pend
    <3>4. st[u] = e[1] /\ st' = [st EXCEPT ![u] = e[2]] /\ e \in Unit!Edges(pend[c])
      BY <3>2, <1>2
    <3>5. Unit!Move(c, u)
      BY <3>3, <3>4 DEF Unit!Move, Pend
    <3> QED BY <3>5
  <2> QED BY <2>1, <2>2
<1>5. /\ tgt[c] # NoId => Unit!Holds(pend[c], st'[tgt[c]], to)
      /\ tgt[c] = NoId => to # "Ok" \/ pend[c] \notin {"create", "extract"}
  <2>1. call[c].id # NoId => call[c].id \in Ids
    BY <1>1 DEF Shape
  <2>2. call[c].id # NoId => st'[call[c].id] = unit'[call[c].id].st
    BY <2>1
  <2>3. pend[c] \in {"create", "extract"} => call[c].op \in Makers
    BY <1>2 DEF Pend, Makers
  <2> QED BY <1>2, <2>2, <2>3
<1>6. /\ pend[c] # "idle"
      /\ \E a \in {"-", "Ok", "No", "Err"} :
           /\ res' = [res EXCEPT ![c] = a]
           /\ tgt[c] # NoId => Unit!Holds(pend[c], st'[tgt[c]], a)
           /\ tgt[c] = NoId => a # "Ok" \/ pend[c] \notin {"create", "extract"}
  BY <1>2, <1>3, <1>5 DEF Replies
<1> QED BY <1>2, <1>4, <1>6 DEF Unit!Answer, Pend

\* A call that goes on after a move of its container is Work.
LEMMA AbstractWork ==
  ASSUME BackendInv, NEW c \in Callers, call[c].op # "idle", NEW u \in Ids, NEW k,
         call' = [call EXCEPT ![c] = k], k.op = call[c].op, k.id = u,
         res' = res, Moved(c, u, unit')
  PROVE  Unit!Work(c)
<1> DEFINE st == [i \in Ids |-> unit[i].st]
           pend == [e \in Callers |-> Pend(call[e].op)]
           tgt == [e \in Callers |-> call[e].id]
<1>1. call = [e \in Callers |-> call[e]]
  BY DEF BackendInv, CallsInv
<1>2. /\ pend' = pend
      /\ tgt' = [tgt EXCEPT ![c] = u]
      /\ pend[c] = Pend(call[c].op) /\ tgt[c] = call[c].id
  BY <1>1
<1>3. pend[c] # "idle"
  BY <1>2 DEF Pend
<1>4. PICK e \in Unit!Edges(Pend(call[c].op)) :
        unit[u].st = e[1] /\ [i \in Ids |-> unit'[i].st] = [st EXCEPT ![u] = e[2]]
  BY DEF Moved
<1>5. tgt[c] = u \/ (tgt[c] = NoId /\ pend[c] \in {"create", "extract"})
  BY <1>2 DEF Moved, Makers, Pend
<1>6. st[u] = e[1] /\ st' = [st EXCEPT ![u] = e[2]] /\ e \in Unit!Edges(pend[c])
  BY <1>4, <1>2
<1>7. Unit!Move(c, u)
  BY <1>5, <1>6 DEF Unit!Move, Pend
<1> QED BY <1>2, <1>3, <1>7 DEF Unit!Work, Pend

\* A call that goes on and moved nothing changes nothing of the contract.
LEMMA AbstractStay ==
  ASSUME BackendInv, NEW c \in Callers, NEW k, call' = [call EXCEPT ![c] = k],
         k.op = call[c].op, k.id = call[c].id, res' = res, Same(unit')
  PROVE  UNCHANGED Unit!vars
<1>1. call = [e \in Callers |-> call[e]]
  BY DEF BackendInv, CallsInv
<1>2. \A e \in Callers : call'[e].op = call[e].op /\ call'[e].id = call[e].id
  BY <1>1
<1>3. [i \in Ids |-> unit'[i].st] = [i \in Ids |-> unit[i].st]
  BY DEF Same
<1> QED BY <1>2, <1>3 DEF Unit!vars

-----------------------------------------------------------------------------
(* An answer of the daemon.                                                *)

\* What a call that goes on after answer a, with container i, may do.
LEMMA ProceedShape ==
  ASSUME BackendInv, NEW c \in Callers, call[c].op # "idle", NEW i, NEW a, Proceed(c, i, a),
         env' = env, call[c].at # "create" => i = call[c].id,
         call[c].at = "create" /\ a = "ok" => i \in Ids
  PROVE  /\ CallsInv'
         /\ \/ /\ call' = [call EXCEPT ![c] = NoCall]
               /\ \E to \in Ends :
                    /\ res' = [res EXCEPT ![c] = to]
                    /\ to \in {"Ok", "No"} =>
                         /\ call[c].at # "create"
                         /\ \E r \in Script(call[c].op) :
                              /\ r.at = call[c].at /\ a \in r.answers /\ r.to = to
                              /\ Promise(call[c].op, r)
            \/ /\ \E k : /\ call' = [call EXCEPT ![c] = k]
                         /\ k.op = call[c].op /\ k.id = i
               /\ res' = res /\ i \in Ids \cup {NoId}
               /\ call[c].at = "create" => a = "ok"
<1> DEFINE k == call[c]
           again == k.at = "probe" /\ a # "good" /\ k.n + 1 < Retries
           to == IF again THEN "probe" ELSE Goto(k.op, k.at, a)
<1>0. /\ Shape(k) /\ call = [e \in Callers |-> call[e]] /\ res = [e \in Callers |-> res[e]]
      /\ \A e \in Callers : Shape(call[e]) /\ (call[e].op # "idle" => res[e] = "-")
      /\ env \in Scenarios /\ k.op \in Supported
  BY DEF BackendInv, CallsInv, Shape
<1>1. IF to \in Ends
      THEN /\ call' = [call EXCEPT ![c] = NoCall]
           /\ res' = [res EXCEPT ![c] = to]
      ELSE /\ call' = [call EXCEPT ![c] =
                         [k EXCEPT !.at = to, !.id = i, !.n = IF again THEN @ + 1 ELSE 0]]
           /\ UNCHANGED res
  BY DEF Proceed
<1>2. Supported' = Supported
  BY DEF Supported
<1> HIDE DEF to
<1>3. \A e \in Callers : e # c => (call'[e] = call[e] /\ res'[e] = res[e])
  BY <1>0, <1>1
<1>4. ASSUME to \in Ends
      PROVE  /\ CallsInv'
             /\ to \in {"Ok", "No"} =>
                         /\ call[c].at # "create"
                         /\ \E r \in Script(call[c].op) :
                              /\ r.at = call[c].at /\ a \in r.answers /\ r.to = to
                              /\ Promise(call[c].op, r)
  <2>1. call' = [call EXCEPT ![c] = NoCall] /\ res' = [res EXCEPT ![c] = to]
    BY <1>1, <1>4
  <2>2. call'[c] = NoCall
    BY <1>0, <2>1
  <2>3. Shape(call[c])' /\ call'[c].op = "idle"
    BY <2>2 DEF Shape, NoCall, Makers, Named
  <2>4. \A e \in Callers : Shape(call[e])' /\ (call'[e].op # "idle" => res'[e] = "-")
    BY <1>0, <1>2, <1>3, <2>3 DEF Shape
  <2>5. CallsInv'
    BY <1>0, <2>1, <2>4 DEF CallsInv
  <2>6. ASSUME to \in {"Ok", "No"}
        PROVE  /\ call[c].at # "create"
               /\ \E r \in Script(call[c].op) :
                    /\ r.at = call[c].at /\ a \in r.answers /\ r.to = to
                    /\ Promise(call[c].op, r)
    <3>1. to = Goto(k.op, k.at, a)
      BY <2>6 DEF to
    <3>2. \E r \in Script(k.op) : /\ r.at = k.at /\ a \in r.answers /\ to = r.to
                                  /\ k.at = "create" => r.to \notin Ends
                                  /\ r.to \in {"Ok", "No"} => Promise(k.op, r)
      <4> HIDE DEF k
      <4> QED BY <3>1, <2>6, <1>0, GotoLine
    <3> QED BY <3>2, <2>6, <1>4
  <2> QED BY <2>5, <2>6
<1>5. ASSUME to \notin Ends
      PROVE  /\ CallsInv' /\ i \in Ids \cup {NoId}
             /\ call[c].at = "create" => a = "ok"
             /\ \E q : call' = [call EXCEPT ![c] = q] /\ q.op = k.op /\ q.id = i
             /\ res' = res
  <2>1. /\ to \in Later(k.op)
        /\ k.at = "create" => k.op \in Makers /\ a = "ok"
    <3>1. CASE again
      <4>1. to = "probe" /\ k.at = "probe"
        BY <3>1 DEF to
      <4>2. k.at \in Later(k.op) /\ k.op \notin Makers
        BY <4>1, <1>0 DEF Shape, Places, Later, Makers
      <4> QED BY <4>1, <4>2
    <3>2. CASE ~again
      <4>1. to = Goto(k.op, k.at, a)
        BY <3>2 DEF to
      <4>2. \E r \in Script(k.op) : /\ r.at = k.at /\ a \in r.answers /\ to = r.to
                                    /\ r.to \in Later(k.op) \cup Ends
                                    /\ k.at = "create" => k.op \in Makers /\ r.answers = {"ok"}
        <5> HIDE DEF k
        <5>1. to # "Err"
          BY <1>5 DEF Ends
        <5> QED BY <4>1, <5>1, <1>0, GotoLine
      <4> QED BY <4>2, <1>5
    <3> QED BY <3>1, <3>2
  <2>2. i \in Ids \cup {NoId} /\ (k.at = "create" => i \in Ids)
    BY <1>0, <2>1 DEF Shape
  <2>3. k.op \in Makers => i \in Ids /\ to # "create"
    <3>1. k.op \in Makers => to # "create"
      BY <2>1 DEF Later, Makers
    <3>2. k.op \in Makers => i \in Ids
      BY <1>0, <2>2 DEF Shape
    <3> QED BY <3>1, <3>2
  <2>4. k.op \in Named => i \in Ids
    <3>1. k.op \in Named => k.at # "create"
      BY <1>0 DEF Shape, Places, Later, Named, Makers
    <3> QED BY <1>0, <3>1 DEF Shape
  <2> DEFINE m == IF again THEN k.n + 1 ELSE 0
  <2> HIDE DEF m
  <2>5. call' = [call EXCEPT ![c] = [k EXCEPT !.at = to, !.id = i, !.n = m]] /\ res' = res
    BY <1>1, <1>5 DEF m
  <2> DEFINE q == [op |-> k.op, at |-> to, id |-> i, n |-> m, pod |-> k.pod, doc |-> k.doc]
  <2>6. [k EXCEPT !.at = to, !.id = i, !.n = m] = q
    <3> DEFINE r == [k EXCEPT !.at = to, !.id = i, !.n = m]
    <3>1. k = [op |-> k.op, at |-> k.at, id |-> k.id, n |-> k.n, pod |-> k.pod, doc |-> k.doc]
      BY <1>0 DEF Shape
    <3> HIDE DEF k
    <3>2. k \in [op : {k.op}, at : {k.at}, id : {k.id}, n : {k.n}, pod : {k.pod}, doc : {k.doc}]
      BY <3>1
    <3>3. r \in [op : {k.op}, at : {to}, id : {i}, n : {m}, pod : {k.pod}, doc : {k.doc}]
      BY <3>2
    <3> HIDE DEF r
    <3>4. r = q
      BY <3>3
    <3> QED BY <3>4 DEF r
  <2>7. call' = [call EXCEPT ![c] = q] /\ call'[c] = q
    BY <1>0, <2>5, <2>6
  <2>8. Shape(call[c])'
    <3>1. /\ q.op = k.op /\ q.at = to /\ q.id = i
          /\ q = [op |-> q.op, at |-> q.at, id |-> q.id, n |-> q.n, pod |-> q.pod, doc |-> q.doc]
      OBVIOUS
    <3> HIDE DEF q
    <3>2. to \in Places(k.op)
      BY <2>1 DEF Places
    <3>3. i # NoId \/ k.op \notin Makers
      BY <2>3, BackendAssumption
    <3> QED BY <1>0, <1>2, <2>2, <2>3, <2>4, <2>7, <3>1, <3>2, <3>3 DEF Shape
  <2>9. res'[c] = "-"
    BY <1>0, <2>5
  <2>10. \A e \in Callers : Shape(call[e])' /\ (call'[e].op # "idle" => res'[e] = "-")
    BY <1>0, <1>2, <1>3, <2>8, <2>9 DEF Shape
  <2>11. CallsInv'
    BY <1>0, <2>5, <2>7, <2>10 DEF CallsInv
  <2>12. q.op = k.op /\ q.id = i
    OBVIOUS
  <2> HIDE DEF q
  <2> QED BY <2>1, <2>2, <2>5, <2>7, <2>11, <2>12
<1>6. CASE to \in Ends
  BY <1>1, <1>4, <1>6
<1>7. CASE to \notin Ends
  BY <1>5, <1>7
<1> QED BY <1>6, <1>7

\* The action of ExecOkIsDone.
ExecStep ==
  \A c \in Callers : call[c].op \in Execs /\ res'[c] = "Ok" => cmd[c] = "zero"

\* An answer other than Ok and No says nothing, nor does one of an operation the
\* contract does not follow.
LEMMA HoldsSilent ==
  ASSUME NEW op, NEW s, NEW a, a \notin {"Ok", "No"} \/ op \notin Named \cup {"create", "svcCreate"}
  PROVE  Unit!Holds(Pend(op), s, a)
<1>1. CASE a \notin {"Ok", "No"}
  BY <1>1 DEF Unit!Holds
<1>2. CASE op \notin Named \cup {"create", "svcCreate"}
  <2>1. Pend(op) \in {"idle", "extract", "other"}
    BY <1>2 DEF Pend, Named
  <2> QED BY <2>1 DEF Unit!Holds
<1> QED BY <1>1, <1>2

\* A step of caller c leaves the answers of the others alone.
LEMMA OthersWait ==
  ASSUME BackendInv, NEW c \in Callers, NEW to, res' = [res EXCEPT ![c] = to],
         call[c].op \in Execs /\ to = "Ok" => cmd[c] = "zero"
  PROVE  ExecStep
<1>1. \A e \in Callers : e # c => res'[e] = res[e]
  BY DEF BackendInv, CallsInv
<1>2. res'[c] = to
  BY DEF BackendInv, CallsInv
<1>3. \A e \in Callers : call[e].op \in Execs => res[e] = "-"
  BY DEF BackendInv, CallsInv, Execs
<1> QED BY <1>1, <1>2, <1>3 DEF ExecStep

\* While no answer is given nothing is promised.
LEMMA NoAnswer ==
  ASSUME BackendInv, res' = res
  PROVE  ExecStep
<1>1. \A e \in Callers : call[e].op \in Execs => res[e] = "-"
  BY DEF BackendInv, CallsInv, Execs
<1> QED BY <1>1 DEF ExecStep

\* What Acted leaves is a state of the containers.
LEMMA UnitsKept ==
  ASSUME BackendInv, NEW c \in Callers, call[c].op # "idle", NEW x \in Acted(c),
         unit' = x[1] \/ unit' = unit
  PROVE  /\ UnitsInv'
         /\ Same(unit') \/ \E u \in Ids : Moved(c, u, unit')
         /\ call[c].at # "create" =>
              Same(unit') \/ (call[c].id \in Ids /\ Moved(c, call[c].id, unit'))
<1>1. CASE unit' = unit
  BY <1>1 DEF BackendInv, UnitsInv, Same, Container
<1>2. CASE unit' = x[1]
  <2>1. Sane(unit')
    BY <1>2, ActedMoves
  <2>2. UnitsInv'
    BY <2>1 DEF Sane, UnitsInv, Container
  <2>3. Same(unit) /\ (x[1] = unit => Same(x[1]))
    BY DEF Same
  <2>4. Same(x[1]) \/ \E u \in Ids : Moved(c, u, x[1])
    BY ActedMoves, <2>3
  <2>5. call[c].at # "create" =>
              Same(x[1]) \/ (call[c].id \in Ids /\ Moved(c, call[c].id, x[1]))
    BY ActedMoves
  <2> QED BY <1>2, <2>2, <2>4, <2>5
<1> QED BY <1>1, <1>2

\* The rest of the invariant.
LEMMA ElsewhereKept ==
  ASSUME BackendInv, NEW c \in Callers, NEW done, ActedElsewhere(c, done)
  PROVE  cmd' = [e \in Callers |-> cmd'[e]]
<1>1. cmd = [e \in Callers |-> cmd[e]]
  BY DEF BackendInv
<1> QED BY <1>1 DEF ActedElsewhere

\* The answers to a call on a container.
LEMMA AnswersAre ==
  ASSUME BackendInv, NEW c \in Callers, call[c].op \in Makers \cup Named, call[c].at # "create"
  PROVE  /\ call[c].at \in Later(call[c].op) /\ call[c].id \in Ids
         /\ unit[call[c].id].st \in States
         /\ Answers(c) = Daemon(call[c].at, unit[call[c].id].st)[2]
<1>1. Shape(call[c]) /\ call[c].op # "idle"
  BY DEF BackendInv, CallsInv, Makers, Named
<1>2. call[c].at \in Later(call[c].op)
  BY <1>1 DEF Shape, Places
<1>3. call[c].id \in Ids
  BY <1>1 DEF Shape
<1>4. unit[call[c].id].st \in States
  BY <1>3 DEF BackendInv, UnitsInv, Container
<1>5. call[c].at \in {"start", "inspect", "download", "purge", "purgeNone", "purgeErr", "stop",
                      "remove"}
  BY <1>2 DEF Later, Makers, Named
<1>6. Answers(c) = Daemon(call[c].at, unit[call[c].id].st)[2]
  BY <1>5 DEF Answers, Free, Bare
<1> QED BY <1>2, <1>3, <1>4, <1>6

\* The daemon answers: the operation goes on, or ends with a true answer.
LEMMA AnsweredStep ==
  ASSUME BackendInv, NEW c \in Callers, Answered(c)
  PROVE  BackendInv' /\ (Unit!Next \/ UNCHANGED Unit!vars) /\ ExecStep
<1> DEFINE k == call[c]
<1>1. PICK x \in Acted(c), a \in Answers(c) :
        unit' = x[1] /\ ActedElsewhere(c, TRUE) /\ Proceed(c, x[2], a)
  BY DEF Answered
<1>2. k.op # "idle" /\ env' = env /\ now' = now
  BY DEF Answered
<1>3. /\ k.at # "create" => x[2] = k.id
      /\ k.at = "create" /\ a = "ok" => x[2] \in Ids /\ Moved(c, x[2], unit')
  <2>1. k.at # "create" => x[2] = k.id
    BY <1>2, ActedMoves
  <2>2. ASSUME k.at = "create", a = "ok" PROVE x[2] \in Ids /\ Moved(c, x[2], unit')
    <3>1. Answers(c) = IF Taken(Name(c, k.op)) THEN {"409"} ELSE {"ok"}
      BY <2>2 DEF Answers, Free, Bare
    <3>2. ~Taken(Name(c, k.op))
      BY <2>2, <3>1
    <3> QED BY <1>1, <1>2, <2>2, <3>2, ActedMoves
  <2> QED BY <2>1, <2>2
<1>4. /\ UnitsInv'
      /\ Same(unit') \/ \E u \in Ids : Moved(c, u, unit')
      /\ k.at # "create" => Same(unit') \/ (k.id \in Ids /\ Moved(c, k.id, unit'))
  BY <1>1, <1>2, UnitsKept
<1>5. cmd' = [e \in Callers |-> cmd'[e]]
  BY <1>1, ElsewhereKept
<1>6. /\ CallsInv'
      /\ \/ /\ call' = [call EXCEPT ![c] = NoCall]
            /\ \E to \in Ends :
                 /\ res' = [res EXCEPT ![c] = to]
                 /\ to \in {"Ok", "No"} =>
                      /\ k.at # "create"
                      /\ \E r \in Script(k.op) :
                           /\ r.at = k.at /\ a \in r.answers /\ r.to = to
                           /\ Promise(k.op, r)
         \/ /\ \E q : call' = [call EXCEPT ![c] = q] /\ q.op = k.op /\ q.id = x[2]
            /\ res' = res /\ x[2] \in Ids \cup {NoId}
            /\ k.at = "create" => a = "ok"
  BY <1>1, <1>2, <1>3, ProceedShape
<1>7. BackendInv'
  BY <1>2, <1>4, <1>5, <1>6 DEF BackendInv
<1>8. CASE call' = [call EXCEPT ![c] = NoCall]
           /\ \E to \in Ends :
                 /\ res' = [res EXCEPT ![c] = to]
                 /\ to \in {"Ok", "No"} =>
                      /\ k.at # "create"
                      /\ \E r \in Script(k.op) :
                           /\ r.at = k.at /\ a \in r.answers /\ r.to = to
                           /\ Promise(k.op, r)
  <2>1. PICK to \in Ends :
          /\ res' = [res EXCEPT ![c] = to]
          /\ to \in {"Ok", "No"} =>
               /\ k.at # "create"
               /\ \E r \in Script(k.op) :
                    r.at = k.at /\ a \in r.answers /\ r.to = to /\ Promise(k.op, r)
    BY <1>8
  <2>2. k.id # NoId => Unit!Holds(Pend(k.op), unit'[k.id].st, to)
    <3>1. CASE to \notin {"Ok", "No"} \/ k.op \notin Named \cup {"create", "svcCreate"}
      BY <3>1, HoldsSilent
    <3>2. CASE to \in {"Ok", "No"} /\ k.op \in Named \cup {"create", "svcCreate"}
      <4>1. k.at # "create" /\ k.op \in Makers \cup Named
        BY <3>2, <2>1 DEF Makers
      <4>2. PICK r \in Script(k.op) : r.at = k.at /\ a \in r.answers /\ r.to = to /\ Promise(k.op, r)
        BY <2>1, <3>2
      <4>3. /\ k.at \in Later(k.op) /\ unit[k.id].st \in States
            /\ a \in Daemon(k.at, unit[k.id].st)[2]
        BY <4>1, AnswersAre
      <4>4. Unit!Holds(Pend(k.op), Daemon(k.at, unit[k.id].st)[1], to)
        <5> HIDE DEF k
        <5> QED BY <4>1, <4>2, <4>3, DaemonTells
      <4>5. unit'[k.id].st = Daemon(k.at, unit[k.id].st)[1]
        BY <1>1, <1>2, <4>1, ActedMoves
      <4> QED BY <4>4, <4>5
    <3> QED BY <3>1, <3>2
  <2>3. k.id = NoId => to # "Ok" \/ k.op \notin Makers
    <3>1. k.op \in Makers /\ k.id = NoId => k.at = "create"
      BY DEF BackendInv, CallsInv, Shape
    <3> QED BY <3>1, <2>1
  <2>4. Unit!Answer(c)
    BY <1>2, <1>4, <1>8, <2>1, <2>2, <2>3, AbstractAnswer DEF Ends, Replies
  <2>5. k.op \in Execs /\ to = "Ok" => cmd[c] = "zero"
    <3>1. SUFFICES ASSUME k.op \in Execs, to = "Ok" PROVE cmd[c] = "zero"
      OBVIOUS
    <3>2. PICK r \in Script(k.op) : r.at = k.at /\ a \in r.answers /\ Promise(k.op, r)
      BY <2>1, <3>1
    <3>3. k.at \in {"execInspect", "exit"} /\ a = "zero"
      BY <3>1, <3>2 DEF Promise
    <3>4. Answers(c) = {IF cmd[c] = "running" THEN "null" ELSE cmd[c]}
      BY <3>3 DEF Answers, Bare
    <3> QED BY <3>3, <3>4
  <2>6. ExecStep
    BY <2>1, <2>5, OthersWait
  <2> QED BY <1>7, <2>4, <2>6 DEF Unit!Next
<1>9. CASE /\ \E q : call' = [call EXCEPT ![c] = q] /\ q.op = k.op /\ q.id = x[2]
           /\ res' = res /\ x[2] \in Ids \cup {NoId}
           /\ k.at = "create" => a = "ok"
  <2>1. PICK q : call' = [call EXCEPT ![c] = q] /\ q.op = k.op /\ q.id = x[2]
    BY <1>9
  <2>2. CASE x[2] \in Ids /\ Moved(c, x[2], unit')
    <3>1. Unit!Work(c)
      BY <1>2, <1>9, <2>1, <2>2, AbstractWork
    <3> QED BY <1>7, <1>9, <3>1, NoAnswer DEF Unit!Next
  <2>3. CASE k.at # "create" /\ Same(unit')
    <3>1. UNCHANGED Unit!vars
      BY <1>3, <1>9, <2>1, <2>3, AbstractStay
    <3> QED BY <1>7, <1>9, <3>1, NoAnswer
  <2> QED BY <1>3, <1>4, <1>9, <2>2, <2>3
<1> QED BY <1>6, <1>8, <1>9

\* A failed call: no operation takes an error for an answer about its container.
LEMMA FailedStep ==
  ASSUME BackendInv, NEW c \in Callers, Failed(c)
  PROVE  BackendInv' /\ (Unit!Next \/ UNCHANGED Unit!vars) /\ ExecStep
<1> DEFINE k == call[c]
<1>1. PICK x \in Acted(c), done \in BOOLEAN :
        /\ unit' = IF done THEN x[1] ELSE unit
        /\ ActedElsewhere(c, done) /\ Proceed(c, k.id, "error")
  BY DEF Failed
<1>2. k.op # "idle" /\ env' = env /\ now' = now /\ (unit' = x[1] \/ unit' = unit)
  BY <1>1 DEF Failed
<1>4. /\ UnitsInv'
      /\ Same(unit') \/ \E u \in Ids : Moved(c, u, unit')
      /\ k.at # "create" => Same(unit') \/ (k.id \in Ids /\ Moved(c, k.id, unit'))
  BY <1>1, <1>2, UnitsKept
<1>5. cmd' = [e \in Callers |-> cmd'[e]]
  BY <1>1, ElsewhereKept
<1>6. /\ CallsInv'
      /\ \/ /\ call' = [call EXCEPT ![c] = NoCall]
            /\ \E to \in Ends :
                 /\ res' = [res EXCEPT ![c] = to]
                 /\ to \in {"Ok", "No"} =>
                      /\ k.at # "create"
                      /\ \E r \in Script(k.op) :
                           /\ r.at = k.at /\ "error" \in r.answers /\ r.to = to
                           /\ Promise(k.op, r)
         \/ /\ \E q : call' = [call EXCEPT ![c] = q] /\ q.op = k.op /\ q.id = k.id
            /\ res' = res /\ k.id \in Ids \cup {NoId}
            /\ k.at = "create" => "error" = "ok"
  BY <1>1, <1>2, ProceedShape
<1>7. BackendInv'
  BY <1>2, <1>4, <1>5, <1>6 DEF BackendInv
<1>8. CASE call' = [call EXCEPT ![c] = NoCall]
           /\ \E to \in Ends :
                 /\ res' = [res EXCEPT ![c] = to]
                 /\ to \in {"Ok", "No"} =>
                      /\ k.at # "create"
                      /\ \E r \in Script(k.op) :
                           /\ r.at = k.at /\ "error" \in r.answers /\ r.to = to
                           /\ Promise(k.op, r)
  <2>1. PICK to \in Ends :
          /\ res' = [res EXCEPT ![c] = to]
          /\ to \in {"Ok", "No"} =>
               /\ k.at # "create"
               /\ \E r \in Script(k.op) :
                    r.at = k.at /\ "error" \in r.answers /\ r.to = to /\ Promise(k.op, r)
    BY <1>8
  <2>2. to \notin {"Ok", "No"} \/ k.op \notin Named \cup Execs \cup {"create", "svcCreate"}
    <3>1. SUFFICES ASSUME to \in {"Ok", "No"}, k.op \in Named \cup Execs \cup {"create", "svcCreate"}
                   PROVE  FALSE
      OBVIOUS
    <3>2. PICK r \in Script(k.op) :
            r.at = k.at /\ "error" \in r.answers /\ r.to = to /\ Promise(k.op, r)
      BY <2>1, <3>1
    <3> QED BY <3>1, <3>2 DEF Promise, Named
  <2>3. k.id # NoId => Unit!Holds(Pend(k.op), unit'[k.id].st, to)
    BY <2>2, HoldsSilent
  <2>4. k.id = NoId => to # "Ok" \/ k.op \notin Makers
    <3>1. k.op \in Makers /\ k.id = NoId => k.at = "create"
      BY DEF BackendInv, CallsInv, Shape
    <3> QED BY <3>1, <2>1
  <2>5. Unit!Answer(c)
    BY <1>2, <1>4, <1>8, <2>1, <2>3, <2>4, AbstractAnswer DEF Ends, Replies
  <2>6. ExecStep
    BY <2>1, <2>2, OthersWait
  <2> QED BY <1>7, <2>5, <2>6 DEF Unit!Next
<1>9. CASE /\ \E q : call' = [call EXCEPT ![c] = q] /\ q.op = k.op /\ q.id = k.id
           /\ res' = res /\ k.id \in Ids \cup {NoId}
           /\ k.at = "create" => "error" = "ok"
  <2>1. PICK q : call' = [call EXCEPT ![c] = q] /\ q.op = k.op /\ q.id = k.id
    BY <1>9
  <2>2. k.at # "create"
    BY <1>9
  <2>3. CASE k.id \in Ids /\ Moved(c, k.id, unit')
    <3>1. Unit!Work(c)
      BY <1>2, <1>9, <2>1, <2>3, AbstractWork
    <3> QED BY <1>7, <1>9, <3>1, NoAnswer DEF Unit!Next
  <2>4. CASE Same(unit')
    <3>1. UNCHANGED Unit!vars
      BY <1>9, <2>1, <2>4, AbstractStay
    <3> QED BY <1>7, <1>9, <3>1, NoAnswer
  <2> QED BY <1>4, <2>2, <2>3, <2>4
<1> QED BY <1>6, <1>8, <1>9

\* A caller that gives up learns nothing; the daemon may have acted.
LEMMA AbandonStep ==
  ASSUME BackendInv, NEW c \in Callers, Abandon(c)
  PROVE  BackendInv' /\ (Unit!Next \/ UNCHANGED Unit!vars) /\ ExecStep
<1> DEFINE k == call[c]
           to == IF k.op \in {"svcProbe", "svcStdin"} THEN "Err" ELSE "-"
<1>1. PICK x \in Acted(c), done \in BOOLEAN :
        (unit' = IF done THEN x[1] ELSE unit) /\ ActedElsewhere(c, done)
  BY DEF Abandon
<1>2. /\ k.op # "idle" /\ env' = env /\ now' = now /\ (unit' = x[1] \/ unit' = unit)
      /\ call' = [call EXCEPT ![c] = NoCall] /\ res' = [res EXCEPT ![c] = to]
  BY <1>1 DEF Abandon
<1>3. to \in {"Err", "-"}
  OBVIOUS
<1> HIDE DEF to
<1>4. UnitsInv' /\ (Same(unit') \/ \E u \in Ids : Moved(c, u, unit'))
  BY <1>1, <1>2, UnitsKept
<1>5. cmd' = [e \in Callers |-> cmd'[e]]
  BY <1>1, ElsewhereKept
<1>6. CallsInv'
  <2>1. /\ \A e \in Callers : e # c => call'[e] = call[e] /\ res'[e] = res[e]
        /\ call'[c] = NoCall /\ Supported' = Supported
    BY <1>2 DEF BackendInv, CallsInv, Supported
  <2>2. Shape(call[c])' /\ call'[c].op = "idle"
    BY <2>1 DEF Shape, NoCall, Makers, Named
  <2>3. \A e \in Callers : Shape(call[e])' /\ (call'[e].op # "idle" => res'[e] = "-")
    BY <2>1, <2>2 DEF BackendInv, CallsInv, Shape
  <2> QED BY <1>2, <2>3 DEF CallsInv, BackendInv
<1>7. BackendInv'
  BY <1>2, <1>4, <1>5, <1>6 DEF BackendInv
<1>8. k.id # NoId => Unit!Holds(Pend(k.op), unit'[k.id].st, to)
  BY <1>3, HoldsSilent
<1>9. Unit!Answer(c)
  BY <1>2, <1>3, <1>4, <1>8, AbstractAnswer DEF Replies
<1>10. ExecStep
  BY <1>2, <1>3, OthersWait
<1> QED BY <1>7, <1>9, <1>10 DEF Unit!Next

\* The first call of an operation is one of its own.
LEMMA EntryPlace ==
  ASSUME env \in Scenarios, NEW op \in Supported
  PROVE  /\ Entry(op) \in Places(op) /\ op # "idle"
         /\ op \in Makers => Entry(op) = "create" /\ op \notin Addressed
         /\ op \in Named => op \in Addressed
<1>1. /\ op \in DOMAIN Docker \/ op \in DOMAIN Podman
      /\ env.backend \in {"docker", "podman"}
  BY BackendAssumption DEF Supported
<1>2. op \in {"ping", "pull", "create", "svcCreate", "stop", "start", "port", "remove", "exists", "running", "extract",
              "network", "list", "logs", "exec", "svcProbe", "svcStdin", "inspectSvc", "rootful",
              "health", "settle", "podUp", "podDown", "podPort"}
  BY <1>1 DEF Docker, Podman
<1>3. CASE op \in Makers \cup Named
  BY <1>3 DEF Makers, Named, Addressed, Entry, Places, Later
<1>4. CASE op \notin Makers \cup Named
  <2>1. Later(op) = Quiet
    BY <1>4 DEF Later, Makers, Named
  <2>2. Entry(op) \in Quiet
    BY <1>1, <1>2, <1>4 DEF Entry, Quiet, Free, Bare, Makers, Named
  <2> QED BY <1>2, <1>4, <2>1, <2>2 DEF Places
<1> QED BY <1>3, <1>4

\* A call begins, or is refused.
LEMMA InvokeStep ==
  ASSUME BackendInv, NEW c \in Callers, NEW op, Invoke(c, op)
  PROVE  BackendInv' /\ (Unit!Next \/ UNCHANGED Unit!vars) /\ ExecStep
<1>1. /\ call[c].op = "idle" /\ env' = env /\ now' = now /\ unit' = unit
      /\ cmd' = [cmd EXCEPT ![c] = "none"]
      /\ Supported' = Supported
  BY DEF Invoke, Supported
<1>2. UnitsInv' /\ cmd' = [e \in Callers |-> cmd'[e]]
  BY <1>1 DEF BackendInv, UnitsInv, Container
<1>3. /\ call = [e \in Callers |-> call[e]] /\ res = [e \in Callers |-> res[e]]
      /\ \A e \in Callers : Shape(call[e]) /\ (call[e].op # "idle" => res[e] = "-")
      /\ env \in Scenarios
  BY DEF BackendInv, CallsInv
<1>4. call[c].op \notin Execs
  BY <1>1 DEF Execs
<1>5. CASE res' = [res EXCEPT ![c] = "Err"] /\ UNCHANGED call
  <2>1. \A e \in Callers : Shape(call[e])' /\ (call'[e].op # "idle" => res'[e] = "-")
    BY <1>1, <1>3, <1>5 DEF Shape
  <2>2. BackendInv'
    BY <1>1, <1>2, <1>3, <1>5, <2>1 DEF BackendInv, CallsInv
  <2>3. Unit!Refuse(c)
    BY <1>1, <1>5 DEF Unit!Refuse
  <2>4. ExecStep
    BY <1>4, <1>5, OthersWait
  <2> QED BY <2>2, <2>3, <2>4 DEF Unit!Next
<1>6. CASE ~(res' = [res EXCEPT ![c] = "Err"] /\ UNCHANGED call)
  <2>1. op \in Supported /\ res' = [res EXCEPT ![c] = "-"]
    BY <1>6 DEF Invoke
  <2>a. PICK i \in (IF op \in Addressed THEN Ids \ Fresh ELSE {NoId}) : \E p, x :
          call' = [call EXCEPT ![c] =
            [NoCall EXCEPT !.op = op, !.at = Entry(op), !.id = i, !.pod = p, !.doc = x]]
    BY <1>6, ZenonT(40) DEF Invoke
  <2>2. PICK p, x :
          call' = [call EXCEPT ![c] =
            [NoCall EXCEPT !.op = op, !.at = Entry(op), !.id = i, !.pod = p, !.doc = x]]
    BY <2>a
  <2> DEFINE q == [op |-> op, at |-> Entry(op), id |-> i, n |-> 0, pod |-> p, doc |-> x]
  <2>3. [NoCall EXCEPT !.op = op, !.at = Entry(op), !.id = i, !.pod = p, !.doc = x] = q
    <3> DEFINE r == [NoCall EXCEPT !.op = op, !.at = Entry(op), !.id = i, !.pod = p, !.doc = x]
    <3>1. NoCall \in [op : {"idle"}, at : {"idle"}, id : {NoId}, n : {0}, pod : {Nil}, doc : {Nil}]
      BY DEF NoCall
    <3>2. r \in [op : {op}, at : {Entry(op)}, id : {i}, n : {0}, pod : {p}, doc : {x}]
      BY <3>1
    <3> HIDE DEF r
    <3>3. r = q
      BY <3>2
    <3> QED BY <3>3 DEF r
  <2>4. call' = [call EXCEPT ![c] = q] /\ call'[c] = q
    BY <1>3, <2>2, <2>3
  <2>5. /\ q.op = op /\ q.at = Entry(op) /\ q.id = i
        /\ q = [op |-> q.op, at |-> q.at, id |-> q.id, n |-> q.n, pod |-> q.pod, doc |-> q.doc]
    OBVIOUS
  <2> HIDE DEF q
  <2>6. i \in Ids \cup {NoId} /\ (op \in Addressed => i \in Ids) /\ (op \notin Addressed => i = NoId)
    BY <2>a
  <2>7. Shape(call[c])'
    <3>1. /\ Entry(op) \in Places(op) /\ op # "idle"
          /\ op \in Makers => Entry(op) = "create" /\ op \notin Addressed
          /\ op \in Named => op \in Addressed
      BY <1>3, <2>1, EntryPlace
    <3> QED BY <1>1, <2>1, <2>4, <2>5, <2>6, <3>1 DEF Shape
  <2>8. /\ \A e \in Callers : e # c => call'[e] = call[e] /\ res'[e] = res[e]
        /\ res'[c] = "-"
    BY <1>3, <2>1, <2>4
  <2>9. \A e \in Callers : Shape(call[e])' /\ (call'[e].op # "idle" => res'[e] = "-")
    BY <1>1, <1>3, <2>7, <2>8 DEF Shape
  <2>10. BackendInv'
    BY <1>1, <1>2, <1>3, <2>1, <2>4, <2>9 DEF BackendInv, CallsInv
  <2>11. Unit!Call(c)
    <3> DEFINE pend == [e \in Callers |-> Pend(call[e].op)]
               tgt == [e \in Callers |-> call[e].id]
    <3>1. pend' = [pend EXCEPT ![c] = Pend(op)] /\ tgt' = [tgt EXCEPT ![c] = i]
      BY <1>3, <2>4, <2>5
    <3>2. pend[c] = "idle"
      BY <1>1 DEF Pend
    <3>3. Pend(op) \in Unit!Ops
      BY <1>3, <2>1, EntryPlace DEF Pend, Unit!Ops
    <3>4. \E o \in Unit!Ops, u \in Ids \cup {NoId} :
            pend' = [pend EXCEPT ![c] = o] /\ tgt' = [tgt EXCEPT ![c] = u]
      BY <2>6, <3>1, <3>3
    <3>5. [j \in Ids |-> unit'[j].st] = [j \in Ids |-> unit[j].st]
      BY <1>1
    <3> QED BY <2>1, <3>2, <3>4, <3>5 DEF Unit!Call, Pend
  <2>12. ExecStep
    BY <1>4, <2>1, OthersWait
  <2> QED BY <2>10, <2>11, <2>12 DEF Unit!Next
<1> QED BY <1>5, <1>6

\* A process that exits by itself.
LEMMA ExitStep ==
  ASSUME BackendInv, Exit
  PROVE  BackendInv' /\ (Unit!Next \/ UNCHANGED Unit!vars) /\ ExecStep
<1>1. PICK i \in Ids : unit[i].st = "running" /\ unit' = [unit EXCEPT ![i].st = "stopped"]
  BY DEF Exit
<1>2. UNCHANGED <<env, now, cmd, call, res>>
  BY DEF Exit
<1>3. unit = [j \in Ids |-> unit[j]] /\ \A j \in Ids : Container(unit[j])
  BY DEF BackendInv, UnitsInv
<1>4. /\ unit'[i] = [st |-> "stopped", name |-> unit[i].name] /\ unit[i].name # Nil
      /\ \A j \in Ids : j # i => unit'[j] = unit[j]
      /\ unit' = [j \in Ids |-> unit'[j]]
  BY <1>1, <1>3 DEF Container
<1>5. UnitsInv'
  BY <1>3, <1>4 DEF UnitsInv, Container, States
<1>6. CallsInv'
  BY <1>2 DEF BackendInv, CallsInv, Shape, Supported
<1>7. BackendInv'
  BY <1>2, <1>5, <1>6 DEF BackendInv
<1>8. \A j \in Ids : unit'[j].st = IF j = i THEN "stopped" ELSE unit[j].st
  BY <1>4
<1>9. [j \in Ids |-> unit'[j].st] = [[j \in Ids |-> unit[j].st] EXCEPT ![i] = "stopped"]
  BY <1>8
<1>10. [j \in Ids |-> unit[j].st][i] = "running"
  BY <1>1
<1>11. Unit!Exit
  BY <1>2, <1>9, <1>10 DEF Unit!Exit
<1> QED BY <1>2, <1>7, <1>11, NoAnswer DEF Unit!Next

\* A command that ends, and time.
LEMMA QuietStep ==
  ASSUME BackendInv, CommandEnds \/ Tick
  PROVE  BackendInv' /\ (Unit!Next \/ UNCHANGED Unit!vars) /\ ExecStep
<1>1. UNCHANGED <<env, unit, call, res>> /\ now' \in 0..MaxNow
  BY BackendAssumption DEF CommandEnds, Tick, BackendInv
<1>2. cmd' = [c \in Callers |-> cmd'[c]]
  BY DEF CommandEnds, Tick, BackendInv
<1>3. UnitsInv' /\ CallsInv'
  BY <1>1 DEF BackendInv, UnitsInv, Container, CallsInv, Shape, Supported
<1>4. BackendInv'
  BY <1>1, <1>2, <1>3 DEF BackendInv
<1>5. UNCHANGED Unit!vars
  BY <1>1 DEF Unit!vars
<1> QED BY <1>1, <1>4, <1>5, NoAnswer

-----------------------------------------------------------------------------
(* The theorems.                                                           *)

\* Every step keeps the invariant, is a step of the contract or none, and lets no
\* exec succeed whose command has not ended with 0.
LEMMA NextStep ==
  ASSUME BackendInv, [Next]_vars
  PROVE  BackendInv' /\ [Unit!Next]_(Unit!vars) /\ ExecStep
<1>1. CASE Next
  BY <1>1, InvokeStep, AnsweredStep, FailedStep, AbandonStep, ExitStep, QuietStep DEF Next
<1>2. CASE UNCHANGED vars
  <2>1. UNCHANGED <<env, now, unit, cmd, call, res>>
    BY <1>2 DEF vars
  <2>2. BackendInv'
    BY <2>1 DEF BackendInv, UnitsInv, Container, CallsInv, Shape, Supported
  <2>3. UNCHANGED Unit!vars
    BY <2>1 DEF Unit!vars
  <2> QED BY <2>1, <2>2, <2>3, NoAnswer
<1> QED BY <1>1, <1>2

\* The initial state.
LEMMA InitStep ==
  ASSUME Init
  PROVE  BackendInv /\ Unit!Init
<1>1. UnitsInv
  BY DEF Init, UnitsInv, Container, States
<1>2. \A c \in Callers : Shape(call[c]) /\ (call[c].op # "idle" => res[c] = "-")
  BY DEF Init, Shape, NoCall, Makers, Named
<1>3. CallsInv
  BY <1>2 DEF Init, CallsInv
<1>4. BackendInv
  BY <1>1, <1>3, BackendAssumption DEF Init, BackendInv
<1>5. Unit!Init
  BY DEF Init, Unit!Init, NoCall
<1> QED BY <1>4, <1>5

\* The docker and the podman backend implement the contract RuntimeBackend is
\* used by: every step of every operation is a step of Runtime, or none.
THEOREM BackendsKeepContract == Spec => KeepsContract
<1>1. Init => BackendInv /\ Unit!Init
  BY InitStep
<1>2. BackendInv /\ [Next]_vars => BackendInv' /\ [Unit!Next]_(Unit!vars)
  BY NextStep
<1> QED BY <1>1, <1>2, PTL DEF Spec, KeepsContract, Unit!Spec

\* An exec answers Ok only when its command has ended with exit code 0.
THEOREM ExecIsDone == Spec => ExecOkIsDone
<1>1. Init => BackendInv
  BY InitStep
<1>2. BackendInv /\ [Next]_vars => BackendInv'
  BY NextStep
<1>3. BackendInv /\ [Next]_vars
        => [\A c \in Callers : call[c].op \in {"exec", "svcProbe", "svcStdin"} /\ res'[c] = "Ok"
              => cmd[c] = "zero"]_vars
  BY NextStep DEF ExecStep, Execs
<1> QED BY <1>1, <1>2, <1>3, PTL DEF Spec, ExecOkIsDone
=============================================================================
