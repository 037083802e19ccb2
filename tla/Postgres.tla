------------------------------- MODULE Postgres -------------------------------
(***************************************************************************)
(* The PostgreSQL provider of managed services: what provision, ensure,    *)
(* remove and create_resource do to the rows, the files, the container and *)
(* the cluster of one service, one step per await or per file operation a  *)
(* crash can fall between.                                                 *)
(***************************************************************************)
EXTENDS Naturals, FiniteSets

CONSTANTS
  Nil,
  Names,       \* service names, as numbers in the order of the list
  Apps,        \* apps that may declare a need
  Requests,    \* slots for the API requests in flight
  Scenarios    \* what may happen in each of the instances that are explored

OpKinds == {"add", "ensure", "remove", "bind", "detach", "delete"}
Calls == {"secret", "mkdir", "marker", "pull", "create", "start", "readiness",
          "fsync", "inspect", "stop", "sql"}
Events == {"crash", "disconnect", "deadline", "lose", "halt", "drift"}

ASSUME ServicesAssumption ==
  /\ Names \subseteq Nat /\ IsFiniteSet(Names) /\ IsFiniteSet(Apps)
  /\ "tick" \notin Requests
  /\ \A e \in Scenarios :
       /\ e.ready \subseteq e.names /\ e.names \subseteq Names
       /\ e.kinds \subseteq OpKinds /\ e.fails \subseteq Calls /\ e.events \subseteq Events

VARIABLES
  env,       \* the scenario of this behaviour
  svc,       \* per service: rows, files, container and cluster
  op,        \* per slot: the operation in flight
  svcLock,   \* holder of each per-service lock
  bindLock   \* holder of the bindings lock

\* The requests and the pass of ensure_all.
Ops == Requests \cup {"tick"}

Fails(call) == call \in env.fails

-----------------------------------------------------------------------------
(* State of a service.                                                     *)

ContainerIds == {1, 2}

\* The control-state row; its generation is kept by the `fresh` flags below.
Row == [phase : {"provisioning", "ready", "blocked", "retained"},
        cid : ContainerIds \cup {Nil}, hash : BOOLEAN]

\* A new row: for_provisioning.
NewRow == [phase |-> "provisioning", cid |-> Nil, hash |-> FALSE]

\* owned: labels, image digest, network, ports and mounts are as created.
\* tainted: started over a half-initialised data directory.
Container == [id : ContainerIds, running : BOOLEAN, ready : BOOLEAN,
              owned : BOOLEAN, tainted : BOOLEAN]

ASSUME NilAssumption ==
  /\ Nil \notin Names /\ Nil \notin Apps /\ Nil \notin Requests /\ Nil # "tick"
  /\ Nil \notin ContainerIds /\ Nil \notin Row /\ Nil \notin Container

\* The database of one app in the cluster of the service.
Database == [role : BOOLEAN, exists : BOOLEAN, public : BOOLEAN, open : BOOLEAN]

NoDatabase == [role |-> FALSE, exists |-> FALSE, public |-> FALSE, open |-> FALSE]

\* secret: nothing, the instance directory only, or an active generation.
\* data: the service directory by its bootstrap marker; pg: what PGDATA holds.
Service ==
  [desired : BOOLEAN, row : Row \cup {Nil}, secret : {"none", "dir", "active"},
   data : {"absent", "unmarked", "initializing", "complete"},
   pg : {"empty", "partial", "initialised"},
   ctr : Container \cup {Nil}, db : [Apps -> Database]]

\* Never added, and added without a fault.
NoService ==
  [desired |-> FALSE, row |-> Nil, secret |-> "none", data |-> "absent",
   pg |-> "empty", ctr |-> Nil, db |-> [a \in Apps |-> NoDatabase]]

ReadyService ==
  [NoService EXCEPT
     !.desired = TRUE, !.row = [phase |-> "ready", cid |-> 1, hash |-> TRUE],
     !.secret = "active", !.data = "complete", !.pg = "initialised",
     !.ctr = [id |-> 1, running |-> TRUE, ready |-> TRUE, owned |-> TRUE,
              tainted |-> FALSE]]

-----------------------------------------------------------------------------
(* Operations in flight.                                                   *)

Steps == {"idle", "secret", "inspect", "start", "wait", "dir", "marker", "create",
          "ready", "finalize", "failed", "commit", "request", "check", "stop",
          "retain", "record", "role", "database", "grant", "open", "envsave",
          "persist", "publish", "unsave"}

\* seen: the row the operation read.  fresh: its generation is still the
\* current one.  made: this operation created the service directory.  cid: the
\* container it works with.  back: it re-adds a retained service.
NoOp == [kind |-> "none", at |-> "idle", svc |-> Nil, app |-> Nil, seen |-> Nil,
         fresh |-> FALSE, made |-> FALSE, cid |-> Nil, back |-> FALSE,
         force |-> FALSE]

Operation ==
  [kind : OpKinds \cup {"none"}, at : Steps, svc : Names \cup {Nil},
   app : Apps \cup {Nil}, seen : Row \cup {Nil}, fresh : BOOLEAN,
   made : BOOLEAN, cid : ContainerIds \cup {Nil}, back : BOOLEAN, force : BOOLEAN]

S(o) == svc[op[o].svc]

\* A write of the row bumps its generation: whoever read it before is stale.
AfterWrite(o, n, next) ==
  [p \in Ops |-> IF p = o THEN next
                 ELSE IF op[p].svc = n THEN [op[p] EXCEPT !.fresh = FALSE]
                 ELSE op[p]]

\* The locks once operation o has ended.
Unlocked(o) == [n \in Names |-> IF svcLock[n] = o THEN Nil ELSE svcLock[n]]

Unleased(o) == IF bindLock = o THEN Nil ELSE bindLock

\* One step of o: its service becomes s and o goes on at `at`.
Advance(o, s, at) ==
  /\ svc' = [svc EXCEPT ![op[o].svc] = s]
  /\ op' = [op EXCEPT ![o].at = at]
  /\ UNCHANGED <<svcLock, bindLock>>

\* o ends with s, without a write of the row.
Finish(o, s) ==
  /\ svc' = [svc EXCEPT ![op[o].svc] = s]
  /\ op' = [op EXCEPT ![o] = NoOp]
  /\ svcLock' = Unlocked(o)
  /\ bindLock' = Unleased(o)

\* o ends with a compare-and-swap of the row: update_state_cas.
FinishCas(o, s, row) ==
  IF op[o].fresh
  THEN /\ svc' = [svc EXCEPT ![op[o].svc] = [s EXCEPT !.row = row]]
       /\ op' = AfterWrite(o, op[o].svc, NoOp)
       /\ svcLock' = Unlocked(o)
       /\ bindLock' = Unleased(o)
  ELSE Finish(o, s)

\* Errors a retry cannot cure.
Permanent == {"blocked", "filesystem"}

\* A provider error.  ensure_one goes on to persist a permanent one; a
\* transient one, and every error of add, remove and bind, leaves the phase.
Fail(o, s, error) ==
  IF op[o].kind = "ensure" /\ error \in Permanent
  THEN Advance(o, s, "failed")
  ELSE Finish(o, s)

-----------------------------------------------------------------------------
(* The runtime, as the provider uses it.                                   *)

\* An id no row names yet.
FreshId(s) == CHOOSE i \in ContainerIds : s.row = Nil \/ i # s.row.cid

Created(s) ==
  [s EXCEPT !.ctr = [id |-> FreshId(s), running |-> FALSE, ready |-> FALSE,
                     owned |-> TRUE, tainted |-> FALSE]]

\* The image initialises an empty data directory when it starts.
Started(s) ==
  [s EXCEPT !.ctr.running = TRUE,
            !.ctr.tainted = (s.pg = "partial"),
            !.pg = IF @ = "empty" THEN "partial" ELSE @]

Removed(s) == [s EXCEPT !.ctr = Nil]

\* inspect_service of a recorded container id finds it.
Found(s, cid) == cid # Nil /\ s.ctr # Nil /\ s.ctr.id = cid

\* verify_ownership and verify_mounts.
Owned(s) == s.ctr.owned

\* The entrypoint finishes, or the cluster comes up again.
ComeUp(n) ==
  LET s == svc[n] IN
  /\ s.ctr # Nil /\ s.ctr.running /\ ~s.ctr.ready /\ ~s.ctr.tainted
  /\ svc' = [svc EXCEPT ![n].pg = "initialised", ![n].ctr.ready = TRUE]
  /\ UNCHANGED <<op, svcLock, bindLock>>

\* The container whose id the row has recorded.
Recorded(n) == svc[n].row # Nil /\ Found(svc[n], svc[n].row.cid)

\* The container is removed, at any time or once it is recorded, stopped, or
\* altered, behind slipd's back.
Lose(n) ==
  /\ svc[n].ctr # Nil
  /\ "lose" \in env.events \/ ("halt" \in env.events /\ Recorded(n))
  /\ svc' = [svc EXCEPT ![n] = Removed(@)]
  /\ UNCHANGED <<op, svcLock, bindLock>>

Halt(n) ==
  /\ "halt" \in env.events
  /\ Recorded(n) /\ svc[n].ctr.ready
  /\ svc' = [svc EXCEPT ![n].ctr.running = FALSE, ![n].ctr.ready = FALSE]
  /\ UNCHANGED <<op, svcLock, bindLock>>

Drift(n) ==
  /\ "drift" \in env.events
  /\ svc[n].ctr # Nil /\ svc[n].ctr.owned
  /\ svc' = [svc EXCEPT ![n].ctr.owned = FALSE]
  /\ UNCHANGED <<op, svcLock, bindLock>>

-----------------------------------------------------------------------------
(* provision                                                               *)

\* The secret mounts, then the service directory, 0700, created or found.
DataDir(o) ==
  /\ op[o].at = "dir"
  /\ \/ /\ S(o).secret # "active"
        /\ Fail(o, S(o), "blocked")
     \/ /\ S(o).secret = "active"
        /\ svc' = [svc EXCEPT ![op[o].svc].data = IF @ = "absent" THEN "unmarked" ELSE @]
        /\ op' = [op EXCEPT ![o].at = "marker", ![o].made = (S(o).data = "absent")]
        /\ UNCHANGED <<svcLock, bindLock>>
     \/ /\ S(o).secret = "active" /\ Fails("mkdir")
        /\ Fail(o, S(o), "filesystem")

\* Mutant of Adoptable: an interrupted initialisation is taken up again.
AdoptableInterrupted(s) == s.data \in {"complete", "initializing"}

\* Data with a complete marker is used again; an interrupted initialisation
\* and an unmarked directory that was already there are refused.
Adoptable(s) == s.data = "complete"

Marker(o) ==
  /\ op[o].at = "marker"
  /\ \/ Adoptable(S(o)) /\ Advance(o, S(o), "create")
     \/ /\ ~Adoptable(S(o)) /\ (S(o).data = "initializing" \/ ~op[o].made)
        /\ Fail(o, S(o), "blocked")
     \/ /\ S(o).data = "unmarked" /\ op[o].made
        /\ Advance(o, [S(o) EXCEPT !.data = "initializing"], "create")
     \/ /\ S(o).data = "unmarked" /\ op[o].made /\ Fails("marker")
        /\ Fail(o, S(o), "filesystem")

\* Pull, create under the service's container name, start.  A container that
\* already has the name makes the create fail; a failed start leaves the new
\* container behind.
CreateService(o) ==
  /\ op[o].at = "create"
  /\ \/ /\ S(o).ctr = Nil
        /\ svc' = [svc EXCEPT ![op[o].svc] = Started(Created(@))]
        /\ op' = [op EXCEPT ![o].at = "ready", ![o].cid = FreshId(S(o))]
        /\ UNCHANGED <<svcLock, bindLock>>
     \/ S(o).ctr # Nil /\ Fail(o, S(o), "provision")
     \/ S(o).ctr = Nil /\ Fails("start") /\ Fail(o, Created(S(o)), "provision")
     \/ (Fails("pull") \/ Fails("create")) /\ Fail(o, S(o), "provision")

\* Mutant of ReadyNow: a running container counts as ready.
ReadyNowRunning(s, cid) == Found(s, cid) /\ s.ctr.running

\* wait_for_readiness: the health check, then an authenticated query.
ReadyNow(s, cid) == Found(s, cid) /\ s.ctr.ready

\* The wait times out on a container that never comes up.
CanBeReady(s, cid) == Found(s, cid) /\ s.ctr.running /\ ~s.ctr.tainted

\* provision goes on to the marker; ensure of a recorded container is done.
AwaitReady(o) ==
  /\ op[o].at \in {"ready", "wait"}
  /\ \/ /\ ReadyNow(S(o), op[o].cid)
        /\ Advance(o, S(o), IF op[o].at = "ready" THEN "finalize" ELSE "commit")
     \/ /\ Fails("readiness") \/ ~CanBeReady(S(o), op[o].cid)
        /\ Fail(o, S(o), "readiness")

\* The marker becomes complete by temp file, rename and fsync.  If the fsync
\* fails the marker is put back, unless that fails as well.
Finalize(o) ==
  /\ op[o].at = "finalize"
  /\ \/ Advance(o, [S(o) EXCEPT !.data = "complete"], "commit")
     \/ /\ Fails("fsync")
        /\ \E d \in {S(o).data, "initializing", "complete"} :
             Fail(o, [S(o) EXCEPT !.data = d], "filesystem")

-----------------------------------------------------------------------------
(* ensure, remove                                                          *)

\* The recorded container, verified before anything is done to it; without
\* one, provision from the data and the secret that are there.
Inspect(o) ==
  LET s == S(o) cid == op[o].seen.cid IN
  /\ op[o].at = "inspect"
  /\ \/ s.secret = "none" /\ Fail(o, s, "internal")
     \/ s.secret = "dir" /\ Fail(o, s, "blocked")
     \/ /\ s.secret = "active" /\ Found(s, cid)
        /\ IF ~Owned(s) THEN Fail(o, s, "blocked")
           ELSE /\ op' = [op EXCEPT ![o].cid = cid,
                            ![o].at = IF s.ctr.ready THEN "commit"
                                      ELSE IF s.ctr.running THEN "wait" ELSE "start"]
                /\ UNCHANGED <<svc, svcLock, bindLock>>
     \/ /\ s.secret = "active" /\ ~Found(s, cid)
        /\ Advance(o, s, "dir")
     \/ /\ s.secret = "active" /\ cid # Nil /\ Fails("inspect")
        /\ Fail(o, s, "blocked")

\* start_container of a stopped container
Start(o) ==
  /\ op[o].at = "start"
  /\ \/ Found(S(o), op[o].cid) /\ Advance(o, Started(S(o)), "wait")
     \/ /\ Fails("start") \/ ~Found(S(o), op[o].cid)
        /\ Fail(o, S(o), "provision")

\* What remove decides from the row it read: nothing to do without a recorded
\* container or if it is gone; refuse unless ownership can be proved, which
\* needs the applied spec hash.
RemoveOutcome(s, seen) ==
  CASE ~Found(s, seen.cid) -> "gone"
    [] Found(s, seen.cid) /\ s.secret = "active" /\ seen.hash /\ Owned(s) -> "stop"
    [] OTHER -> "blocked"

\* provider.remove: only the container goes.
Stop(o) ==
  /\ op[o].at = "stop"
  /\ \/ RemoveOutcome(S(o), op[o].seen) = "stop" /\ Advance(o, Removed(S(o)), "retain")
     \/ RemoveOutcome(S(o), op[o].seen) = "gone" /\ Advance(o, S(o), "retain")
     \/ RemoveOutcome(S(o), op[o].seen) = "blocked" /\ Finish(o, S(o))
     \/ Fails("inspect") /\ op[o].seen.cid # Nil /\ Finish(o, S(o))
     \/ /\ Fails("stop") /\ RemoveOutcome(S(o), op[o].seen) = "stop"
        /\ Finish(o, S(o))

-----------------------------------------------------------------------------
(* create_resource: the SQL script, in its four parts                      *)

\* The container must be owned, running and healthy before any SQL runs.
Usable(o) ==
  Found(S(o), op[o].seen.cid) /\ S(o).ctr.ready /\ (op[o].at = "role" => Owned(S(o)))

\* The role is created or adopted with its password; a new database is closed
\* to everyone and lets PUBLIC in until the grants are revoked.
SqlEffect(d, part) ==
  CASE part = "role" -> [d EXCEPT !.role = TRUE]
    [] part = "database" -> IF d.exists THEN d
         ELSE [d EXCEPT !.exists = TRUE, !.public = TRUE, !.open = FALSE]
    [] part = "grant" -> [d EXCEPT !.public = FALSE]
    [] part = "open" -> [d EXCEPT !.open = TRUE]

SqlParts == {"role", "database", "grant", "open"}

AfterPart(part) ==
  CASE part = "role" -> "database" [] part = "database" -> "grant"
    [] part = "grant" -> "open" [] part = "open" -> "envsave"

Sql(o) ==
  /\ op[o].at \in SqlParts
  /\ \/ /\ Usable(o)
        /\ Advance(o, [S(o) EXCEPT !.db[op[o].app] = SqlEffect(@, op[o].at)],
                   AfterPart(op[o].at))
     \/ (~Usable(o) \/ Fails("sql")) /\ Finish(o, S(o))

-----------------------------------------------------------------------------
(* What a pending call of o may still do when nobody waits for it.         *)

Landed(o) ==
  CASE op[o].at = "create" /\ S(o).ctr = Nil -> {Created(S(o)), Started(Created(S(o)))}
    [] op[o].at = "start" /\ Found(S(o), op[o].cid) -> {Started(S(o))}
    [] op[o].at = "stop" /\ RemoveOutcome(S(o), op[o].seen) = "stop" -> {Removed(S(o))}
    [] op[o].at \in SqlParts /\ Usable(o) ->
         {[S(o) EXCEPT !.db[op[o].app] = SqlEffect(@, op[o].at)]}
    [] OTHER -> {}

ProviderStep(o) ==
  \/ DataDir(o) \/ Marker(o) \/ CreateService(o) \/ AwaitReady(o) \/ Finalize(o)
  \/ Inspect(o) \/ Start(o) \/ Stop(o) \/ Sql(o)
=============================================================================
