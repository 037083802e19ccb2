------------------------------- MODULE Services -------------------------------
(***************************************************************************)
(* The service controller and its repository, and the bindings of apps to  *)
(* services: adding, ensuring and removing services, binding an app's      *)
(* declared need, and committing the app's config, under the per-service   *)
(* locks and the bindings lock.                                            *)
(***************************************************************************)
EXTENDS Postgres

VARIABLES
  record,   \* per app: the retained binding record
  live,     \* per app: whether the apps map declares the need
  saved,    \* per app: whether the config file declares it
  forced,   \* services removed with --force since they were last added
  todo      \* the services this pass of ensure_all has still to look at

appVars == <<record, live, saved, forced, todo>>
vars == <<env, svc, op, svcLock, bindLock, appVars>>

Record == [svc : Names, env : BOOLEAN]

ASSUME RecordAssumption == Nil \notin Record

TypeOK ==
  /\ env \in Scenarios
  /\ svc \in [Names -> Service]
  /\ op \in [Ops -> Operation]
  /\ svcLock \in [Names -> Ops \cup {Nil}]
  /\ bindLock \in Ops \cup {Nil}
  /\ record \in [Apps -> Record \cup {Nil}]
  /\ live \in [Apps -> BOOLEAN] /\ saved \in [Apps -> BOOLEAN]
  /\ forced \in SUBSET Names /\ todo \in SUBSET Names
  /\ \A n \in Names : svcLock[n] # Nil => op[svcLock[n]].svc = n
  /\ bindLock # Nil => op[bindLock].kind \in {"remove", "bind", "detach"}

Init ==
  /\ env \in Scenarios
  /\ svc = [n \in Names |-> IF n \in env.ready THEN ReadyService ELSE NoService]
  /\ op = [o \in Ops |-> NoOp]
  /\ svcLock = [n \in Names |-> Nil]
  /\ bindLock = Nil
  /\ record = [a \in Apps |-> Nil]
  /\ live = [a \in Apps |-> FALSE]
  /\ saved = [a \in Apps |-> FALSE]
  /\ forced = {}
  /\ todo = {}

Idle(o, kind) == o # "tick" /\ op[o].kind = "none" /\ kind \in env.kinds

\* A new operation in slot o.
Begin(kind, n, a, at) ==
  [NoOp EXCEPT !.kind = kind, !.svc = n, !.app = a, !.at = at]

-----------------------------------------------------------------------------
(* add                                                                     *)

\* insert_service_and_state, or reattach_retained: instance, image, hash and
\* container id of a retained row are kept.
AddedRow(s) == IF s.row = Nil THEN NewRow ELSE [s.row EXCEPT !.phase = "provisioning"]

\* Up to and with the transaction; adding what is already there only touches it.
Add(o, n) ==
  LET row == AddedRow(svc[n]) IN
  /\ Idle(o, "add") /\ n \in env.names
  /\ svcLock[n] = Nil /\ ~svc[n].desired
  /\ svcLock' = [svcLock EXCEPT ![n] = o]
  /\ svc' = [svc EXCEPT ![n].desired = TRUE, ![n].row = row]
  /\ op' = AfterWrite(o, n, [Begin("add", n, Nil, "secret") EXCEPT
                               !.seen = row, !.fresh = TRUE, !.back = svc[n].row # Nil])
  /\ forced' = forced \ {n}
  /\ UNCHANGED <<bindLock, record, live, saved, todo>>

\* The instance directory; then the active generation is used again, or one is
\* generated, but never for a service that had one.
Secret(o) ==
  LET made == [S(o) EXCEPT !.secret = IF @ = "none" THEN "dir" ELSE @] IN
  /\ op[o].at = "secret"
  /\ \/ S(o).secret = "active" /\ Advance(o, S(o), "dir")
     \/ /\ S(o).secret # "active" /\ op[o].back
        /\ Fail(o, made, "blocked")
     \/ /\ S(o).secret # "active" /\ ~op[o].back
        /\ Advance(o, [made EXCEPT !.secret = "active"], "dir")
     \/ /\ S(o).secret # "active" /\ ~op[o].back /\ Fails("secret")
        /\ \E sec \in {"dir", "active"} : Fail(o, [made EXCEPT !.secret = sec], "internal")
  /\ UNCHANGED appVars

-----------------------------------------------------------------------------
(* ensure                                                                  *)

\* A tick starts a pass over the services, in the order of their names.
Tick ==
  /\ "ensure" \in env.kinds
  /\ todo = {} /\ op["tick"] = NoOp
  /\ todo' = {n \in env.names : svc[n].desired}
  /\ UNCHANGED <<svc, op, svcLock, bindLock, record, live, saved, forced>>

\* Mutant of Ensured: only services that were never Ready.
EnsuredNew(s) == s.desired /\ s.row.phase = "provisioning"

\* A service that ensure_one works on; Blocked is skipped.
Ensured(s) == s.desired /\ s.row.phase \notin {"blocked", "retained"}

\* ensure_one of the next service, once its lock is free: rows read afresh.
Ensure(n) ==
  /\ op["tick"] = NoOp /\ svcLock[n] = Nil
  /\ n \in todo /\ \A m \in todo : n <= m
  /\ todo' = todo \ {n}
  /\ \/ /\ Ensured(svc[n])
        /\ svcLock' = [svcLock EXCEPT ![n] = "tick"]
        /\ op' = [op EXCEPT !["tick"] = [Begin("ensure", n, Nil, "inspect") EXCEPT
                                         !.seen = svc[n].row, !.fresh = TRUE]]
     \/ ~Ensured(svc[n]) /\ UNCHANGED <<op, svcLock>>
  /\ UNCHANGED <<svc, bindLock, record, live, saved, forced>>

\* add records the applied spec hash; ensure writes none.
CommittedRow(o) == [phase |-> "ready", cid |-> op[o].cid, hash |-> op[o].kind = "add"]

\* The outcome of provision or ensure, by compare-and-swap.
Commit(o) ==
  /\ op[o].at = "commit"
  /\ FinishCas(o, S(o), CommittedRow(o))
  /\ UNCHANGED appVars

\* A permanent error of ensure: the container is forgotten with the hash.
PersistBlocked(o) ==
  /\ op[o].at = "failed"
  /\ FinishCas(o, S(o), [phase |-> "blocked", cid |-> Nil, hash |-> FALSE])
  /\ UNCHANGED appVars

-----------------------------------------------------------------------------
(* remove                                                                  *)

\* `slip services rm` reads the generation first.
RemoveRead(o, n, force) ==
  /\ Idle(o, "remove") /\ n \in env.names /\ svc[n].desired
  /\ op' = [op EXCEPT ![o] = [Begin("remove", n, Nil, "request") EXCEPT
                                !.fresh = TRUE, !.force = force]]
  /\ UNCHANGED <<svc, svcLock, bindLock, appVars>>

\* The bindings lock, held to the end
RemoveLock(o) ==
  /\ op[o].at = "request" /\ bindLock = Nil
  /\ bindLock' = o
  /\ op' = [op EXCEPT ![o].at = "check"]
  /\ UNCHANGED <<svc, svcLock, appVars>>

\* bindings_for_service: the apps pinned to n, and those not pinned yet.
Users(n) == {a \in Apps : live[a] /\ (record[a] = Nil \/ record[a].svc = n)}

\* Under the service lock: the service is there, unchanged since the client
\* looked, and unused or forced.
RemoveCheck(o) ==
  LET n == op[o].svc IN
  /\ op[o].at = "check" /\ svcLock[n] = Nil
  /\ IF S(o).desired /\ op[o].fresh /\ (Users(n) = {} \/ op[o].force) /\ S(o).secret # "none"
     THEN /\ svcLock' = [svcLock EXCEPT ![n] = o]
          /\ op' = [op EXCEPT ![o].at = "stop", ![o].seen = S(o).row]
          /\ UNCHANGED <<svc, bindLock>>
     ELSE Finish(o, S(o))
  /\ UNCHANGED appVars

\* The row as delete_service_and_retain leaves it.
RetainedRow(s) == [s.row EXCEPT !.phase = "retained"]

\* delete_service_and_retain
Retain(o) ==
  LET n == op[o].svc IN
  /\ op[o].at = "retain"
  /\ FinishCas(o, [S(o) EXCEPT !.desired = ~op[o].fresh], RetainedRow(S(o)))
  /\ forced' = IF op[o].force THEN forced \cup {n} ELSE forced
  /\ UNCHANGED <<record, live, saved, todo>>

-----------------------------------------------------------------------------
(* Binding, and committing the config of the app.                          *)

\* binding_plan: the pinned service, or the services of the type.
Candidates(a) ==
  {n \in env.names : svc[n].desired /\ (record[a] # Nil => record[a].svc = n)}

\* The app lock: one change of an app at a time.
AppFree(a) == \A o \in Ops : op[o].app # a

\* An app is created or updated with the need: bind up to its plan.
Bind(o, a) ==
  /\ Idle(o, "bind") /\ AppFree(a)
  /\ bindLock = Nil /\ Cardinality(Candidates(a)) = 1
  /\ bindLock' = o
  /\ op' = [op EXCEPT ![o] =
              Begin("bind", CHOOSE n \in Names : n \in Candidates(a), a, "record")]
  /\ UNCHANGED <<svc, svcLock, appVars>>

\* Mutant of BindRecord: the variables are recorded with the password.
BindRecordEarly(o) ==
  LET a == op[o].app n == op[o].svc IN
  /\ op[o].at = "record" /\ svcLock[n] = Nil
  /\ IF svc[n].desired /\ svc[n].row.phase = "ready"
     THEN /\ svcLock' = [svcLock EXCEPT ![n] = o]
          /\ record' = [record EXCEPT ![a] = IF @ = Nil THEN [svc |-> n, env |-> TRUE] ELSE @]
          /\ op' = [op EXCEPT ![o].at = "role", ![o].seen = svc[n].row]
          /\ UNCHANGED <<svc, bindLock, live, saved, forced, todo>>
     ELSE Finish(o, S(o)) /\ UNCHANGED appVars

\* Under the service lock: the service is Ready, and the record with its new
\* password is on disk before anything is created.
BindRecord(o) ==
  LET a == op[o].app n == op[o].svc IN
  /\ op[o].at = "record" /\ svcLock[n] = Nil
  /\ IF /\ svc[n].desired /\ svc[n].row.phase = "ready" /\ svc[n].secret # "none"
        /\ record[a] # Nil => record[a].svc = n
     THEN /\ svcLock' = [svcLock EXCEPT ![n] = o]
          /\ record' = [record EXCEPT ![a] = IF @ = Nil THEN [svc |-> n, env |-> FALSE] ELSE @]
          /\ op' = [op EXCEPT ![o].at = "role", ![o].seen = svc[n].row]
          /\ UNCHANGED <<svc, bindLock, live, saved, forced, todo>>
     ELSE Finish(o, S(o)) /\ UNCHANGED appVars

\* Mutant of BindEnv: the lease is dropped with the service lock.
BindEnvReleased(o) ==
  /\ op[o].at = "envsave"
  /\ record' = [record EXCEPT ![op[o].app] = [svc |-> op[o].svc, env |-> TRUE]]
  /\ svcLock' = Unlocked(o)
  /\ bindLock' = Nil
  /\ op' = [op EXCEPT ![o].at = "persist"]
  /\ UNCHANGED <<svc, live, saved, forced, todo>>

\* The injected variables are saved; the service lock goes, the lease stays.
BindEnv(o) ==
  /\ op[o].at = "envsave"
  /\ record' = [record EXCEPT ![op[o].app] = [svc |-> op[o].svc, env |-> TRUE]]
  /\ svcLock' = Unlocked(o)
  /\ op' = [op EXCEPT ![o].at = "persist"]
  /\ UNCHANGED <<svc, bindLock, live, saved, forced, todo>>

\* An update without the need: bind has nothing to plan but takes the lease.
Detach(o, a) ==
  /\ Idle(o, "detach") /\ AppFree(a) /\ live[a]
  /\ bindLock = Nil
  /\ bindLock' = o
  /\ op' = [op EXCEPT ![o] = Begin("detach", Nil, a, "persist")]
  /\ UNCHANGED <<svc, svcLock, appVars>>

\* persist_app: the config file
Persist(o) ==
  /\ op[o].at = "persist"
  /\ saved' = [saved EXCEPT ![op[o].app] = op[o].kind = "bind"]
  /\ op' = [op EXCEPT ![o].at = "publish"]
  /\ UNCHANGED <<svc, svcLock, bindLock, record, live, forced, todo>>

EndApp(o) ==
  /\ op' = [op EXCEPT ![o] = NoOp]
  /\ svcLock' = Unlocked(o)
  /\ bindLock' = Unleased(o)

\* The apps map, and the end of the lease
Publish(o) ==
  /\ op[o].at = "publish"
  /\ live' = [live EXCEPT ![op[o].app] = op[o].kind = "bind"]
  /\ EndApp(o)
  /\ UNCHANGED <<svc, record, saved, forced, todo>>

\* Deleting the app: out of the map at once, its config file last; the binding
\* record stays.
Delete(o, a) ==
  /\ Idle(o, "delete") /\ AppFree(a) /\ live[a]
  /\ live' = [live EXCEPT ![a] = FALSE]
  /\ op' = [op EXCEPT ![o] = Begin("delete", Nil, a, "unsave")]
  /\ UNCHANGED <<svc, svcLock, bindLock, record, saved, forced, todo>>

DeleteSaved(o) ==
  /\ op[o].at = "unsave"
  /\ saved' = [saved EXCEPT ![op[o].app] = FALSE]
  /\ EndApp(o)
  /\ UNCHANGED <<svc, record, live, forced, todo>>

-----------------------------------------------------------------------------
(* Operations that are cut short.                                          *)

Abandon(o, s) ==
  /\ svc' = IF op[o].svc = Nil THEN svc ELSE [svc EXCEPT ![op[o].svc] = s]
  /\ op' = [op EXCEPT ![o] = NoOp]
  /\ svcLock' = Unlocked(o)
  /\ bindLock' = Unleased(o)

\* The states a service may be left in.
Left(o) == IF op[o].svc = Nil THEN {Nil} ELSE {S(o)} \cup Landed(o)

\* PER_SERVICE_DEADLINE around provider.ensure and create_resource: nothing is
\* persisted.  It is also the whole budget of the pass.
Deadline(o) ==
  /\ "deadline" \in env.events
  /\ \/ op[o].kind = "ensure" /\ op[o].at \in {"inspect", "start", "wait", "create", "ready"}
     \/ op[o].kind = "bind" /\ op[o].at \in SqlParts
  /\ \E s \in Left(o) : Abandon(o, s)
  /\ todo' = IF op[o].kind = "ensure" THEN {} ELSE todo
  /\ UNCHANGED <<record, live, saved, forced>>

\* The client of an API request goes away while the handler awaits.  A write
\* that runs on a blocking thread still happens, without the handler.
Disconnect(o) ==
  /\ "disconnect" \in env.events
  /\ op[o].kind \notin {"none", "ensure"}
  /\ \/ /\ op[o].at \in {"create", "ready", "stop", "request", "check", "record"} \cup SqlParts
        /\ \E s \in Left(o) : Abandon(o, s)
        /\ UNCHANGED appVars
     \/ /\ op[o].at \in {"persist", "unsave"}
        /\ saved' = [saved EXCEPT ![op[o].app] = op[o].kind = "bind"]
        /\ \E s \in Left(o) : Abandon(o, s)
        /\ UNCHANGED <<record, live, forced, todo>>

\* slipd dies and comes back: rows, files, containers and databases stay, and
\* the call that was pending on a service took effect or not.
Crash ==
  /\ "crash" \in env.events
  /\ \E o \in Ops : op[o].kind # "none"
  /\ svc' \in {f \in [Names -> UNION {{svc[n]} : n \in Names}
                              \cup UNION {Landed(o) : o \in Ops}] :
                 \A n \in Names :
                   f[n] \in {svc[n]} \cup IF svcLock[n] = Nil THEN {} ELSE Landed(svcLock[n])}
  /\ op' = [o \in Ops |-> NoOp]
  /\ svcLock' = [n \in Names |-> Nil]
  /\ bindLock' = Nil
  /\ live' = saved
  /\ todo' = {}
  /\ UNCHANGED <<record, saved, forced>>

-----------------------------------------------------------------------------
\* A new request of a client.
Request(o) ==
  \/ \E n \in Names : Add(o, n) \/ \E force \in BOOLEAN : RemoveRead(o, n, force)
  \/ \E a \in Apps : Bind(o, a) \/ Detach(o, a) \/ Delete(o, a)

\* The operation in slot o goes on.
Progress(o) ==
  \/ op[o].kind # "none" /\ ProviderStep(o) /\ UNCHANGED appVars
  \/ Commit(o) \/ PersistBlocked(o)
  \/ Secret(o) \/ RemoveLock(o) \/ RemoveCheck(o) \/ Retain(o)
  \/ BindRecord(o) \/ BindEnv(o) \/ Persist(o) \/ Publish(o) \/ DeleteSaved(o)

Up(n) == ComeUp(n) /\ UNCHANGED appVars

World(n) == (Lose(n) \/ Halt(n) \/ Drift(n)) /\ UNCHANGED appVars

Cut == Crash \/ \E o \in Ops : Deadline(o) \/ Disconnect(o)

Next == /\ \/ Tick
           \/ \E n \in Names : Ensure(n) \/ Up(n) \/ World(n)
           \/ \E o \in Ops : Request(o) \/ Progress(o)
           \/ Cut
        /\ UNCHANGED env

Spec == Init /\ [][Next]_vars

Keeps(A) == A /\ UNCHANGED env

\* The reconcile loop keeps ticking, a container that can come up does, and an
\* operation in flight goes on.  The locks are first come, first served, so
\* waiting for one is not forever.
Fairness ==
  /\ WF_vars(Keeps(Tick))
  /\ \A n \in Names : SF_vars(Keeps(Ensure(n))) /\ WF_vars(Keeps(Up(n)))
  /\ \A o \in Ops : SF_vars(Keeps(Progress(o)))

FairSpec == Spec /\ Fairness

-----------------------------------------------------------------------------
(* Properties.                                                             *)

\* A service is shown Ready only over a cluster that finished initialising and
\* whose superuser secret is the active one, whatever was interrupted before.
ReadyIsInitialised ==
  \A n \in Names : svc[n].row # Nil /\ svc[n].row.phase = "ready" =>
    svc[n].pg = "initialised" /\ svc[n].secret = "active"

\* No container is ever started over a data directory whose initialisation was
\* cut short by a crash, a deadline, a failed readiness check or a loss.
NeverOverPartialData == \A n \in Names : svc[n].ctr = Nil \/ ~svc[n].ctr.tainted

\* "this closes the bind-vs-service-removal race": a service an app's committed
\* config is bound to is there until it is removed with --force.
UsedServiceStays ==
  \A a \in Apps : live[a] /\ record[a] # Nil =>
    svc[record[a].svc].desired \/ record[a].svc \in forced

\* An app is only ever given credentials whose role and database exist, and are
\* open to it, in the cluster of the service it is pinned to; and "PUBLIC cannot
\* connect to another app's database", not even while the script that creates it
\* is running or was killed.
BoundCredentialsWork ==
  /\ \A a \in Apps : record[a] # Nil /\ record[a].env =>
       LET d == svc[record[a].svc].db[a] IN d.role /\ d.exists /\ d.open
  /\ \A n \in Names, a \in Apps : svc[n].db[a].open => ~svc[n].db[a].public

\* A Ready service that loses its container gets it back from the ticks, when
\* the runtime's calls succeed.
ReadyHeals ==
  "ensure" \in env.kinds /\ env.fails = {} /\ env.events = {"halt"} =>
    \A n \in Names :
      svc[n].desired /\ svc[n].row.phase = "ready"
        ~> ~svc[n].desired \/ (svc[n].ctr # Nil /\ svc[n].ctr.ready)

=============================================================================
