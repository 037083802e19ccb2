---------------------------- MODULE ServicesProofs ----------------------------
(***************************************************************************)
(* Theorems about Services for every value of its constants: any services, *)
(* apps and requests in flight, and any scenario of kinds of requests,     *)
(* failing calls and events.                                               *)
(***************************************************************************)
EXTENDS Services, FiniteSetTheorems, TLAPS

(* The steps an operation takes under the lock of its service.             *)
LockSteps == {"secret", "inspect", "start", "wait", "dir", "marker", "create", "ready",
              "finalize", "failed", "commit", "stop", "retain", "role", "database",
              "grant", "open", "envsave"}

\* What is always true of a service, whoever is working on it: PGDATA is what
\* the marker, the rows and the container promise, and nothing runs over a
\* half-made cluster.
Sound(s) ==
  /\ s.desired => s.row # Nil
  /\ s.row # Nil =>
       /\ s.row.phase = "ready" => s.pg = "initialised" /\ s.secret = "active"
       /\ s.row.cid # Nil => s.pg = "initialised"
  /\ s.data \in {"absent", "unmarked"} => s.pg = "empty"
  /\ s.data = "complete" => s.pg = "initialised"
  /\ s.ctr # Nil =>
       /\ ~s.ctr.tainted
       /\ s.ctr.running => s.pg # "empty"
       /\ s.ctr.ready => s.pg = "initialised"
  /\ \A a \in Apps : s.db[a].open => s.db[a].exists /\ ~s.db[a].public

\* What an operation that holds the lock of s has established when it is at
\* step `at`, having read the row `seen`, for the app a.
KnownAt(at, seen, a, s) ==
  /\ seen # Nil /\ seen.cid # Nil => s.pg = "initialised"
  /\ at \in {"marker", "create", "ready", "finalize", "commit", "start", "wait"}
       => s.secret = "active"
  /\ at \in {"start", "finalize", "commit"} => s.pg = "initialised"
  /\ at = "create" => s.data = "complete" \/ (s.data = "initializing" /\ s.pg = "empty")
  /\ at = "inspect" => seen # Nil
  /\ at \in {"stop", "retain"} => s.row # Nil
  /\ at \in {"database", "grant", "open", "envsave"} => s.db[a].role
  /\ at \in {"grant", "open", "envsave"} => s.db[a].exists
  /\ at \in {"open", "envsave"} => ~s.db[a].public
  /\ at = "envsave" => s.db[a].open

Knows(p, s) == KnownAt(p.at, p.seen, p.app, s)

\* Which operations have a service and an app.
Placed(p) ==
  /\ p.kind = "none" => p.at = "idle" /\ p.svc = Nil /\ p.app = Nil
  /\ p.at \in LockSteps \cup {"request", "check", "record"} => p.svc \in Names
  /\ p.at \in SqlParts \cup {"record", "envsave"} => p.kind = "bind"
  /\ p.at \in {"request", "check"} => p.kind = "remove"
  /\ p.at \in SqlParts \cup {"record", "envsave", "persist", "publish", "unsave"}
       => p.app \in Apps

\* The inductive invariant of rows, files, containers and operations.
CoreType ==
  /\ env \in Scenarios
  /\ svc \in [Names -> Service]
  /\ op \in [Ops -> Operation]
  /\ svcLock \in [Names -> Ops \cup {Nil}]
  /\ bindLock \in Ops \cup {Nil}

LocksKnown ==
  /\ \A n \in Names : svcLock[n] # Nil => op[svcLock[n]].svc = n
  /\ bindLock # Nil => op[bindLock].kind \in {"remove", "bind", "detach"}

OpFacts(o) ==
  /\ Placed(op[o])
  /\ op[o].at \in LockSteps => svcLock[op[o].svc] = o /\ Knows(op[o], S(o))

CoreInv ==
  /\ CoreType
  /\ LocksKnown
  /\ \A n \in Names : Sound(svc[n])
  /\ \A o \in Ops : OpFacts(o)

AppType ==
  /\ record \in [Apps -> Record \cup {Nil}]
  /\ live \in [Apps -> BOOLEAN] /\ saved \in [Apps -> BOOLEAN]
  /\ forced \in SUBSET Names /\ todo \in SUBSET Names

-----------------------------------------------------------------------------
(* The operators on a service.                                             *)

\* Nil is no row and no container.
LEMMA NilApart ==
  /\ \A r \in Row : r # Nil
  /\ \A c \in Container : c # Nil
  /\ \A o \in Ops : o # Nil
  /\ \A n \in Names : n # Nil
  /\ \A i \in ContainerIds : i # Nil
  BY NilAssumption DEF Ops

\* The typed fields of a service.
LEMMA ServiceFields ==
  ASSUME NEW s \in Service
  PROVE  /\ s.desired \in BOOLEAN /\ s.row \in Row \cup {Nil}
         /\ s.secret \in {"none", "dir", "active"}
         /\ s.data \in {"absent", "unmarked", "initializing", "complete"}
         /\ s.pg \in {"empty", "partial", "initialised"}
         /\ s.ctr \in Container \cup {Nil} /\ s.db \in [Apps -> Database]
  BY DEF Service

\* There is an id no row names.
LEMMA FreshIdType == ASSUME NEW s PROVE FreshId(s) \in ContainerIds
<1>1. \E i \in ContainerIds : s.row = Nil \/ i # s.row.cid
  <2>1. 1 \in ContainerIds /\ 2 \in ContainerIds /\ 1 # 2
    BY DEF ContainerIds
  <2> QED BY <2>1
<1> QED BY <1>1 DEF FreshId

\* A container is created where there is none.
LEMMA CreatedSound ==
  ASSUME NEW s \in Service, Sound(s), s.ctr = Nil
  PROVE  /\ Created(s) \in Service /\ Sound(Created(s)) /\ Created(s).ctr \in Container
         /\ Created(s).pg = s.pg /\ Created(s).data = s.data
         /\ Created(s).secret = s.secret /\ Created(s).row = s.row /\ Created(s).db = s.db
         /\ Created(s).desired = s.desired
<1> DEFINE c == [id |-> FreshId(s), running |-> FALSE, ready |-> FALSE, owned |-> TRUE,
                 tainted |-> FALSE]
<1>1. c \in Container
  BY FreshIdType DEF Container
<1>2. Created(s) = [s EXCEPT !.ctr = c]
  BY DEF Created
<1>3. /\ Created(s) \in Service /\ Created(s).ctr = c /\ Created(s).pg = s.pg
      /\ Created(s).data = s.data /\ Created(s).secret = s.secret
      /\ Created(s).row = s.row /\ Created(s).db = s.db /\ Created(s).desired = s.desired
  <2> HIDE DEF c
  <2> QED BY <1>1, <1>2 DEF Service
<1>4. Sound(Created(s))
  BY <1>3 DEF Sound
<1> QED BY <1>1, <1>3, <1>4

\* A container is started over an empty or a finished data directory.
LEMMA StartedSound ==
  ASSUME NEW s \in Service, Sound(s), s.ctr \in Container, s.pg # "partial",
         s.data \notin {"absent", "unmarked"} \/ s.pg = "initialised",
         s.data # "complete" \/ s.pg = "initialised"
  PROVE  /\ Started(s) \in Service /\ Sound(Started(s))
         /\ Started(s).secret = s.secret /\ Started(s).row = s.row
         /\ Started(s).data = s.data /\ Started(s).db = s.db
         /\ Started(s).desired = s.desired
         /\ s.pg = "initialised" => Started(s).pg = "initialised"
<1> DEFINE c == [s.ctr EXCEPT !.running = TRUE, !.tainted = (s.pg = "partial")]
           g == IF s.pg = "empty" THEN "partial" ELSE s.pg
<1>1. c \in Container /\ c.tainted = FALSE /\ c.ready = s.ctr.ready
  BY DEF Container
<1>2. Started(s) = [s EXCEPT !.ctr = c, !.pg = g]
  BY DEF Started, Service, Container
<1>3. g \in {"partial", "initialised"} /\ (s.pg = "initialised" => g = "initialised")
  BY ServiceFields
<1>4. /\ Started(s) \in Service /\ Started(s).ctr = c /\ Started(s).pg = g
      /\ Started(s).data = s.data /\ Started(s).secret = s.secret
      /\ Started(s).row = s.row /\ Started(s).db = s.db /\ Started(s).desired = s.desired
  <2> HIDE DEF c, g
  <2> QED BY <1>1, <1>2, <1>3 DEF Service
<1>5. Sound(Started(s))
  <2>1. c # Nil
    BY <1>1, NilApart
  <2>2. s.ctr # Nil
    BY NilApart
  <2> HIDE DEF c, g
  <2> QED BY <1>1, <1>3, <1>4, <2>1, <2>2, ServiceFields DEF Sound
<1> QED BY <1>3, <1>4, <1>5

\* A container is removed.
LEMMA RemovedSound ==
  ASSUME NEW s \in Service, Sound(s)
  PROVE  /\ Removed(s) \in Service /\ Sound(Removed(s))
         /\ Removed(s).pg = s.pg /\ Removed(s).data = s.data
         /\ Removed(s).secret = s.secret /\ Removed(s).row = s.row /\ Removed(s).db = s.db
         /\ Removed(s).desired = s.desired
  BY DEF Removed, Service, Sound

\* The database of app a after a part of the script.
SqlApplied(s, a, part) == [s EXCEPT !.db[a] = SqlEffect(@, part)]

\* The script: each part keeps a service sound if the parts before it ran.
LEMMA SqlSound ==
  ASSUME NEW s \in Service, Sound(s), NEW a \in Apps, NEW part \in SqlParts,
         part \in {"grant", "open"} => s.db[a].exists,
         part = "open" => ~s.db[a].public
  PROVE  LET t == SqlApplied(s, a, part) IN
         /\ t \in Service /\ Sound(t)
         /\ t.pg = s.pg /\ t.data = s.data /\ t.secret = s.secret /\ t.row = s.row
         /\ t.db[a] = SqlEffect(s.db[a], part) /\ t.db[a] \in Database
         /\ \A b \in Apps \ {a} : t.db[b] = s.db[b]
<1> DEFINE t == SqlApplied(s, a, part)
           x == SqlEffect(s.db[a], part)
<1>0. s.db \in [Apps -> Database] /\ s.db[a] \in Database
  BY ServiceFields
<1>1. x \in Database /\ (x.open => x.exists /\ ~x.public)
  BY <1>0 DEF SqlEffect, SqlParts, Database, Sound
<1>2. t = [s EXCEPT !.db = [s.db EXCEPT ![a] = x]]
  BY <1>0 DEF SqlApplied, Service
<1> HIDE DEF x
<1>3. /\ t \in Service /\ t.db = [s.db EXCEPT ![a] = x] /\ t.pg = s.pg
      /\ t.data = s.data /\ t.secret = s.secret /\ t.row = s.row
      /\ t.desired = s.desired /\ t.ctr = s.ctr
  <2>1. [s.db EXCEPT ![a] = x] \in [Apps -> Database]
    BY <1>0, <1>1
  <2> HIDE DEF t
  <2> QED BY <1>2, <2>1 DEF Service
<1>4. t.db[a] = x /\ \A b \in Apps \ {a} : t.db[b] = s.db[b]
  BY <1>0, <1>3
<1> HIDE DEF t
<1>5. Sound(t)
  BY <1>1, <1>3, <1>4 DEF Sound
<1> QED BY <1>1, <1>3, <1>4, <1>5 DEF t, x

-----------------------------------------------------------------------------
(* Steps of an operation that holds the lock of its service.               *)

\* The other operations may only find their rows stale.
OthersStale(o) ==
  \A p \in Ops \ {o} : op'[p] = op[p] \/ op'[p] = [op[p] EXCEPT !.fresh = FALSE]

\* A stale row changes nothing that is known.
LEMMA StaleKnows ==
  ASSUME NEW p \in Operation, NEW q, q = p \/ q = [p EXCEPT !.fresh = FALSE], Placed(p)
  PROVE  /\ q \in Operation /\ Placed(q) /\ q.at = p.at /\ q.svc = p.svc /\ q.kind = p.kind
         /\ q.app = p.app /\ \A s : Knows(p, s) => Knows(q, s)
<1>1. CASE q = p
  BY <1>1
<1>2. CASE q = [p EXCEPT !.fresh = FALSE]
  <2>1. /\ q \in Operation /\ q.at = p.at /\ q.svc = p.svc /\ q.kind = p.kind
        /\ q.app = p.app /\ q.seen = p.seen
    BY <1>2 DEF Operation
  <2>2. Placed(q)
    BY <2>1 DEF Placed
  <2> QED BY <2>1, <2>2 DEF Knows
<1> QED BY <1>1, <1>2

\* Two operations do not hold the lock of the same service.
LEMMA OneHolder ==
  ASSUME CoreInv, NEW o \in Ops, NEW p \in Ops \ {o},
         op[o].at \in LockSteps, op[p].at \in LockSteps
  PROVE  op[o].svc # op[p].svc
  BY DEF CoreInv, OpFacts

\* What every step of an operation may do to the other operations.
LEMMA OthersKept ==
  ASSUME CoreInv, NEW o \in Ops, NEW n \in Names, NEW t,
         svc' = [svc EXCEPT ![n] = t], t = svc[n] \/ svcLock[n] = o,
         OthersStale(o), \A m \in Names : svcLock'[m] = svcLock[m] \/ svcLock[m] = o,
         NEW p \in Ops \ {o}
  PROVE  op'[p] \in Operation /\ OpFacts(p)'
<1>1. op[p] \in Operation /\ Placed(op[p])
  BY DEF CoreInv, CoreType, OpFacts
<1>2. /\ op'[p] \in Operation /\ Placed(op'[p]) /\ op'[p].at = op[p].at
      /\ op'[p].svc = op[p].svc /\ \A s : Knows(op[p], s) => Knows(op'[p], s)
  BY <1>1, StaleKnows DEF OthersStale
<1>3. ASSUME op[p].at \in LockSteps
      PROVE  svcLock'[op'[p].svc] = p /\ Knows(op'[p], S(p)')
  <2>1. op[p].svc \in Names /\ svcLock[op[p].svc] = p /\ Knows(op[p], S(p))
    BY <1>3 DEF CoreInv, OpFacts, Placed
  <2>2. svc'[op[p].svc] = svc[op[p].svc]
    BY <2>1 DEF CoreInv, CoreType
  <2> QED BY <1>2, <2>1, <2>2 DEF S
<1> QED BY <1>2, <1>3 DEF OpFacts

\* The operation goes on with record q, and its service becomes t.
LEMMA GoesOn ==
  ASSUME CoreInv, NEW o \in Ops, op[o].at \in LockSteps,
         NEW t \in Service, Sound(t), NEW q \in Operation, Placed(q),
         q.svc = op[o].svc, q.kind = op[o].kind, q.at \in LockSteps => Knows(q, t),
         svc' = [svc EXCEPT ![op[o].svc] = t], op' = [op EXCEPT ![o] = q],
         UNCHANGED <<svcLock, bindLock, env>>
  PROVE  CoreInv'
<1>1. op[o].svc \in Names /\ svcLock[op[o].svc] = o
  BY DEF CoreInv, OpFacts, Placed
<1>2. op'[o] = q /\ OthersStale(o)
  BY DEF CoreInv, CoreType, OthersStale
<1>3. \A p \in Ops \ {o} : op'[p] \in Operation /\ OpFacts(p)'
  BY <1>1, <1>2, OthersKept
<1>4. svc'[op[o].svc] = t /\ svc' \in [Names -> Service]
      /\ \A n \in Names : Sound(svc'[n])
  BY <1>1 DEF CoreInv, CoreType
<1>5. OpFacts(o)'
  BY <1>1, <1>2, <1>4 DEF OpFacts, S
<1>6. op' \in [Ops -> Operation]
  BY DEF CoreInv, CoreType
<1>7. CoreType'
  BY <1>4, <1>6 DEF CoreInv, CoreType
<1>8. LocksKnown'
  <2>1. \A p \in Ops : op'[p].svc = op[p].svc /\ op'[p].kind = op[p].kind
    BY <1>2 DEF CoreInv, CoreType
  <2> QED BY <2>1 DEF CoreInv, CoreType, LocksKnown
<1> QED BY <1>3, <1>4, <1>5, <1>7, <1>8 DEF CoreInv

\* The operation ends and lets go of its locks; its service becomes t.
LEMMA Ends ==
  ASSUME CoreInv, NEW o \in Ops, NEW n \in Names, NEW t \in Service, Sound(t),
         t = svc[n] \/ svcLock[n] = o, svc' = [svc EXCEPT ![n] = t],
         op' \in [Ops -> Operation], op'[o] = NoOp, OthersStale(o),
         svcLock' = Unlocked(o), bindLock' = Unleased(o), UNCHANGED env
  PROVE  CoreInv'
<1>1. /\ svcLock' \in [Names -> Ops \cup {Nil}] /\ bindLock' \in Ops \cup {Nil}
      /\ \A m \in Names : svcLock'[m] = (IF svcLock[m] = o THEN Nil ELSE svcLock[m])
      /\ bindLock' = (IF bindLock = o THEN Nil ELSE bindLock)
  BY DEF CoreInv, CoreType, Unlocked, Unleased
<1>2. \A p \in Ops \ {o} : op'[p] \in Operation /\ OpFacts(p)'
  BY <1>1, OthersKept
<1>3. svc' \in [Names -> Service] /\ \A m \in Names : Sound(svc'[m])
  BY DEF CoreInv, CoreType
<1>4. OpFacts(o)'
  BY DEF OpFacts, Placed, NoOp, LockSteps, SqlParts
<1>5. CoreType'
  BY <1>1, <1>3 DEF CoreInv, CoreType
<1>6. LocksKnown'
  <2>1. \A p \in Ops \ {o} : op'[p].svc = op[p].svc /\ op'[p].kind = op[p].kind
    <3>1. \A p \in Ops : op[p] \in Operation /\ Placed(op[p])
      BY DEF CoreInv, CoreType, OpFacts
    <3> QED BY <3>1, StaleKnows DEF OthersStale
  <2>2. ASSUME NEW m \in Names, svcLock'[m] # Nil PROVE op'[svcLock'[m]].svc = m
    <3>1. svcLock'[m] = svcLock[m] /\ svcLock[m] # o /\ svcLock[m] \in Ops
      BY <1>1, <2>2 DEF CoreInv, CoreType
    <3> QED BY <2>1, <2>2, <3>1 DEF CoreInv, LocksKnown
  <2>3. ASSUME bindLock' # Nil PROVE op'[bindLock'].kind \in {"remove", "bind", "detach"}
    <3>1. bindLock' = bindLock /\ bindLock # o /\ bindLock \in Ops
      BY <1>1, <2>3 DEF CoreInv, CoreType
    <3> QED BY <2>1, <2>3, <3>1 DEF CoreInv, LocksKnown
  <2> QED BY <2>2, <2>3 DEF LocksKnown
<1> QED BY <1>2, <1>3, <1>4, <1>5, <1>6 DEF CoreInv

\* The facts an operation under a lock starts from.
LEMMA Holding ==
  ASSUME CoreInv, NEW o \in Ops, op[o].at \in LockSteps
  PROVE  /\ op[o] \in Operation /\ Placed(op[o]) /\ op[o].svc \in Names
         /\ svcLock[op[o].svc] = o
         /\ S(o) \in Service /\ Sound(S(o)) /\ Knows(op[o], S(o))
         /\ op[o].seen \in Row \cup {Nil}
         /\ S(o).db \in [Apps -> Database]
<1>1. op[o] \in Operation /\ Placed(op[o]) /\ op[o].svc \in Names /\ svcLock[op[o].svc] = o
      /\ Knows(op[o], S(o))
  BY DEF CoreInv, CoreType, OpFacts, Placed
<1>2. S(o) \in Service /\ Sound(S(o))
  BY <1>1 DEF CoreInv, CoreType, S
<1>3. op[o].seen \in Row \cup {Nil}
  BY <1>1 DEF Operation
<1> QED BY <1>1, <1>2, <1>3, ServiceFields

\* The operation only moves on.
LEMMA AdvanceInv ==
  ASSUME CoreInv, NEW o \in Ops, op[o].at \in LockSteps, NEW t \in Service, Sound(t),
         NEW at \in Steps, at \in LockSteps => KnownAt(at, op[o].seen, op[o].app, t),
         at \in SqlParts \cup {"record", "envsave"} => op[o].kind = "bind",
         at \notin {"request", "check"},
         at \in SqlParts \cup {"record", "envsave", "persist", "publish", "unsave"}
           => op[o].app \in Apps,
         Advance(o, t, at), UNCHANGED env
  PROVE  CoreInv'
<1>0. op[o] \in Operation /\ Placed(op[o]) /\ op[o].svc \in Names
  BY Holding
<1> DEFINE q == [op[o] EXCEPT !.at = at]
<1>1. /\ q \in Operation /\ q.svc = op[o].svc /\ q.kind = op[o].kind /\ q.at = at
      /\ q.app = op[o].app /\ q.seen = op[o].seen
  BY <1>0 DEF Operation
<1>2. Placed(q)
  <2>1. op[o].kind # "none"
    BY <1>0 DEF Placed, LockSteps
  <2> HIDE DEF q
  <2> QED BY <1>0, <1>1, <2>1 DEF Placed
<1>3. /\ svc' = [svc EXCEPT ![op[o].svc] = t] /\ op' = [op EXCEPT ![o] = q]
      /\ UNCHANGED <<svcLock, bindLock>>
  BY DEF Advance
<1> HIDE DEF q
<1>4. q.at \in LockSteps => Knows(q, t)
  BY <1>1 DEF Knows
<1> QED BY <1>1, <1>2, <1>3, <1>4, GoesOn

\* The operation ends without a write of the row.
LEMMA FinishInv ==
  ASSUME CoreInv, NEW o \in Ops, op[o].svc \in Names, NEW t \in Service, Sound(t),
         t = S(o) \/ op[o].at \in LockSteps, Finish(o, t), UNCHANGED env
  PROVE  CoreInv'
<1>1. NoOp \in Operation
  BY DEF NoOp, Operation, Steps
<1>2. op' \in [Ops -> Operation] /\ op'[o] = NoOp /\ OthersStale(o)
  BY <1>1 DEF Finish, CoreInv, CoreType, OthersStale
<1>3. t = svc[op[o].svc] \/ svcLock[op[o].svc] = o
  BY Holding DEF S
<1> QED BY <1>2, <1>3, Ends DEF Finish

\* What a write of the row does to the operations.
LEMMA AfterWriteType ==
  ASSUME CoreInv, NEW o \in Ops, NEW n, NEW q \in Operation, op' = AfterWrite(o, n, q)
  PROVE  op' \in [Ops -> Operation] /\ op'[o] = q /\ OthersStale(o)
<1>1. \A p \in Ops : op[p] \in Operation /\ [op[p] EXCEPT !.fresh = FALSE] \in Operation
  BY DEF CoreInv, CoreType, Operation
<1> QED BY <1>1 DEF AfterWrite, OthersStale

\* The operation ends with a compare-and-swap.
LEMMA FinishCasInv ==
  ASSUME CoreInv, NEW o \in Ops, op[o].at \in LockSteps, NEW t \in Service, Sound(t),
         NEW row, [t EXCEPT !.row = row] \in Service, Sound([t EXCEPT !.row = row]),
         FinishCas(o, t, row), UNCHANGED env
  PROVE  CoreInv'
<1>0. op[o].svc \in Names /\ svcLock[op[o].svc] = o
  BY Holding
<1>1. CASE op[o].fresh
  <2>1. NoOp \in Operation
    BY DEF NoOp, Operation, Steps
  <2>2. /\ svc' = [svc EXCEPT ![op[o].svc] = [t EXCEPT !.row = row]]
        /\ op' = AfterWrite(o, op[o].svc, NoOp)
        /\ svcLock' = Unlocked(o) /\ bindLock' = Unleased(o)
    BY <1>1 DEF FinishCas
  <2>3. op' \in [Ops -> Operation] /\ op'[o] = NoOp /\ OthersStale(o)
    BY <2>1, <2>2, AfterWriteType
  <2> QED BY <1>0, <2>2, <2>3, Ends
<1>2. CASE ~op[o].fresh
  BY <1>0, <1>2, FinishInv DEF FinishCas
<1> QED BY <1>1, <1>2

\* A provider error: persisted by ensure if no retry cures it.
LEMMA FailInv ==
  ASSUME CoreInv, NEW o \in Ops, op[o].at \in LockSteps, NEW t \in Service, Sound(t),
         op[o].seen # Nil /\ op[o].seen.cid # Nil => t.pg = "initialised",
         NEW error, Fail(o, t, error), UNCHANGED env
  PROVE  CoreInv'
<1>0. op[o] \in Operation /\ op[o].svc \in Names
  BY Holding
<1>1. CASE Finish(o, t)
  BY <1>0, <1>1, FinishInv
<1>2. CASE Advance(o, t, "failed")
  <2>2. KnownAt("failed", op[o].seen, op[o].app, t)
    BY DEF KnownAt
  <2>3. "failed" \in Steps /\ "failed" \notin SqlParts
    BY DEF Steps, SqlParts
  <2> QED BY <1>2, <2>2, <2>3, AdvanceInv
<1> QED BY <1>1, <1>2 DEF Fail

\* A failed call that left the service alone.
LEMMA FailSameInv ==
  ASSUME CoreInv, NEW o \in Ops, op[o].at \in LockSteps,
         NEW error, Fail(o, S(o), error), UNCHANGED env
  PROVE  CoreInv'
  BY FailInv, Holding DEF Knows, KnownAt

-----------------------------------------------------------------------------
(* The provider's steps.                                                   *)

\* A field of the service of o is changed.
LEMMA DataSound ==
  ASSUME NEW s \in Service, Sound(s), NEW d,
         d \in {"absent", "unmarked", "initializing", "complete"},
         d \in {"absent", "unmarked"} => s.pg = "empty",
         d = "complete" => s.pg = "initialised"
  PROVE  LET t == [s EXCEPT !.data = d] IN
         /\ t \in Service /\ Sound(t) /\ t.data = d /\ t.pg = s.pg
         /\ t.secret = s.secret /\ t.row = s.row /\ t.db = s.db
  BY DEF Service, Sound

\* The service directory is made or found: a directory made here is empty.
LEMMA DataDirInv ==
  ASSUME CoreInv, NEW o \in Ops, DataDir(o), UNCHANGED env
  PROVE  CoreInv'
<1>0. op[o].at = "dir" /\ op[o].at \in LockSteps
  BY DEF DataDir, LockSteps
<1> DEFINE d == IF S(o).data = "absent" THEN "unmarked" ELSE S(o).data
           t == [S(o) EXCEPT !.data = d]
           q == [op[o] EXCEPT !.at = "marker", !.made = (S(o).data = "absent")]
<1>1. CASE \E e \in {"blocked", "filesystem"} : Fail(o, S(o), e)
  BY <1>0, <1>1, FailSameInv
<1>2. CASE /\ S(o).secret = "active" /\ UNCHANGED <<svcLock, bindLock>>
           /\ svc' = [svc EXCEPT ![op[o].svc].data = IF @ = "absent" THEN "unmarked" ELSE @]
           /\ op' = [op EXCEPT ![o].at = "marker", ![o].made = (S(o).data = "absent")]
  <2>1. /\ S(o) \in Service /\ Sound(S(o)) /\ Knows(op[o], S(o)) /\ op[o] \in Operation
        /\ op[o].svc \in Names /\ Placed(op[o])
    BY <1>0, Holding
  <2>2. d \in {"unmarked", "initializing", "complete"}
        /\ (d = "unmarked" => S(o).pg = "empty")
        /\ (d = "complete" => S(o).pg = "initialised")
    BY <2>1, ServiceFields DEF Sound
  <2>3. t \in Service /\ Sound(t) /\ t.pg = S(o).pg /\ t.secret = "active"
    BY <1>2, <2>1, <2>2, DataSound
  <2>4. svc' = [svc EXCEPT ![op[o].svc] = t] /\ op' = [op EXCEPT ![o] = q]
    BY <1>2, <2>1 DEF S, CoreInv, CoreType
  <2>5. /\ q \in Operation /\ q.at = "marker" /\ q.svc = op[o].svc
        /\ q.kind = op[o].kind /\ q.seen = op[o].seen /\ q.app = op[o].app
    BY <2>1, ZenonT(40) DEF Operation, Steps
  <2>6. op[o].kind # "none"
    BY <1>0, <2>1 DEF Placed
  <2> HIDE DEF q, t, d
  <2>7. Placed(q) /\ Knows(q, t)
    BY <2>1, <2>3, <2>5, <2>6 DEF Placed, Knows, KnownAt, SqlParts
  <2> QED BY <1>0, <1>2, <2>3, <2>4, <2>5, <2>7, GoesOn
<1> QED BY <1>1, <1>2 DEF DataDir

\* Only a complete or a just made data directory is used.
LEMMA MarkerInv ==
  ASSUME CoreInv, NEW o \in Ops, Marker(o), UNCHANGED env
  PROVE  CoreInv'
<1>0. op[o].at = "marker" /\ op[o].at \in LockSteps
  BY DEF Marker, LockSteps
<1>1. /\ S(o) \in Service /\ Sound(S(o)) /\ KnownAt("marker", op[o].seen, op[o].app, S(o))
  BY <1>0, Holding DEF Knows
<1>2. "create" \in Steps /\ "create" \notin SqlParts
  BY DEF Steps, SqlParts
<1>3. CASE \E e \in {"blocked", "filesystem"} : Fail(o, S(o), e)
  BY <1>0, <1>3, FailSameInv
<1>4. CASE Adoptable(S(o)) /\ Advance(o, S(o), "create")
  <2>1. KnownAt("create", op[o].seen, op[o].app, S(o))
    BY <1>1, <1>4 DEF KnownAt, Adoptable
  <2> QED BY <1>0, <1>1, <1>2, <1>4, <2>1, AdvanceInv
<1>5. CASE /\ S(o).data = "unmarked"
           /\ Advance(o, [S(o) EXCEPT !.data = "initializing"], "create")
  <2> DEFINE t == [S(o) EXCEPT !.data = "initializing"]
  <2>1. /\ t \in Service /\ Sound(t) /\ t.data = "initializing" /\ t.pg = S(o).pg
        /\ t.secret = S(o).secret
    BY <1>1, DataSound
  <2>2. S(o).pg = "empty"
    BY <1>1, <1>5 DEF Sound
  <2> HIDE DEF t
  <2>3. KnownAt("create", op[o].seen, op[o].app, t)
    BY <1>1, <2>1, <2>2 DEF KnownAt
  <2>4. Advance(o, t, "create")
    BY <1>5 DEF t
  <2> QED BY <1>0, <1>2, <2>1, <2>3, <2>4, AdvanceInv
<1> QED BY <1>3, <1>4, <1>5 DEF Marker

\* A container that is created over what "create" has established starts soundly.
LEMMA CreateStarts ==
  ASSUME NEW s \in Service, Sound(s), NEW seen, NEW a, KnownAt("create", seen, a, s),
         s.ctr = Nil
  PROVE  LET t == Started(Created(s)) IN
         /\ t \in Service /\ Sound(t) /\ t.secret = s.secret
         /\ s.pg = "initialised" => t.pg = "initialised"
<1>1. /\ Created(s) \in Service /\ Sound(Created(s)) /\ Created(s).ctr \in Container
      /\ Created(s).pg = s.pg /\ Created(s).data = s.data /\ Created(s).secret = s.secret
  BY CreatedSound
<1>2. /\ s.pg # "partial" /\ s.data \notin {"absent", "unmarked"}
      /\ s.data # "complete" \/ s.pg = "initialised"
  BY DEF KnownAt, Sound
<1>3. /\ Started(Created(s)) \in Service /\ Sound(Started(Created(s)))
      /\ Started(Created(s)).secret = Created(s).secret
      /\ (Created(s).pg = "initialised" => Started(Created(s)).pg = "initialised")
  BY <1>1, <1>2, StartedSound
<1> QED BY <1>1, <1>3

\* create_service
LEMMA CreateServiceInv ==
  ASSUME CoreInv, NEW o \in Ops, CreateService(o), UNCHANGED env
  PROVE  CoreInv'
<1>0. op[o].at = "create" /\ op[o].at \in LockSteps
  BY DEF CreateService, LockSteps
<1>1. /\ S(o) \in Service /\ Sound(S(o)) /\ KnownAt("create", op[o].seen, op[o].app, S(o))
      /\ op[o] \in Operation /\ op[o].svc \in Names /\ Placed(op[o])
  BY <1>0, Holding DEF Knows
<1>2. CASE Fail(o, S(o), "provision")
  BY <1>0, <1>2, FailSameInv
<1>3. CASE S(o).ctr = Nil /\ Fail(o, Created(S(o)), "provision")
  <2>1. /\ Created(S(o)) \in Service /\ Sound(Created(S(o)))
        /\ Created(S(o)).pg = S(o).pg
    BY <1>1, <1>3, CreatedSound
  <2> QED BY <1>0, <1>1, <1>3, <2>1, FailInv DEF KnownAt
<1>4. CASE /\ S(o).ctr = Nil /\ UNCHANGED <<svcLock, bindLock>>
           /\ svc' = [svc EXCEPT ![op[o].svc] = Started(Created(@))]
           /\ op' = [op EXCEPT ![o].at = "ready", ![o].cid = FreshId(S(o))]
  <2> DEFINE t == Started(Created(S(o)))
             q == [op[o] EXCEPT !.at = "ready", !.cid = FreshId(S(o))]
  <2>1. /\ t \in Service /\ Sound(t) /\ t.secret = S(o).secret
        /\ (S(o).pg = "initialised" => t.pg = "initialised")
    BY <1>1, <1>4, CreateStarts
  <2>2. svc' = [svc EXCEPT ![op[o].svc] = t] /\ op' = [op EXCEPT ![o] = q]
    BY <1>1, <1>4 DEF S, CoreInv, CoreType
  <2>3. /\ q \in Operation /\ q.at = "ready" /\ q.svc = op[o].svc
        /\ q.kind = op[o].kind /\ q.seen = op[o].seen /\ q.app = op[o].app
    BY <1>1, FreshIdType DEF Operation, Steps
  <2>4. op[o].kind # "none"
    BY <1>0, <1>1 DEF Placed
  <2> HIDE DEF q, t
  <2>5. Placed(q) /\ Knows(q, t)
    BY <1>1, <2>1, <2>3, <2>4 DEF Placed, Knows, KnownAt, SqlParts
  <2> QED BY <1>0, <1>4, <2>1, <2>2, <2>3, <2>5, GoesOn
<1> QED BY <1>2, <1>3, <1>4 DEF CreateService

\* A container that answers runs over a finished cluster.
LEMMA AwaitReadyInv ==
  ASSUME CoreInv, NEW o \in Ops, AwaitReady(o), UNCHANGED env
  PROVE  CoreInv'
<1>0. op[o].at \in {"ready", "wait"} /\ op[o].at \in LockSteps
  BY DEF AwaitReady, LockSteps
<1>1. S(o) \in Service /\ Sound(S(o)) /\ KnownAt(op[o].at, op[o].seen, op[o].app, S(o))
  BY <1>0, Holding DEF Knows
<1>2. CASE Fail(o, S(o), "readiness")
  BY <1>0, <1>2, FailSameInv
<1>3. CASE /\ ReadyNow(S(o), op[o].cid)
           /\ Advance(o, S(o), IF op[o].at = "ready" THEN "finalize" ELSE "commit")
  <2>1. S(o).pg = "initialised" /\ S(o).secret = "active"
    BY <1>0, <1>1, <1>3 DEF ReadyNow, Found, Sound, KnownAt
  <2>2. PICK at \in {"finalize", "commit"} : Advance(o, S(o), at)
    BY <1>3
  <2>3. KnownAt(at, op[o].seen, op[o].app, S(o))
    BY <2>1 DEF KnownAt
  <2>4. at \in Steps /\ at \notin SqlParts
    BY DEF Steps, SqlParts
  <2> QED BY <1>0, <1>1, <2>2, <2>3, <2>4, AdvanceInv
<1> QED BY <1>2, <1>3 DEF AwaitReady

\* The marker becomes complete over a finished cluster.
LEMMA FinalizeInv ==
  ASSUME CoreInv, NEW o \in Ops, Finalize(o), UNCHANGED env
  PROVE  CoreInv'
<1>0. op[o].at = "finalize" /\ op[o].at \in LockSteps
  BY DEF Finalize, LockSteps
<1>1. S(o) \in Service /\ Sound(S(o)) /\ KnownAt("finalize", op[o].seen, op[o].app, S(o))
  BY <1>0, Holding DEF Knows
<1>2. S(o).pg = "initialised" /\ S(o).secret = "active"
  BY <1>1 DEF KnownAt
<1>3. \A d \in {S(o).data, "initializing", "complete"} :
        LET t == [S(o) EXCEPT !.data = d] IN
        /\ t \in Service /\ Sound(t) /\ t.pg = "initialised" /\ t.secret = "active"
  <2> TAKE d \in {S(o).data, "initializing", "complete"}
  <2>1. d \in {"initializing", "complete"}
    BY <1>1, <1>2, ServiceFields DEF Sound
  <2> QED BY <1>1, <1>2, <2>1, DataSound
<1>4. CASE Advance(o, [S(o) EXCEPT !.data = "complete"], "commit")
  <2> DEFINE t == [S(o) EXCEPT !.data = "complete"]
  <2>1. t \in Service /\ Sound(t) /\ t.pg = "initialised" /\ t.secret = "active"
    BY <1>3
  <2> HIDE DEF t
  <2>2. KnownAt("commit", op[o].seen, op[o].app, t)
    BY <2>1 DEF KnownAt
  <2>3. "commit" \in Steps /\ "commit" \notin SqlParts
    BY DEF Steps, SqlParts
  <2>4. Advance(o, t, "commit")
    BY <1>4 DEF t
  <2> QED BY <1>0, <2>1, <2>2, <2>3, <2>4, AdvanceInv
<1>5. ASSUME NEW d \in {S(o).data, "initializing", "complete"},
             Fail(o, [S(o) EXCEPT !.data = d], "filesystem")
      PROVE  CoreInv'
  <2> DEFINE t == [S(o) EXCEPT !.data = d]
  <2>1. t \in Service /\ Sound(t) /\ t.pg = "initialised"
    BY <1>3
  <2>2. Fail(o, t, "filesystem")
    BY <1>5
  <2> HIDE DEF t
  <2> QED BY <1>0, <2>1, <2>2, FailInv
<1> QED BY <1>4, <1>5 DEF Finalize

\* ensure looks at the recorded container, or provisions from what is there.
LEMMA InspectInv ==
  ASSUME CoreInv, NEW o \in Ops, Inspect(o), UNCHANGED env
  PROVE  CoreInv'
<1>0. op[o].at = "inspect" /\ op[o].at \in LockSteps
  BY DEF Inspect, LockSteps
<1>1. /\ S(o) \in Service /\ Sound(S(o)) /\ KnownAt("inspect", op[o].seen, op[o].app, S(o))
      /\ op[o] \in Operation /\ op[o].svc \in Names /\ Placed(op[o])
  BY <1>0, Holding DEF Knows
<1>2. CASE \E e \in {"internal", "blocked"} : Fail(o, S(o), e)
  BY <1>0, <1>2, FailSameInv
<1>3. CASE Advance(o, S(o), "dir")
  <2>1. KnownAt("dir", op[o].seen, op[o].app, S(o))
    BY <1>1 DEF KnownAt
  <2>2. "dir" \in Steps /\ "dir" \notin SqlParts
    BY DEF Steps, SqlParts
  <2> QED BY <1>0, <1>1, <1>3, <2>1, <2>2, AdvanceInv
<1>4. CASE /\ S(o).secret = "active" /\ Found(S(o), op[o].seen.cid)
           /\ op' = [op EXCEPT ![o].cid = op[o].seen.cid,
                       ![o].at = IF S(o).ctr.ready THEN "commit"
                                 ELSE IF S(o).ctr.running THEN "wait" ELSE "start"]
           /\ UNCHANGED <<svc, svcLock, bindLock>>
  <2> DEFINE at == IF S(o).ctr.ready THEN "commit"
                   ELSE IF S(o).ctr.running THEN "wait" ELSE "start"
             q == [op[o] EXCEPT !.cid = op[o].seen.cid, !.at = at]
  <2>1. S(o).pg = "initialised" /\ S(o).secret = "active" /\ op[o].seen \in Row
    <3>1. op[o].seen # Nil /\ op[o].seen.cid # Nil
      BY <1>1, <1>4 DEF KnownAt, Found
    <3> QED BY <1>0, <1>1, <1>4, <3>1, Holding DEF KnownAt
  <2>2. op[o].seen.cid \in ContainerIds \cup {Nil} /\ at \in {"commit", "wait", "start"}
    BY <2>1 DEF Row
  <2>3. svc' = [svc EXCEPT ![op[o].svc] = S(o)] /\ op' = [op EXCEPT ![o] = q]
    BY <1>1, <1>4 DEF S, CoreInv, CoreType
  <2> HIDE DEF at
  <2>4. /\ q \in Operation /\ q.at = at /\ q.svc = op[o].svc
        /\ q.kind = op[o].kind /\ q.seen = op[o].seen /\ q.app = op[o].app
    BY <1>1, <2>2, ZenonT(40) DEF Operation, Steps
  <2>5. op[o].kind # "none"
    BY <1>0, <1>1 DEF Placed
  <2> HIDE DEF q
  <2>6. Placed(q)
    BY <1>1, <2>2, <2>4, <2>5 DEF Placed, SqlParts
  <2>7. Knows(q, S(o))
    BY <2>1, <2>2, <2>4 DEF Knows, KnownAt
  <2> QED BY <1>0, <1>1, <1>4, <2>3, <2>4, <2>6, <2>7, GoesOn
<1> QED BY <1>2, <1>3, <1>4 DEF Inspect

\* A recorded container is started again over its finished cluster.
LEMMA RestartSound ==
  ASSUME NEW s \in Service, Sound(s), s.ctr # Nil, s.pg = "initialised"
  PROVE  /\ Started(s) \in Service /\ Sound(Started(s))
         /\ Started(s).secret = s.secret /\ Started(s).pg = "initialised"
<1>1. s.ctr \in Container
  BY ServiceFields
<1> QED BY <1>1, StartedSound

\* start_container
LEMMA StartInv ==
  ASSUME CoreInv, NEW o \in Ops, Start(o), UNCHANGED env
  PROVE  CoreInv'
<1>0. op[o].at = "start" /\ op[o].at \in LockSteps
  BY DEF Start, LockSteps
<1>1. S(o) \in Service /\ Sound(S(o)) /\ KnownAt("start", op[o].seen, op[o].app, S(o))
  BY <1>0, Holding DEF Knows
<1>2. CASE Fail(o, S(o), "provision")
  BY <1>0, <1>2, FailSameInv
<1>3. CASE Found(S(o), op[o].cid) /\ Advance(o, Started(S(o)), "wait")
  <2>1. /\ Started(S(o)) \in Service /\ Sound(Started(S(o)))
        /\ Started(S(o)).secret = "active" /\ Started(S(o)).pg = "initialised"
    BY <1>1, <1>3, RestartSound DEF Found, KnownAt
  <2>2. KnownAt("wait", op[o].seen, op[o].app, Started(S(o)))
    BY <2>1 DEF KnownAt
  <2>3. "wait" \in Steps /\ "wait" \notin SqlParts
    BY DEF Steps, SqlParts
  <2> QED BY <1>0, <1>3, <2>1, <2>2, <2>3, AdvanceInv
<1> QED BY <1>2, <1>3 DEF Start

\* provider.remove
LEMMA StopInv ==
  ASSUME CoreInv, NEW o \in Ops, Stop(o), UNCHANGED env
  PROVE  CoreInv'
<1>0. op[o].at = "stop" /\ op[o].at \in LockSteps
  BY DEF Stop, LockSteps
<1>1. /\ S(o) \in Service /\ Sound(S(o)) /\ KnownAt("stop", op[o].seen, op[o].app, S(o))
      /\ op[o].svc \in Names
  BY <1>0, Holding DEF Knows
<1>2. /\ Removed(S(o)) \in Service /\ Sound(Removed(S(o)))
      /\ Removed(S(o)).pg = S(o).pg /\ Removed(S(o)).row = S(o).row
  BY <1>1, RemovedSound
<1>3. "retain" \in Steps /\ "retain" \notin SqlParts
  BY DEF Steps, SqlParts
<1>4. CASE Advance(o, Removed(S(o)), "retain")
  <2>1. KnownAt("retain", op[o].seen, op[o].app, Removed(S(o)))
    BY <1>1, <1>2 DEF KnownAt
  <2> QED BY <1>0, <1>2, <1>3, <1>4, <2>1, AdvanceInv
<1>5. CASE Advance(o, S(o), "retain")
  <2>1. KnownAt("retain", op[o].seen, op[o].app, S(o))
    BY <1>1 DEF KnownAt
  <2> QED BY <1>0, <1>1, <1>3, <1>5, <2>1, AdvanceInv
<1>6. CASE Finish(o, S(o))
  BY <1>1, <1>6, FinishInv
<1> QED BY <1>4, <1>5, <1>6 DEF Stop

\* What a part of the script establishes for the next.
LEMMA SqlStep ==
  ASSUME CoreInv, NEW o \in Ops, op[o].at \in SqlParts
  PROVE  LET t == SqlApplied(S(o), op[o].app, op[o].at) IN
         /\ t \in Service /\ Sound(t) /\ op[o].app \in Apps /\ op[o].kind = "bind"
         /\ KnownAt(AfterPart(op[o].at), op[o].seen, op[o].app, t)
         /\ AfterPart(op[o].at) \in {"database", "grant", "open", "envsave"}
<1> DEFINE a == op[o].app
           part == op[o].at
           t == SqlApplied(S(o), a, part)
<1>0. part \in {"role", "database", "grant", "open"} /\ part \in LockSteps
  BY DEF SqlParts, LockSteps
<1>1. /\ S(o) \in Service /\ Sound(S(o)) /\ KnownAt(part, op[o].seen, a, S(o))
      /\ a \in Apps /\ op[o].kind = "bind" /\ S(o).db[a] \in Database
  <2>1. S(o) \in Service /\ Sound(S(o)) /\ KnownAt(part, op[o].seen, a, S(o))
        /\ Placed(op[o])
    BY <1>0, Holding DEF Knows
  <2>2. a \in Apps /\ op[o].kind = "bind"
    BY <2>1 DEF Placed
  <2> QED BY <2>1, <2>2, ServiceFields
<1>2. (part \in {"grant", "open"} => S(o).db[a].exists)
      /\ (part = "open" => ~S(o).db[a].public)
      /\ (part # "role" => S(o).db[a].role)
  BY <1>0, <1>1 DEF KnownAt
<1>3. /\ t \in Service /\ Sound(t) /\ t.pg = S(o).pg
      /\ t.db[a] = SqlEffect(S(o).db[a], part)
  BY <1>1, <1>2, SqlSound
<1>4. AfterPart(part) \in {"database", "grant", "open", "envsave"}
  BY <1>0 DEF AfterPart
<1> DEFINE x == S(o).db[a]
           y == SqlEffect(x, part)
<1>5. /\ y.role
      /\ AfterPart(part) \in {"grant", "open", "envsave"} => y.exists
      /\ AfterPart(part) \in {"open", "envsave"} => ~y.public
      /\ AfterPart(part) = "envsave" => y.open
  <2>1. x \in Database
    BY <1>1
  <2>2. CASE part = "role"
    BY <2>1, <2>2 DEF SqlEffect, AfterPart, Database
  <2>3. CASE part = "database"
    BY <1>2, <2>1, <2>3 DEF SqlEffect, AfterPart, Database
  <2>4. CASE part = "grant"
    BY <1>2, <2>1, <2>4 DEF SqlEffect, AfterPart, Database
  <2>5. CASE part = "open"
    BY <1>2, <2>1, <2>5 DEF SqlEffect, AfterPart, Database
  <2> QED BY <1>0, <2>2, <2>3, <2>4, <2>5
<1>6. t.db[a] = y /\ (op[o].seen # Nil /\ op[o].seen.cid # Nil => t.pg = "initialised")
  BY <1>1, <1>3 DEF KnownAt
<1> HIDE DEF y, t
<1>7. KnownAt(AfterPart(part), op[o].seen, a, t)
  BY <1>4, <1>5, <1>6 DEF KnownAt
<1> QED BY <1>1, <1>3, <1>4, <1>7 DEF t

\* create_resource
LEMMA SqlInv ==
  ASSUME CoreInv, NEW o \in Ops, Sql(o), UNCHANGED env
  PROVE  CoreInv'
<1>0. op[o].at \in SqlParts /\ op[o].at \in LockSteps
  BY DEF Sql, SqlParts, LockSteps
<1>1. S(o) \in Service /\ Sound(S(o)) /\ op[o].svc \in Names
  BY <1>0, Holding
<1>2. CASE Finish(o, S(o))
  BY <1>1, <1>2, FinishInv
<1>3. CASE ~Finish(o, S(o))
  <2> DEFINE t == SqlApplied(S(o), op[o].app, op[o].at)
             at == AfterPart(op[o].at)
  <2>1. Advance(o, t, at)
    BY <1>3 DEF Sql, SqlApplied
  <2>2. /\ t \in Service /\ Sound(t) /\ op[o].app \in Apps /\ op[o].kind = "bind"
        /\ KnownAt(at, op[o].seen, op[o].app, t)
        /\ at \in {"database", "grant", "open", "envsave"}
    BY <1>0, SqlStep
  <2>3. at \in Steps
    BY <2>2 DEF Steps
  <2> HIDE DEF t, at
  <2> QED BY <1>0, <2>1, <2>2, <2>3, AdvanceInv
<1> QED BY <1>2, <1>3

\* Every step of the provider.
LEMMA ProviderInv ==
  ASSUME CoreInv, NEW o \in Ops, ProviderStep(o), UNCHANGED env
  PROVE  CoreInv'
  BY DataDirInv, MarkerInv, CreateServiceInv, AwaitReadyInv, FinalizeInv, InspectInv,
     StartInv, StopInv, SqlInv DEF ProviderStep

\* A call that lands although nobody waits for it does what it would have done.
LEMMA LandedSound ==
  ASSUME CoreInv, NEW o \in Ops, NEW t \in Landed(o)
  PROVE  op[o].at \in LockSteps /\ t \in Service /\ Sound(t)
<1>1. CASE op[o].at = "create" /\ S(o).ctr = Nil
  <2>1. op[o].at \in LockSteps
    BY <1>1 DEF LockSteps
  <2>2. S(o) \in Service /\ Sound(S(o)) /\ KnownAt("create", op[o].seen, op[o].app, S(o))
    BY <1>1, <2>1, Holding DEF Knows
  <2>3. t \in {Created(S(o)), Started(Created(S(o)))}
    BY <1>1 DEF Landed, SqlParts
  <2> QED BY <1>1, <2>1, <2>2, <2>3, CreatedSound, CreateStarts
<1>2. CASE op[o].at = "start" /\ Found(S(o), op[o].cid)
  <2>1. op[o].at \in LockSteps
    BY <1>2 DEF LockSteps
  <2>2. S(o) \in Service /\ Sound(S(o)) /\ KnownAt("start", op[o].seen, op[o].app, S(o))
    BY <1>2, <2>1, Holding DEF Knows
  <2>3. t = Started(S(o))
    BY <1>2 DEF Landed, SqlParts
  <2> QED BY <1>2, <2>1, <2>2, <2>3, RestartSound DEF Found, KnownAt
<1>3. CASE op[o].at = "stop" /\ RemoveOutcome(S(o), op[o].seen) = "stop"
  <2>1. op[o].at \in LockSteps
    BY <1>3 DEF LockSteps
  <2>2. t = Removed(S(o))
    BY <1>3 DEF Landed, SqlParts
  <2> QED BY <2>1, <2>2, Holding, RemovedSound
<1>4. CASE op[o].at \in SqlParts /\ Usable(o)
  <2>1. op[o].at \in LockSteps
    BY <1>4 DEF LockSteps, SqlParts
  <2>2. op[o].at \notin {"create", "start", "stop"}
    BY <1>4 DEF SqlParts
  <2>3. t = SqlApplied(S(o), op[o].app, op[o].at)
    BY <1>4, <2>2 DEF Landed, SqlApplied
  <2> QED BY <1>4, <2>1, <2>3, SqlStep
<1>5. CASE /\ ~(op[o].at = "create" /\ S(o).ctr = Nil)
           /\ ~(op[o].at = "start" /\ Found(S(o), op[o].cid))
           /\ ~(op[o].at = "stop" /\ RemoveOutcome(S(o), op[o].seen) = "stop")
           /\ ~(op[o].at \in SqlParts /\ Usable(o))
  BY <1>5 DEF Landed
<1> QED BY <1>1, <1>2, <1>3, <1>4, <1>5

-----------------------------------------------------------------------------
(* The controller's steps.                                                 *)

\* An idle slot holds no lock.
LEMMA IdleHoldsNothing ==
  ASSUME CoreInv, NEW o \in Ops, op[o].kind = "none"
  PROVE  bindLock # o /\ \A n \in Names : svcLock[n] # o
  BY NilApart DEF CoreInv, LocksKnown, OpFacts, Placed

\* An operation that waits for the lock of its service holds no other.
LEMMA WaiterHoldsNothing ==
  ASSUME CoreInv, NEW o \in Ops, op[o].svc \in Names, svcLock[op[o].svc] = Nil
  PROVE  \A n \in Names : svcLock[n] # o
  BY NilApart DEF CoreInv, LocksKnown

\* An operation takes the lock of service n; the service becomes t.
LEMMA Takes ==
  ASSUME CoreInv, NEW o \in Ops, NEW n \in Names, svcLock[n] = Nil,
         \A m \in Names : svcLock[m] # o, svcLock' = [svcLock EXCEPT ![n] = o],
         NEW t \in Service, Sound(t), svc' = [svc EXCEPT ![n] = t],
         NEW q \in Operation, Placed(q), q.svc = n, q.at \in LockSteps => Knows(q, t),
         op' \in [Ops -> Operation], op'[o] = q, OthersStale(o),
         bindLock' = bindLock, bindLock = o => q.kind = op[o].kind, UNCHANGED env
  PROVE  CoreInv'
<1>1. /\ svcLock' \in [Names -> Ops \cup {Nil}] /\ svcLock'[n] = o
      /\ \A m \in Names \ {n} : svcLock'[m] = svcLock[m]
  BY DEF CoreInv, CoreType
<1>2. svc' \in [Names -> Service] /\ svc'[n] = t /\ \A m \in Names : Sound(svc'[m])
  BY DEF CoreInv, CoreType
<1>3. ASSUME NEW p \in Ops \ {o}
      PROVE  OpFacts(p)' /\ op'[p].svc = op[p].svc /\ op'[p].kind = op[p].kind
  <2>1. op[p] \in Operation /\ Placed(op[p])
    BY DEF CoreInv, CoreType, OpFacts
  <2>2. /\ Placed(op'[p]) /\ op'[p].at = op[p].at /\ op'[p].svc = op[p].svc
        /\ op'[p].kind = op[p].kind /\ \A s : Knows(op[p], s) => Knows(op'[p], s)
    BY <2>1, StaleKnows DEF OthersStale
  <2>3. ASSUME op[p].at \in LockSteps
        PROVE  svcLock'[op'[p].svc] = p /\ Knows(op'[p], S(p)')
    <3>1. op[p].svc \in Names /\ svcLock[op[p].svc] = p /\ Knows(op[p], S(p))
      BY <2>3 DEF CoreInv, OpFacts, Placed
    <3>2. op[p].svc # n
      BY <3>1, NilApart
    <3>3. svc'[op[p].svc] = svc[op[p].svc]
      BY <3>1, <3>2 DEF CoreInv, CoreType
    <3> QED BY <1>1, <2>2, <3>1, <3>2, <3>3 DEF S
  <2> QED BY <2>2, <2>3 DEF OpFacts
<1>4. OpFacts(o)'
  BY <1>1, <1>2 DEF OpFacts, S
<1>5. LocksKnown'
  <2>1. ASSUME NEW m \in Names, svcLock'[m] # Nil PROVE op'[svcLock'[m]].svc = m
    <3>1. CASE m = n
      BY <1>1, <3>1
    <3>2. CASE m # n
      <4>1. svcLock'[m] = svcLock[m] /\ svcLock[m] \in Ops \ {o}
        BY <1>1, <2>1, <3>2 DEF CoreInv, CoreType
      <4> QED BY <1>3, <2>1, <4>1 DEF CoreInv, LocksKnown
    <3> QED BY <3>1, <3>2
  <2>2. ASSUME bindLock' # Nil PROVE op'[bindLock'].kind \in {"remove", "bind", "detach"}
    <3>1. op[bindLock].kind \in {"remove", "bind", "detach"} /\ bindLock \in Ops
      BY <2>2 DEF CoreInv, CoreType, LocksKnown
    <3> QED BY <1>3, <3>1
  <2> QED BY <2>1, <2>2 DEF LocksKnown
<1>6. CoreType'
  BY <1>1, <1>2 DEF CoreInv, CoreType
<1> QED BY <1>2, <1>3, <1>4, <1>5, <1>6 DEF CoreInv

\* An operation goes on outside the locks of services: only its own record, the lock
\* it lets go, and the bindings lock change.
LEMMA Moves ==
  ASSUME CoreInv, NEW o \in Ops, NEW q \in Operation, Placed(q), q.at \notin LockSteps,
         svc' = svc, op' = [op EXCEPT ![o] = q], UNCHANGED env,
         \/ svcLock' = Unlocked(o)
         \/ svcLock' = svcLock /\ (q.svc = op[o].svc \/ op[o].kind = "none"),
         \/ bindLock' = Unleased(o)
         \/ bindLock' = bindLock /\ (q.kind = op[o].kind \/ op[o].kind = "none")
         \/ bindLock' = o /\ q.kind \in {"remove", "bind", "detach"}
  PROVE  CoreInv'
<1>1. /\ op' \in [Ops -> Operation] /\ op'[o] = q
      /\ \A p \in Ops \ {o} : op'[p] = op[p]
  BY DEF CoreInv, CoreType
<1>2. /\ svcLock' \in [Names -> Ops \cup {Nil}] /\ bindLock' \in Ops \cup {Nil}
      /\ \A m \in Names : svcLock[m] # o => svcLock'[m] = svcLock[m]
      /\ \A m \in Names : svcLock'[m] = o => svcLock[m] = o /\ svcLock' = svcLock
  BY NilApart DEF CoreInv, CoreType, Unlocked, Unleased
<1>3. ASSUME NEW p \in Ops \ {o} PROVE OpFacts(p)'
  <2>1. op'[p] = op[p] /\ OpFacts(p)
    BY <1>1 DEF CoreInv
  <2>2. op[p].at \in LockSteps => op[p].svc \in Names
    BY <2>1 DEF OpFacts, Placed
  <2> QED BY <1>2, <2>1, <2>2 DEF OpFacts, S
<1>4. OpFacts(o)'
  BY <1>1 DEF OpFacts
<1>5. LocksKnown'
  <2>1. ASSUME NEW m \in Names, svcLock'[m] # Nil PROVE op'[svcLock'[m]].svc = m
    <3>1. CASE svcLock'[m] = o
      <4>1. svcLock[m] = o /\ svcLock' = svcLock
        BY <1>2, <3>1
      <4>2. op[o].svc = m /\ op[o].kind # "none"
        BY <4>1, NilApart, IdleHoldsNothing DEF CoreInv, LocksKnown
      <4>3. svcLock # Unlocked(o)
        BY <4>1, NilApart DEF Unlocked
      <4> QED BY <1>1, <3>1, <4>1, <4>2, <4>3
    <3>2. CASE svcLock'[m] # o
      <4>1. svcLock'[m] \in Ops \ {o}
        BY <1>2, <2>1, <3>2
      <4>2. svcLock'[m] = svcLock[m]
        BY <2>1, <3>2 DEF CoreInv, CoreType, Unlocked
      <4> QED BY <1>1, <2>1, <4>1, <4>2 DEF CoreInv, LocksKnown
    <3> QED BY <3>1, <3>2
  <2>2. ASSUME bindLock' # Nil PROVE op'[bindLock'].kind \in {"remove", "bind", "detach"}
    <3>1. CASE bindLock' = o
      <4>1. CASE q.kind \in {"remove", "bind", "detach"}
        BY <1>1, <3>1, <4>1
      <4>2. CASE q.kind \notin {"remove", "bind", "detach"}
        <5>1. bindLock = o /\ (q.kind = op[o].kind \/ op[o].kind = "none")
          BY <3>1, <4>2, NilApart DEF Unleased
        <5> QED BY <1>1, <3>1, <5>1, NilApart, IdleHoldsNothing DEF CoreInv, LocksKnown
      <4> QED BY <4>1, <4>2
    <3>2. CASE bindLock' # o
      <4>1. bindLock' = bindLock /\ bindLock \in Ops \ {o}
        BY <2>2, <3>2 DEF CoreInv, CoreType, Unleased
      <4> QED BY <1>1, <2>2, <4>1 DEF CoreInv, LocksKnown
    <3> QED BY <3>1, <3>2
  <2> QED BY <2>1, <2>2 DEF LocksKnown
<1>6. CoreType'
  BY <1>1, <1>2 DEF CoreInv, CoreType
<1> QED BY <1>3, <1>4, <1>5, <1>6 DEF CoreInv

\* The record of a new operation.
LEMMA BeginType ==
  ASSUME NEW kind \in OpKinds, NEW n \in Names \cup {Nil}, NEW a \in Apps \cup {Nil},
         NEW at \in Steps
  PROVE  LET b == Begin(kind, n, a, at) IN
         /\ b \in Operation /\ b.kind = kind /\ b.svc = n /\ b.app = a /\ b.at = at
         /\ b.seen = Nil
<1>1. NoOp \in Operation
  BY DEF NoOp, Operation, Steps
<1> QED BY <1>1 DEF Begin, Operation, NoOp

\* Where nothing of the core changes.
LEMMA CoreSame ==
  ASSUME CoreInv, UNCHANGED <<env, svc, op, svcLock, bindLock>>
  PROVE  CoreInv'
  BY DEF CoreInv, CoreType, LocksKnown, OpFacts, S

\* A service row that is written keeps the service sound.
LEMMA RowSound ==
  ASSUME NEW s \in Service, Sound(s), NEW d \in BOOLEAN, NEW row \in Row,
         row.phase = "ready" => s.pg = "initialised" /\ s.secret = "active",
         row.cid # Nil => s.pg = "initialised"
  PROVE  LET t == [s EXCEPT !.desired = d, !.row = row] IN
         /\ t \in Service /\ Sound(t) /\ t.row = row /\ t.pg = s.pg
         /\ t.secret = s.secret /\ t.data = s.data /\ t.db = s.db
<1> DEFINE t == [s EXCEPT !.desired = d, !.row = row]
<1>1. /\ t \in Service /\ t.desired = d /\ t.row = row /\ t.pg = s.pg /\ t.ctr = s.ctr
      /\ t.secret = s.secret /\ t.data = s.data /\ t.db = s.db
  BY DEF Service
<1>2. row # Nil
  BY NilApart
<1> HIDE DEF t
<1>3. Sound(t)
  BY <1>1, <1>2 DEF Sound
<1> QED BY <1>1, <1>3 DEF t

\* The row of a new or re-added service.
LEMMA AddedRowSound ==
  ASSUME NEW s \in Service, Sound(s)
  PROVE  /\ AddedRow(s) \in Row /\ AddedRow(s).phase = "provisioning"
         /\ AddedRow(s).cid # Nil => s.pg = "initialised"
<1>1. CASE s.row = Nil
  BY <1>1 DEF AddedRow, NewRow, Row
<1>2. CASE s.row # Nil
  <2>1. s.row \in Row /\ (s.row.cid # Nil => s.pg = "initialised")
    BY <1>2, ServiceFields DEF Sound
  <2> QED BY <1>2, <2>1 DEF AddedRow, Row
<1> QED BY <1>1, <1>2

\* add takes the lock with the transaction.
LEMMA AddInv ==
  ASSUME CoreInv, NEW o \in Ops, NEW n \in Names, Add(o, n), UNCHANGED env
  PROVE  CoreInv'
<1> DEFINE row == AddedRow(svc[n])
           t == [svc[n] EXCEPT !.desired = TRUE, !.row = row]
           b == Begin("add", n, Nil, "secret")
           q == [b EXCEPT !.seen = row, !.fresh = TRUE, !.back = svc[n].row # Nil]
<1>1. svc[n] \in Service /\ Sound(svc[n]) /\ op[o].kind = "none" /\ svcLock[n] = Nil
  BY DEF CoreInv, CoreType, Add, Idle
<1>2. row \in Row /\ row.phase = "provisioning" /\ (row.cid # Nil => svc[n].pg = "initialised")
  BY <1>1, AddedRowSound
<1>3. t \in Service /\ Sound(t) /\ t.pg = svc[n].pg
  BY <1>1, <1>2, RowSound
<1>4. /\ b \in Operation /\ b.kind = "add" /\ b.svc = n /\ b.app = Nil /\ b.at = "secret"
  BY BeginType DEF OpKinds, Steps
<1> HIDE DEF b, row
<1>5. /\ q \in Operation /\ q.kind = "add" /\ q.svc = n /\ q.at = "secret" /\ q.seen = row
  BY <1>2, <1>4 DEF Operation
<1>6. /\ svc' = [svc EXCEPT ![n] = t] /\ svcLock' = [svcLock EXCEPT ![n] = o]
      /\ op' = AfterWrite(o, n, q) /\ bindLock' = bindLock
  BY DEF Add, CoreInv, CoreType, row, b
<1> HIDE DEF q, t
<1>7. op' \in [Ops -> Operation] /\ op'[o] = q /\ OthersStale(o)
  BY <1>5, <1>6, AfterWriteType
<1>8. Placed(q) /\ Knows(q, t)
  BY <1>2, <1>3, <1>5 DEF Placed, Knows, KnownAt, SqlParts
<1>9. bindLock # o /\ \A m \in Names : svcLock[m] # o
  BY <1>1, IdleHoldsNothing
<1> QED BY <1>1, <1>3, <1>5, <1>6, <1>7, <1>8, <1>9, Takes

\* The instance directory and the secret.
LEMMA SecretInv ==
  ASSUME CoreInv, NEW o \in Ops, Secret(o), UNCHANGED env
  PROVE  CoreInv'
<1>0. op[o].at = "secret" /\ op[o].at \in LockSteps
  BY DEF Secret, LockSteps
<1>1. S(o) \in Service /\ Sound(S(o)) /\ KnownAt("secret", op[o].seen, op[o].app, S(o))
  BY <1>0, Holding DEF Knows
<1> DEFINE made == [S(o) EXCEPT !.secret = IF @ = "none" THEN "dir" ELSE @]
<1>2. "dir" \in Steps /\ "dir" \notin SqlParts
  BY DEF Steps, SqlParts
<1>3. CASE Advance(o, S(o), "dir")
  <2>1. KnownAt("dir", op[o].seen, op[o].app, S(o))
    BY <1>1 DEF KnownAt
  <2> QED BY <1>0, <1>1, <1>2, <1>3, <2>1, AdvanceInv
<1>4. ASSUME S(o).secret # "active", NEW sec \in {"dir", "active"}
      PROVE  LET t == [made EXCEPT !.secret = sec] IN
             t \in Service /\ Sound(t) /\ t.pg = S(o).pg /\ t = [S(o) EXCEPT !.secret = sec]
  <2>1. [made EXCEPT !.secret = sec] = [S(o) EXCEPT !.secret = sec]
    BY <1>1 DEF Service
  <2>2. [S(o) EXCEPT !.secret = sec] \in Service
    BY <1>1 DEF Service
  <2>3. Sound([S(o) EXCEPT !.secret = sec])
    BY <1>1, <1>4 DEF Service, Sound
  <2>4. [S(o) EXCEPT !.secret = sec].pg = S(o).pg
    BY <1>1 DEF Service
  <2> QED BY <2>1, <2>2, <2>3, <2>4
<1>5. CASE S(o).secret # "active" /\ Fail(o, made, "blocked")
  <2>1. made = [S(o) EXCEPT !.secret = "dir"]
    BY <1>1, <1>5, ServiceFields DEF Service
  <2>2. made \in Service /\ Sound(made) /\ made.pg = S(o).pg
    BY <1>4, <1>5, <2>1
  <2> HIDE DEF made
  <2> QED BY <1>0, <1>1, <1>5, <2>2, FailInv DEF KnownAt
<1>6. CASE S(o).secret # "active" /\ Advance(o, [made EXCEPT !.secret = "active"], "dir")
  <2> DEFINE t == [made EXCEPT !.secret = "active"]
  <2>1. t \in Service /\ Sound(t) /\ t.pg = S(o).pg
    BY <1>4, <1>6
  <2>2. Advance(o, t, "dir")
    BY <1>6
  <2> HIDE DEF t
  <2>3. KnownAt("dir", op[o].seen, op[o].app, t)
    BY <1>1, <2>1 DEF KnownAt
  <2> QED BY <1>0, <1>2, <2>1, <2>2, <2>3, AdvanceInv
<1>7. ASSUME S(o).secret # "active", NEW sec \in {"dir", "active"},
             Fail(o, [made EXCEPT !.secret = sec], "internal")
      PROVE  CoreInv'
  <2> DEFINE t == [made EXCEPT !.secret = sec]
  <2>1. t \in Service /\ Sound(t) /\ t.pg = S(o).pg
    BY <1>4, <1>7
  <2>2. Fail(o, t, "internal")
    BY <1>7
  <2> HIDE DEF t
  <2> QED BY <1>0, <1>1, <2>1, <2>2, FailInv DEF KnownAt
<1> QED BY <1>3, <1>5, <1>6, <1>7 DEF Secret

\* The pass takes the lock of the next service.
LEMMA EnsureInv ==
  ASSUME CoreInv, NEW n \in Names, Ensure(n), UNCHANGED env
  PROVE  CoreInv'
<1>0. "tick" \in Ops /\ svcLock[n] = Nil /\ op["tick"] = NoOp
  BY DEF Ops, Ensure
<1>1. CASE UNCHANGED <<op, svcLock>>
  BY <1>1, CoreSame DEF Ensure
<1>2. CASE /\ Ensured(svc[n])
           /\ svcLock' = [svcLock EXCEPT ![n] = "tick"]
           /\ op' = [op EXCEPT !["tick"] = [Begin("ensure", n, Nil, "inspect") EXCEPT
                                              !.seen = svc[n].row, !.fresh = TRUE]]
  <2> DEFINE b == Begin("ensure", n, Nil, "inspect")
             q == [b EXCEPT !.seen = svc[n].row, !.fresh = TRUE]
  <2>1. svc[n] \in Service /\ Sound(svc[n]) /\ svc[n].row # Nil
    BY <1>2 DEF CoreInv, CoreType, Ensured, Sound
  <2>2. /\ b \in Operation /\ b.kind = "ensure" /\ b.svc = n /\ b.app = Nil /\ b.at = "inspect"
    BY BeginType DEF OpKinds, Steps
  <2>3. svc[n].row \in Row \cup {Nil}
    BY <2>1, ServiceFields
  <2>4. op' = [op EXCEPT !["tick"] = q]
    BY <1>2
  <2> HIDE DEF b
  <2>5. q \in Operation /\ q.kind = "ensure" /\ q.svc = n /\ q.at = "inspect"
        /\ q.seen = svc[n].row
    BY <2>2, <2>3 DEF Operation
  <2> HIDE DEF q
  <2>6. Placed(q) /\ Knows(q, svc[n])
    BY <2>1, <2>5 DEF Placed, Knows, KnownAt, SqlParts, Sound
  <2>7. op' \in [Ops -> Operation] /\ op'["tick"] = q /\ OthersStale("tick")
    BY <1>0, <2>4, <2>5 DEF CoreInv, CoreType, OthersStale
  <2>8. bindLock # "tick" /\ \A m \in Names : svcLock[m] # "tick"
    BY <1>0, IdleHoldsNothing DEF NoOp
  <2>9. svc' = [svc EXCEPT ![n] = svc[n]] /\ bindLock' = bindLock
    BY DEF Ensure, CoreInv, CoreType
  <2> QED BY <1>0, <1>2, <2>1, <2>5, <2>6, <2>7, <2>8, <2>9, Takes
<1> QED BY <1>1, <1>2 DEF Ensure

\* The same when only the row is written.
LEMMA RowOnlySound ==
  ASSUME NEW s \in Service, Sound(s), NEW row \in Row,
         row.phase = "ready" => s.pg = "initialised" /\ s.secret = "active",
         row.cid # Nil => s.pg = "initialised"
  PROVE  [s EXCEPT !.row = row] \in Service /\ Sound([s EXCEPT !.row = row])
<1>1. s.desired \in BOOLEAN /\ [s EXCEPT !.row = row] = [s EXCEPT !.desired = s.desired, !.row = row]
  BY DEF Service
<1> QED BY <1>1, RowSound

\* The outcome of provision or ensure.
LEMMA CommitInv ==
  ASSUME CoreInv, NEW o \in Ops, Commit(o), UNCHANGED env
  PROVE  CoreInv'
<1>0. op[o].at = "commit" /\ op[o].at \in LockSteps
  BY DEF Commit, LockSteps
<1>1. /\ S(o) \in Service /\ Sound(S(o)) /\ KnownAt("commit", op[o].seen, op[o].app, S(o))
      /\ op[o] \in Operation
  BY <1>0, Holding DEF Knows
<1>2. CommittedRow(o) \in Row
  BY <1>1 DEF CommittedRow, Row, Operation
<1>3. S(o).pg = "initialised" /\ S(o).secret = "active"
  BY <1>1 DEF KnownAt
<1> QED BY <1>0, <1>1, <1>2, <1>3, RowOnlySound, FinishCasInv DEF Commit

\* A permanent error of ensure.
LEMMA PersistBlockedInv ==
  ASSUME CoreInv, NEW o \in Ops, PersistBlocked(o), UNCHANGED env
  PROVE  CoreInv'
<1>0. op[o].at = "failed" /\ op[o].at \in LockSteps
  BY DEF PersistBlocked, LockSteps
<1>1. S(o) \in Service /\ Sound(S(o))
  BY <1>0, Holding
<1> DEFINE row == [phase |-> "blocked", cid |-> Nil, hash |-> FALSE]
<1>2. row \in Row /\ row.phase = "blocked" /\ row.cid = Nil
  BY DEF Row
<1>3. FinishCas(o, S(o), row)
  BY DEF PersistBlocked
<1> HIDE DEF row
<1> QED BY <1>0, <1>1, <1>2, <1>3, RowOnlySound, FinishCasInv

\* delete_service_and_retain
LEMMA RetainInv ==
  ASSUME CoreInv, NEW o \in Ops, Retain(o), UNCHANGED env
  PROVE  CoreInv'
<1>0. op[o].at = "retain" /\ op[o].at \in LockSteps
  BY DEF Retain, LockSteps
<1>1. /\ S(o) \in Service /\ Sound(S(o)) /\ KnownAt("retain", op[o].seen, op[o].app, S(o))
      /\ op[o] \in Operation
  BY <1>0, Holding DEF Knows
<1>2. S(o).row \in Row /\ op[o].fresh \in BOOLEAN
  BY <1>1, ServiceFields DEF KnownAt, Operation
<1> DEFINE d == ~op[o].fresh
           t == [S(o) EXCEPT !.desired = d]
           row == RetainedRow(S(o))
<1>3. d \in BOOLEAN /\ FinishCas(o, t, row)
  BY DEF Retain
<1>4. row \in Row /\ row.phase = "retained" /\ row.cid = S(o).row.cid
  BY <1>2 DEF RetainedRow, Row
<1> HIDE DEF d, row
<1>5. /\ t \in Service /\ t.desired = d /\ t.row = S(o).row /\ t.pg = S(o).pg
      /\ t.secret = S(o).secret /\ t.data = S(o).data /\ t.db = S(o).db /\ t.ctr = S(o).ctr
  BY <1>1, <1>3 DEF Service
<1> HIDE DEF t
<1>6. Sound(t)
  BY <1>1, <1>2, <1>5, NilApart DEF Sound
<1>7. row.cid # Nil => t.pg = "initialised"
  BY <1>1, <1>2, <1>4, <1>5, NilApart DEF Sound
<1>8. [t EXCEPT !.row = row] \in Service /\ Sound([t EXCEPT !.row = row])
  BY <1>4, <1>5, <1>6, <1>7, RowOnlySound
<1> QED BY <1>0, <1>3, <1>5, <1>6, <1>8, FinishCasInv

\* `slip services rm` begins.
LEMMA RemoveReadInv ==
  ASSUME CoreInv, NEW o \in Ops, NEW n \in Names, NEW force \in BOOLEAN,
         RemoveRead(o, n, force), UNCHANGED env
  PROVE  CoreInv'
<1> DEFINE b == Begin("remove", n, Nil, "request")
           q == [b EXCEPT !.fresh = TRUE, !.force = force]
<1>1. b \in Operation /\ b.kind = "remove" /\ b.svc = n /\ b.app = Nil /\ b.at = "request"
  BY BeginType DEF OpKinds, Steps
<1>2. /\ op[o].kind = "none" /\ svc' = svc /\ svcLock' = svcLock /\ bindLock' = bindLock
      /\ op' = [op EXCEPT ![o] = q]
  BY DEF RemoveRead, Idle
<1> HIDE DEF b
<1>3. q \in Operation /\ q.kind = "remove" /\ q.svc = n /\ q.at = "request" /\ q.app = b.app
  BY <1>1 DEF Operation
<1> HIDE DEF q
<1>4. Placed(q) /\ q.at \notin LockSteps
  BY <1>3 DEF Placed, LockSteps, SqlParts
<1> QED BY <1>2, <1>3, <1>4, Moves

\* An operation goes on at another step outside the locks of services.
LEMMA StepOf ==
  ASSUME CoreInv, NEW o \in Ops, NEW at \in Steps \ LockSteps, at # "idle",
         op[o].kind # "none",
         at \in {"request", "check", "record"} => op[o].svc \in Names,
         at = "record" => op[o].kind = "bind",
         at \in {"request", "check"} => op[o].kind = "remove",
         at \in {"record", "persist", "publish", "unsave"} => op[o].app \in Apps
  PROVE  LET q == [op[o] EXCEPT !.at = at] IN
         /\ q \in Operation /\ Placed(q) /\ q.at = at /\ q.svc = op[o].svc
         /\ q.kind = op[o].kind
<1> DEFINE q == [op[o] EXCEPT !.at = at]
<1>1. op[o] \in Operation
  BY DEF CoreInv, CoreType
<1>2. /\ q \in Operation /\ q.at = at /\ q.svc = op[o].svc /\ q.kind = op[o].kind
      /\ q.app = op[o].app
  BY <1>1 DEF Operation
<1>3. at \notin SqlParts \cup {"envsave"}
  BY DEF SqlParts, LockSteps
<1> HIDE DEF q
<1>4. Placed(q)
  BY <1>2, <1>3 DEF Placed
<1> QED BY <1>2, <1>4 DEF q

\* remove takes the bindings lock.
LEMMA RemoveLockInv ==
  ASSUME CoreInv, NEW o \in Ops, RemoveLock(o), UNCHANGED env
  PROVE  CoreInv'
<1>1. op[o].at = "request" /\ op[o].kind = "remove" /\ op[o].svc \in Names
  BY DEF RemoveLock, CoreInv, OpFacts, Placed
<1> DEFINE q == [op[o] EXCEPT !.at = "check"]
<1>2. "check" \in Steps \ LockSteps
  BY DEF Steps, LockSteps
<1>3. /\ q \in Operation /\ Placed(q) /\ q.at = "check" /\ q.svc = op[o].svc
      /\ q.kind = "remove"
  BY <1>1, <1>2, StepOf
<1>4. op' = [op EXCEPT ![o] = q] /\ svc' = svc /\ svcLock' = svcLock /\ bindLock' = o
  BY DEF RemoveLock
<1> HIDE DEF q
<1> QED BY <1>2, <1>3, <1>4, Moves

\* remove takes the lock of the service, or gives up.
LEMMA RemoveCheckInv ==
  ASSUME CoreInv, NEW o \in Ops, RemoveCheck(o), UNCHANGED env
  PROVE  CoreInv'
<1> DEFINE n == op[o].svc
           q == [op[o] EXCEPT !.at = "stop", !.seen = S(o).row]
<1>1. /\ op[o].at = "check" /\ op[o].kind = "remove" /\ n \in Names /\ svcLock[n] = Nil
      /\ op[o] \in Operation
  BY DEF RemoveCheck, CoreInv, CoreType, OpFacts, Placed
<1>2. S(o) \in Service /\ Sound(S(o)) /\ S(o) = svc[n]
  BY <1>1 DEF S, CoreInv, CoreType
<1>3. CASE Finish(o, S(o))
  BY <1>1, <1>2, <1>3, FinishInv
<1>4. CASE /\ S(o).desired /\ svcLock' = [svcLock EXCEPT ![n] = o]
           /\ op' = [op EXCEPT ![o].at = "stop", ![o].seen = S(o).row]
           /\ UNCHANGED <<svc, bindLock>>
  <2>1. S(o).row # Nil /\ S(o).row \in Row
    BY <1>2, <1>4, ServiceFields DEF Sound
  <2>2. op' = [op EXCEPT ![o] = q]
    BY <1>4 DEF CoreInv, CoreType
  <2>3. /\ q \in Operation /\ q.at = "stop" /\ q.svc = n /\ q.kind = "remove"
        /\ q.seen = S(o).row
    BY <1>1, <2>1, ZenonT(40) DEF Operation, Steps
  <2> HIDE DEF q
  <2>4. Placed(q) /\ Knows(q, S(o))
    BY <1>1, <1>2, <2>1, <2>3 DEF Placed, Knows, KnownAt, SqlParts, Sound
  <2>5. op' \in [Ops -> Operation] /\ op'[o] = q /\ OthersStale(o)
    BY <2>2, <2>3 DEF CoreInv, CoreType, OthersStale
  <2>6. \A m \in Names : svcLock[m] # o
    BY <1>1, WaiterHoldsNothing
  <2>7. svc' = [svc EXCEPT ![n] = S(o)] /\ bindLock' = bindLock
    BY <1>2, <1>4 DEF CoreInv, CoreType
  <2> QED BY <1>1, <1>2, <1>4, <2>3, <2>4, <2>5, <2>6, <2>7, Takes
<1> QED BY <1>3, <1>4 DEF RemoveCheck

\* A new operation outside the locks of services, with or without the lease.
LEMMA BeginInv ==
  ASSUME CoreInv, NEW o \in Ops, op[o].kind = "none", UNCHANGED env,
         NEW kind \in OpKinds, NEW n \in Names \cup {Nil}, NEW a \in Apps,
         NEW at \in {"record", "persist", "unsave"},
         at = "record" => n \in Names /\ kind = "bind",
         op' = [op EXCEPT ![o] = Begin(kind, n, a, at)],
         bindLock' = bindLock \/ (bindLock' = o /\ kind \in {"bind", "detach"}),
         UNCHANGED <<svc, svcLock>>
  PROVE  CoreInv'
<1> DEFINE b == Begin(kind, n, a, at)
<1>1. b \in Operation /\ b.kind = kind /\ b.svc = n /\ b.app = a /\ b.at = at
  BY BeginType DEF Steps
<1>2. op' = [op EXCEPT ![o] = b]
  OBVIOUS
<1>3. kind # "none"
  BY DEF OpKinds
<1> HIDE DEF b
<1>4. Placed(b) /\ b.at \notin LockSteps
  BY <1>1, <1>3 DEF Placed, LockSteps, SqlParts
<1> QED BY <1>1, <1>2, <1>4, Moves

\* A service the plan names exists.
LEMMA CandidateExists ==
  ASSUME CoreInv, NEW a \in Apps, Cardinality(Candidates(a)) = 1
  PROVE  (CHOOSE n \in Names : n \in Candidates(a)) \in Candidates(a) \cap Names
<1>1. Candidates(a) # {}
  BY FS_EmptySet
<1>2. Candidates(a) \subseteq Names
  BY ServicesAssumption DEF Candidates, CoreInv, CoreType
<1> QED BY <1>1, <1>2

\* bind begins with the lease, detach too, delete without.
LEMMA AppBegins ==
  ASSUME CoreInv, NEW o \in Ops, NEW a \in Apps, UNCHANGED env,
         Bind(o, a) \/ Detach(o, a) \/ Delete(o, a)
  PROVE  CoreInv'
<1>1. CASE Bind(o, a)
  <2> DEFINE n == CHOOSE n \in Names : n \in Candidates(a)
  <2>1. n \in Names
    BY <1>1, CandidateExists DEF Bind
  <2>2. op' = [op EXCEPT ![o] = Begin("bind", n, a, "record")] /\ op[o].kind = "none"
        /\ bindLock' = o /\ UNCHANGED <<svc, svcLock>>
    BY <1>1 DEF Bind, Idle
  <2> HIDE DEF n
  <2> QED BY <2>1, <2>2, BeginInv DEF OpKinds
<1>2. CASE Detach(o, a)
  <2>1. op' = [op EXCEPT ![o] = Begin("detach", Nil, a, "persist")] /\ op[o].kind = "none"
        /\ bindLock' = o /\ UNCHANGED <<svc, svcLock>>
    BY <1>2 DEF Detach, Idle
  <2> QED BY <2>1, BeginInv DEF OpKinds
<1>3. CASE Delete(o, a)
  <2>1. op' = [op EXCEPT ![o] = Begin("delete", Nil, a, "unsave")] /\ op[o].kind = "none"
        /\ bindLock' = bindLock /\ UNCHANGED <<svc, svcLock>>
    BY <1>3 DEF Delete, Idle
  <2> QED BY <2>1, BeginInv DEF OpKinds
<1> QED BY <1>1, <1>2, <1>3

\* bind takes the lock of the service, or gives up.
LEMMA BindRecordInv ==
  ASSUME CoreInv, NEW o \in Ops, BindRecord(o), UNCHANGED env
  PROVE  CoreInv'
<1> DEFINE n == op[o].svc
           q == [op[o] EXCEPT !.at = "role", !.seen = svc[n].row]
<1>1. /\ op[o].at = "record" /\ op[o].kind = "bind" /\ n \in Names /\ op[o].app \in Apps
      /\ svcLock[n] = Nil /\ op[o] \in Operation
  BY DEF BindRecord, CoreInv, CoreType, OpFacts, Placed
<1>2. S(o) \in Service /\ Sound(S(o)) /\ S(o) = svc[n]
  BY <1>1 DEF S, CoreInv, CoreType
<1>3. CASE Finish(o, S(o))
  BY <1>1, <1>2, <1>3, FinishInv
<1>4. CASE /\ svcLock' = [svcLock EXCEPT ![n] = o]
           /\ op' = [op EXCEPT ![o].at = "role", ![o].seen = svc[n].row]
           /\ UNCHANGED <<svc, bindLock>>
  <2>1. svc[n].row \in Row \cup {Nil}
    BY <1>2, ServiceFields
  <2>2. op' = [op EXCEPT ![o] = q]
    BY <1>4 DEF CoreInv, CoreType
  <2>3. /\ q \in Operation /\ q.at = "role" /\ q.svc = n /\ q.kind = "bind"
        /\ q.seen = svc[n].row /\ q.app = op[o].app
    BY <1>1, <2>1, ZenonT(40) DEF Operation, Steps
  <2> HIDE DEF q
  <2>4. Placed(q) /\ Knows(q, S(o))
    BY <1>1, <1>2, <2>1, <2>3 DEF Placed, Knows, KnownAt, Sound
  <2>5. op' \in [Ops -> Operation] /\ op'[o] = q /\ OthersStale(o)
    BY <2>2, <2>3 DEF CoreInv, CoreType, OthersStale
  <2>6. \A m \in Names : svcLock[m] # o
    BY <1>1, WaiterHoldsNothing
  <2>7. svc' = [svc EXCEPT ![n] = S(o)] /\ bindLock' = bindLock
    BY <1>2, <1>4 DEF CoreInv, CoreType
  <2> QED BY <1>1, <1>2, <1>4, <2>3, <2>4, <2>5, <2>6, <2>7, Takes
<1> QED BY <1>3, <1>4 DEF BindRecord

\* The variables are saved and the lock of the service goes; then the config file.
LEMMA CommitsApp ==
  ASSUME CoreInv, NEW o \in Ops, UNCHANGED env, BindEnv(o) \/ Persist(o)
  PROVE  CoreInv'
<1> DEFINE at == IF op[o].at = "envsave" THEN "persist" ELSE "publish"
           q == [op[o] EXCEPT !.at = at]
<1>1. op[o].at \in {"envsave", "persist"} /\ op[o].app \in Apps /\ op[o].kind # "none"
  BY DEF BindEnv, Persist, CoreInv, OpFacts, Placed
<1>2. at \in {"persist", "publish"} /\ at \in Steps \ LockSteps
  BY DEF Steps, LockSteps
<1>3. /\ op' = [op EXCEPT ![o] = q] /\ svc' = svc /\ bindLock' = bindLock
      /\ svcLock' = Unlocked(o) \/ svcLock' = svcLock
  BY DEF BindEnv, Persist
<1> HIDE DEF at
<1>4. q \in Operation /\ Placed(q) /\ q.at = at /\ q.svc = op[o].svc /\ q.kind = op[o].kind
  BY <1>1, <1>2, StepOf
<1> HIDE DEF q
<1> QED BY <1>2, <1>3, <1>4, Moves

\* The operation of an app ends.
LEMMA AppEnds ==
  ASSUME CoreInv, NEW o \in Ops, UNCHANGED env, svc' = svc, EndApp(o)
  PROVE  CoreInv'
<1>1. NoOp \in Operation /\ Placed(NoOp) /\ NoOp.at \notin LockSteps
  BY DEF NoOp, Operation, Steps, Placed, LockSteps, SqlParts
<1> QED BY <1>1, Moves DEF EndApp

\* An operation is cut short.
LEMMA AbandonInv ==
  ASSUME CoreInv, NEW o \in Ops, UNCHANGED env, NEW s \in Left(o), Abandon(o, s)
  PROVE  CoreInv'
<1>1. CASE op[o].svc = Nil
  BY <1>1, AppEnds DEF Abandon, EndApp
<1>2. CASE op[o].svc # Nil
  <2>1. op[o].svc \in Names /\ NoOp \in Operation
    BY <1>2 DEF CoreInv, CoreType, Operation, NoOp, Steps
  <2>2. /\ svc' = [svc EXCEPT ![op[o].svc] = s] /\ op' = [op EXCEPT ![o] = NoOp]
        /\ svcLock' = Unlocked(o) /\ bindLock' = Unleased(o)
    BY <1>2 DEF Abandon
  <2>3. op' \in [Ops -> Operation] /\ op'[o] = NoOp /\ OthersStale(o)
    BY <2>1, <2>2 DEF CoreInv, CoreType, OthersStale
  <2>4. /\ s \in Service /\ Sound(s) /\ (s = svc[op[o].svc] \/ svcLock[op[o].svc] = o)
    <3>1. CASE s = S(o)
      BY <2>1, <3>1 DEF S, CoreInv, CoreType
    <3>2. CASE s \in Landed(o)
      BY <3>2, LandedSound, Holding
    <3> QED BY <1>2, <3>1, <3>2 DEF Left
  <2> QED BY <2>1, <2>2, <2>3, <2>4, Ends
<1> QED BY <1>1, <1>2

\* slipd dies: every operation is gone, and what it had in flight landed or not.
LEMMA CrashInv ==
  ASSUME CoreInv, UNCHANGED env, Crash
  PROVE  CoreInv'
<1>1. NoOp \in Operation /\ Placed(NoOp) /\ NoOp.at \notin LockSteps
  BY DEF NoOp, Operation, Steps, Placed, LockSteps, SqlParts
<1>2. ASSUME NEW n \in Names PROVE svc'[n] \in Service /\ Sound(svc'[n])
  <2>1. svc'[n] \in {svc[n]} \cup IF svcLock[n] = Nil THEN {} ELSE Landed(svcLock[n])
    BY DEF Crash
  <2>2. CASE svc'[n] = svc[n]
    BY <2>2 DEF CoreInv, CoreType
  <2>3. CASE svcLock[n] # Nil /\ svc'[n] \in Landed(svcLock[n])
    <3>1. svcLock[n] \in Ops
      BY <2>3 DEF CoreInv, CoreType
    <3> QED BY <2>3, <3>1, LandedSound
  <2> QED BY <2>1, <2>2, <2>3
<1>3. svc' \in [Names -> Service]
  <2>1. svc' = [n \in Names |-> svc'[n]]
    BY DEF Crash
  <2> QED BY <1>2, <2>1
<1>4. op' \in [Ops -> Operation] /\ \A o \in Ops : op'[o] = NoOp
  BY <1>1 DEF Crash
<1>5. CoreType' /\ LocksKnown'
  BY <1>3, <1>4 DEF Crash, CoreInv, CoreType, LocksKnown
<1>6. \A o \in Ops : OpFacts(o)'
  BY <1>1, <1>4 DEF OpFacts
<1> QED BY <1>2, <1>5, <1>6 DEF CoreInv

\* What the runtime may do to a container by itself, whoever is looking at it.
LEMMA WorldInv ==
  ASSUME CoreInv, NEW n \in Names, NEW t \in Service, Sound(t),
         svc' = [svc EXCEPT ![n] = t], UNCHANGED <<env, op, svcLock, bindLock>>,
         t.row = svc[n].row, t.secret = svc[n].secret, t.data = svc[n].data,
         t.db = svc[n].db,
         t.pg = svc[n].pg \/ (t.pg = "initialised" /\ svc[n].pg # "empty")
  PROVE  CoreInv'
<1>1. /\ svc' \in [Names -> Service] /\ svc'[n] = t
      /\ \A m \in Names : Sound(svc'[m])
      /\ \A m \in Names \ {n} : svc'[m] = svc[m]
  BY DEF CoreInv, CoreType
<1>2. ASSUME NEW o \in Ops PROVE OpFacts(o)'
  <2>1. OpFacts(o) /\ op'[o] = op[o] /\ svcLock' = svcLock
    BY DEF CoreInv
  <2>2. ASSUME op[o].at \in LockSteps PROVE Knows(op[o], S(o)')
    <3>1. op[o].svc \in Names /\ Knows(op[o], S(o))
      BY <2>1, <2>2 DEF OpFacts, Placed
    <3>2. CASE op[o].svc # n
      BY <1>1, <3>1, <3>2 DEF S
    <3>3. CASE op[o].svc = n
      <4>1. S(o) = svc[n] /\ S(o)' = t
        BY <1>1, <3>3 DEF S
      <4>2. KnownAt(op[o].at, op[o].seen, op[o].app, svc[n])
        BY <3>1, <4>1 DEF Knows
      <4>3. KnownAt(op[o].at, op[o].seen, op[o].app, t)
        BY <4>2 DEF KnownAt
      <4> QED BY <4>1, <4>3 DEF Knows
    <3> QED BY <3>2, <3>3
  <2> QED BY <2>1, <2>2 DEF OpFacts
<1>3. CoreType' /\ LocksKnown'
  BY <1>1 DEF CoreInv, CoreType, LocksKnown
<1> QED BY <1>1, <1>2, <1>3 DEF CoreInv

\* A container whose flags change, over the same files or over a cluster that is
\* now finished.
LEMMA FlagsSound ==
  ASSUME NEW s \in Service, Sound(s), s.ctr # Nil,
         NEW c \in Container, c.tainted = s.ctr.tainted, c.running => s.ctr.running,
         NEW g \in {"empty", "partial", "initialised"},
         g = s.pg \/ (g = "initialised" /\ s.pg # "empty"),
         c.ready => g = "initialised"
  PROVE  LET t == [s EXCEPT !.ctr = c, !.pg = g] IN
         /\ t \in Service /\ Sound(t) /\ t.row = s.row /\ t.secret = s.secret
         /\ t.data = s.data /\ t.db = s.db /\ t.pg = g
<1> DEFINE t == [s EXCEPT !.ctr = c, !.pg = g]
<1>1. /\ t \in Service /\ t.ctr = c /\ t.pg = g /\ t.desired = s.desired /\ t.row = s.row
      /\ t.secret = s.secret /\ t.data = s.data /\ t.db = s.db
  BY DEF Service
<1> HIDE DEF t
<1>2. Sound(t)
  BY <1>1, ServiceFields DEF Sound
<1> QED BY <1>1, <1>2 DEF t

\* The same over the same cluster.
LEMMA FlagsOnlySound ==
  ASSUME NEW s \in Service, Sound(s), s.ctr # Nil,
         NEW c \in Container, c.tainted = s.ctr.tainted, c.running => s.ctr.running,
         c.ready => s.ctr.ready
  PROVE  LET t == [s EXCEPT !.ctr = c] IN
         /\ t \in Service /\ Sound(t) /\ t.row = s.row /\ t.secret = s.secret
         /\ t.data = s.data /\ t.db = s.db /\ t.pg = s.pg
<1> DEFINE t == [s EXCEPT !.ctr = c]
<1>1. /\ t \in Service /\ t.ctr = c /\ t.pg = s.pg /\ t.desired = s.desired /\ t.row = s.row
      /\ t.secret = s.secret /\ t.data = s.data /\ t.db = s.db
  BY DEF Service
<1> HIDE DEF t
<1>2. Sound(t)
  BY <1>1, ServiceFields DEF Sound
<1> QED BY <1>1, <1>2 DEF t

\* A container comes up, is lost, halts or is altered.
LEMMA WorldsInv ==
  ASSUME CoreInv, NEW n \in Names, ComeUp(n) \/ Lose(n) \/ Halt(n) \/ Drift(n),
         UNCHANGED env
  PROVE  CoreInv'
<1> DEFINE s == svc[n]
<1>0. s \in Service /\ Sound(s) /\ svc \in [Names -> Service]
  BY DEF CoreInv, CoreType
<1>1. CASE Lose(n)
  BY <1>0, <1>1, RemovedSound, WorldInv DEF Lose
<1>2. CASE ComeUp(n)
  <2> DEFINE c == [s.ctr EXCEPT !.ready = TRUE]
             t == [s EXCEPT !.ctr = c, !.pg = "initialised"]
  <2>1. s.ctr \in Container /\ s.ctr # Nil /\ s.ctr.running
    BY <1>0, <1>2, ServiceFields DEF ComeUp
  <2>2. c \in Container /\ c.tainted = s.ctr.tainted /\ c.running = s.ctr.running
    BY <2>1 DEF Container
  <2>3. s.pg # "empty"
    BY <1>0, <2>1 DEF Sound
  <2>4. svc' = [svc EXCEPT ![n] = t] /\ UNCHANGED <<op, svcLock, bindLock>>
    BY <1>0, <1>2 DEF ComeUp, Service
  <2> HIDE DEF c
  <2>5. /\ t \in Service /\ Sound(t) /\ t.row = s.row /\ t.secret = s.secret
        /\ t.data = s.data /\ t.db = s.db /\ t.pg = "initialised"
    BY <1>0, <2>1, <2>2, <2>3, FlagsSound
  <2> HIDE DEF t
  <2> QED BY <2>3, <2>4, <2>5, WorldInv
<1>3. CASE Halt(n)
  <2> DEFINE c == [s.ctr EXCEPT !.running = FALSE, !.ready = FALSE]
             t == [s EXCEPT !.ctr = c]
  <2>1. s.ctr \in Container /\ s.ctr # Nil
    BY <1>0, <1>3, ServiceFields DEF Halt, Recorded, Found
  <2>2. c \in Container /\ c.tainted = s.ctr.tainted /\ c.running = FALSE /\ c.ready = FALSE
    BY <2>1 DEF Container
  <2>4. svc' = [svc EXCEPT ![n] = t] /\ UNCHANGED <<op, svcLock, bindLock>>
    BY <1>0, <1>3 DEF Halt, Service
  <2> HIDE DEF c
  <2>5. /\ t \in Service /\ Sound(t) /\ t.row = s.row /\ t.secret = s.secret
        /\ t.data = s.data /\ t.db = s.db /\ t.pg = s.pg
    BY <1>0, <2>1, <2>2, FlagsOnlySound
  <2> HIDE DEF t
  <2> QED BY <2>4, <2>5, WorldInv
<1>4. CASE Drift(n)
  <2> DEFINE c == [s.ctr EXCEPT !.owned = FALSE]
             t == [s EXCEPT !.ctr = c]
  <2>1. s.ctr \in Container /\ s.ctr # Nil
    BY <1>0, <1>4, ServiceFields DEF Drift
  <2>2. c \in Container /\ c.tainted = s.ctr.tainted /\ c.running = s.ctr.running
        /\ c.ready = s.ctr.ready
    BY <2>1 DEF Container
  <2>4. svc' = [svc EXCEPT ![n] = t] /\ UNCHANGED <<op, svcLock, bindLock>>
    BY <1>0, <1>4 DEF Drift, Service
  <2> HIDE DEF c
  <2>5. /\ t \in Service /\ Sound(t) /\ t.row = s.row /\ t.secret = s.secret
        /\ t.data = s.data /\ t.db = s.db /\ t.pg = s.pg
    BY <1>0, <2>1, <2>2, FlagsOnlySound
  <2> HIDE DEF t
  <2> QED BY <2>4, <2>5, WorldInv
<1> QED BY <1>1, <1>2, <1>3, <1>4

\* Every step keeps the invariant.
LEMMA NextCore ==
  ASSUME CoreInv, [Next]_vars
  PROVE  CoreInv'
<1>1. CASE UNCHANGED vars
  BY <1>1, CoreSame DEF vars
<1>2. CASE Next
  <2>0. UNCHANGED env
    BY <1>2 DEF Next
  <2>1. CASE Tick
    BY <2>0, <2>1, CoreSame DEF Tick
  <2>2. ASSUME NEW n \in Names, Ensure(n) PROVE CoreInv'
    BY <2>0, <2>2, EnsureInv
  <2>3. ASSUME NEW n \in Names, Up(n) \/ World(n) PROVE CoreInv'
    BY <2>0, <2>3, WorldsInv DEF Up, World
  <2>4. ASSUME NEW o \in Ops, Request(o) PROVE CoreInv'
    BY <2>0, <2>4, AddInv, RemoveReadInv, AppBegins DEF Request
  <2>5. ASSUME NEW o \in Ops, Progress(o) PROVE CoreInv'
    <3>1. CASE Publish(o) \/ DeleteSaved(o)
      BY <2>0, <3>1, AppEnds DEF Publish, DeleteSaved
    <3>2. CASE BindRecord(o) \/ BindEnv(o) \/ Persist(o)
      BY <2>0, <3>2, BindRecordInv, CommitsApp
    <3>3. CASE RemoveLock(o) \/ RemoveCheck(o) \/ Retain(o)
      BY <2>0, <3>3, RemoveLockInv, RemoveCheckInv, RetainInv
    <3>4. CASE Commit(o) \/ PersistBlocked(o) \/ Secret(o)
      BY <2>0, <3>4, CommitInv, PersistBlockedInv, SecretInv
    <3>5. CASE ProviderStep(o)
      BY <2>0, <3>5, ProviderInv
    <3> QED BY <2>5, <3>1, <3>2, <3>3, <3>4, <3>5 DEF Progress
  <2>6. CASE Cut
    <3>1. CASE Crash
      BY <2>0, <3>1, CrashInv
    <3>2. ASSUME NEW o \in Ops, Deadline(o) \/ Disconnect(o) PROVE CoreInv'
      BY <2>0, <3>2, AbandonInv DEF Deadline, Disconnect
    <3> QED BY <2>6, <3>1, <3>2 DEF Cut
  <2> QED BY <1>2, <2>1, <2>2, <2>3, <2>4, <2>5, <2>6 DEF Next
<1> QED BY <1>1, <1>2

\* The services an instance starts with are absent or Ready.
LEMMA InitCore == ASSUME Init PROVE CoreInv
<1>1. NoOp \in Operation /\ Placed(NoOp) /\ NoOp.at \notin LockSteps
  BY DEF NoOp, Operation, Steps, Placed, LockSteps, SqlParts
<1>2. NoDatabase \in Database /\ NoDatabase.open = FALSE
  BY DEF NoDatabase, Database
<1>3. [a \in Apps |-> NoDatabase] \in [Apps -> Database]
  BY <1>2
<1>4. NoService \in Service
  BY <1>3 DEF NoService, Service
<1>5. Sound(NoService)
  BY <1>2 DEF Sound, NoService
<1>6. ReadyService \in Service /\ Sound(ReadyService)
  <2> DEFINE row == [phase |-> "ready", cid |-> 1, hash |-> TRUE]
             c == [id |-> 1, running |-> TRUE, ready |-> TRUE, owned |-> TRUE,
                   tainted |-> FALSE]
  <2>1. row \in Row /\ c \in Container
    BY DEF Row, Container, ContainerIds
  <2>2. ReadyService = [NoService EXCEPT !.desired = TRUE, !.row = row, !.secret = "active",
                          !.data = "complete", !.pg = "initialised", !.ctr = c]
    BY DEF ReadyService
  <2>3. NoService.db = [a \in Apps |-> NoDatabase]
    BY DEF NoService
  <2> HIDE DEF row, c
  <2>4. /\ ReadyService \in Service /\ ReadyService.row = row /\ ReadyService.ctr = c
        /\ ReadyService.secret = "active" /\ ReadyService.pg = "initialised"
        /\ ReadyService.data = "complete" /\ ReadyService.db = NoService.db
    BY <1>4, <2>1, <2>2 DEF Service
  <2>5. row # Nil /\ c.tainted = FALSE
    BY <2>1, NilApart DEF c
  <2> QED BY <1>2, <2>3, <2>4, <2>5 DEF Sound
<1>7. svc \in [Names -> Service] /\ \A n \in Names : Sound(svc[n])
  BY <1>4, <1>5, <1>6 DEF Init
<1>8. op \in [Ops -> Operation] /\ \A o \in Ops : op[o] = NoOp
  BY <1>1 DEF Init
<1>9. CoreType /\ LocksKnown
  BY <1>7, <1>8 DEF Init, CoreType, LocksKnown
<1> QED BY <1>1, <1>7, <1>8, <1>9 DEF CoreInv, OpFacts

\* The core invariant holds in every reachable state.
LEMMA CoreInvariant == Spec => []CoreInv
<1>1. Init => CoreInv
  BY InitCore
<1>2. CoreInv /\ [Next]_vars => CoreInv'
  BY NextCore
<1> QED BY <1>1, <1>2, PTL DEF Spec

\* No container is ever started over a data directory whose initialisation was
\* cut short: CreateService and Start run only over a directory that the marker
\* or the recorded container vouches for, or that this operation has just made.
THEOREM NothingOverPartialData == Spec => []NeverOverPartialData
<1>1. CoreInv => NeverOverPartialData
  BY DEF CoreInv, Sound, NeverOverPartialData
<1> QED BY <1>1, CoreInvariant, PTL

\* A Ready row stands for a finished cluster and an active secret, whatever
\* crash, deadline, disconnect or failed call came before its commit.
THEOREM ReadyMeansInitialised == Spec => []ReadyIsInitialised
<1>1. CoreInv => ReadyIsInitialised
  BY DEF CoreInv, Sound, ReadyIsInitialised
<1> QED BY <1>1, CoreInvariant, PTL

-----------------------------------------------------------------------------
(* Roles and databases of apps, and the services they are in.              *)

\* The roles and databases of a cluster are only ever added to.
DbGrows(s, t) ==
  \A a \in Apps : /\ s.db[a].role => t.db[a].role
                  /\ s.db[a].exists => t.db[a].exists
                  /\ s.db[a].open => t.db[a].open

Grows(s, t) == DbGrows(s, t) /\ (s.desired => t.desired)

ClustersGrow == \A n \in Names : DbGrows(svc[n], svc'[n])

AllGrow == \A n \in Names : Grows(svc[n], svc'[n])

\* One service changes, and what its cluster holds does not shrink.
LEMMA OneGrows ==
  ASSUME CoreInv, NEW m, NEW t, svc' = [svc EXCEPT ![m] = t],
         m \in Names => Grows(svc[m], t)
  PROVE  AllGrow
  BY DEF AllGrow, CoreInv, CoreType, Grows, DbGrows

\* The same for an operation that ends or goes on.
LEMMA OpGrows ==
  ASSUME CoreInv, NEW o \in Ops, NEW t \in Service, NEW u,
         op[o].svc \in Names => Grows(S(o), t),
         \/ \E at : Advance(o, t, at)
         \/ Finish(o, t)
         \/ FinishCas(o, t, u)
         \/ Fail(o, t, u)
  PROVE  AllGrow
<1>1. CASE (\E at : Advance(o, t, at)) \/ Finish(o, t) \/ Fail(o, t, u)
  <2>1. svc' = [svc EXCEPT ![op[o].svc] = t]
    BY <1>1 DEF Advance, Finish, Fail
  <2> QED BY <2>1, OneGrows DEF S
<1>2. CASE FinishCas(o, t, u)
  <2>1. [t EXCEPT !.row = u].db = t.db /\ [t EXCEPT !.row = u].desired = t.desired
    BY DEF Service
  <2>2. CASE op[o].fresh
    <3>1. svc' = [svc EXCEPT ![op[o].svc] = [t EXCEPT !.row = u]]
      BY <1>2, <2>2 DEF FinishCas
    <3>2. op[o].svc \in Names => Grows(svc[op[o].svc], [t EXCEPT !.row = u])
      BY <2>1 DEF Grows, DbGrows, S
    <3> QED BY <3>1, <3>2, OneGrows
  <2>3. CASE ~op[o].fresh
    <3>1. svc' = [svc EXCEPT ![op[o].svc] = t]
      BY <1>2, <2>3 DEF FinishCas, Finish
    <3> QED BY <3>1, OneGrows DEF S
  <2> QED BY <2>2, <2>3
<1> QED BY <1>1, <1>2

\* A part of the script.
LEMMA SqlGrows ==
  ASSUME CoreInv, NEW o \in Ops, op[o].at \in SqlParts
  PROVE  Grows(S(o), SqlApplied(S(o), op[o].app, op[o].at))
<1> DEFINE a == op[o].app
           part == op[o].at
           d == S(o).db[a]
<1>1. op[o].at \in LockSteps
  BY DEF SqlParts, LockSteps
<1>2. /\ S(o) \in Service /\ Sound(S(o)) /\ Placed(op[o]) /\ S(o).db \in [Apps -> Database]
  BY <1>1, Holding
<1>3. a \in Apps /\ d \in Database
  BY <1>2 DEF Placed
<1>4. LET x == SqlEffect(d, part) IN
      (d.role => x.role) /\ (d.exists => x.exists) /\ (d.open => x.open)
  <2>1. d.open => d.exists
    BY <1>2, <1>3 DEF Sound
  <2>2. part \in {"role", "database", "grant", "open"}
    BY DEF SqlParts
  <2> HIDE DEF part, d
  <2>3. CASE part = "role"
    BY <1>3, <2>3 DEF SqlEffect, Database
  <2>4. CASE part = "database"
    BY <1>3, <2>1, <2>4 DEF SqlEffect, Database
  <2>5. CASE part = "grant"
    BY <1>3, <2>5 DEF SqlEffect, Database
  <2>6. CASE part = "open"
    BY <1>3, <2>6 DEF SqlEffect, Database
  <2> QED BY <2>2, <2>3, <2>4, <2>5, <2>6
<1>5. /\ SqlApplied(S(o), a, part).db = [S(o).db EXCEPT ![a] = SqlEffect(d, part)]
      /\ SqlApplied(S(o), a, part).desired = S(o).desired
  BY <1>2 DEF SqlApplied, Service
<1> QED BY <1>2, <1>3, <1>4, <1>5 DEF Grows, DbGrows

\* A call that lands although nobody waits for it.
LEMMA LandedGrows ==
  ASSUME CoreInv, NEW o \in Ops, NEW t \in Landed(o)
  PROVE  Grows(S(o), t)
<1>0. op[o].at \in LockSteps
  BY LandedSound
<1>1. S(o) \in Service /\ Sound(S(o)) /\ Knows(op[o], S(o))
  BY <1>0, Holding
<1>2. CASE op[o].at \in SqlParts
  <2>1. op[o].at \notin {"create", "start", "stop"}
    BY <1>2 DEF SqlParts
  <2>2. t = SqlApplied(S(o), op[o].app, op[o].at)
    BY <1>2, <2>1 DEF Landed, SqlApplied
  <2> QED BY <1>2, <2>2, SqlGrows
<1>3. CASE op[o].at \notin SqlParts
  <2>1. \/ S(o).ctr = Nil /\ t \in {Created(S(o)), Started(Created(S(o)))}
        \/ S(o).ctr # Nil /\ t = Started(S(o))
        \/ t = Removed(S(o))
    BY <1>3 DEF Landed, Found
  <2>2. t.db = S(o).db /\ t.desired = S(o).desired
    <3>0. \A s \in Service : Started(s).db = s.db /\ Started(s).desired = s.desired
      BY DEF Started, Service
    <3>1. CASE S(o).ctr = Nil /\ t \in {Created(S(o)), Started(Created(S(o)))}
      BY <1>1, <3>0, <3>1, CreatedSound
    <3>2. CASE t = Started(S(o)) \/ t = Removed(S(o))
      BY <1>1, <3>0, <3>2 DEF Removed, Service
    <3> QED BY <2>1, <3>1, <3>2
  <2> QED BY <2>2 DEF Grows, DbGrows
<1> QED BY <1>2, <1>3

\* The steps of an operation that holds its lock.
LEMMA ProviderGrows ==
  ASSUME CoreInv, NEW o \in Ops, ProviderStep(o)
  PROVE  AllGrow
<1>0. op[o].at \in LockSteps
  BY DEF ProviderStep, DataDir, Marker, CreateService, AwaitReady, Finalize, Inspect, Start,
         Stop, Sql, LockSteps, SqlParts
<1>1. S(o) \in Service /\ Sound(S(o)) /\ op[o].svc \in Names /\ S(o) = svc[op[o].svc]
      /\ svc \in [Names -> Service]
  BY <1>0, Holding DEF CoreInv, CoreType, S
<1>2. Grows(S(o), S(o))
  BY DEF Grows, DbGrows
<1>3. \A d \in {"absent", "unmarked", "initializing", "complete"} :
        LET t == [S(o) EXCEPT !.data = d] IN t \in Service /\ Grows(S(o), t)
  BY <1>1 DEF Grows, DbGrows, Service
<1>4. CASE DataDir(o)
  <2>1. CASE \E e : Fail(o, S(o), e)
    BY <1>1, <1>2, <2>1, OpGrows
  <2>2. CASE svc' = [svc EXCEPT ![op[o].svc].data = IF @ = "absent" THEN "unmarked" ELSE @]
    <3> DEFINE d == IF S(o).data = "absent" THEN "unmarked" ELSE S(o).data
    <3>1. d \in {"absent", "unmarked", "initializing", "complete"}
      BY <1>1, ServiceFields
    <3>2. svc' = [svc EXCEPT ![op[o].svc] = [S(o) EXCEPT !.data = d]]
      BY <1>1, <2>2
    <3> HIDE DEF d
    <3> QED BY <1>1, <1>3, <3>1, <3>2, OneGrows
  <2> QED BY <1>4, <2>1, <2>2 DEF DataDir
<1>5. CASE Marker(o)
  BY <1>2, <1>3, <1>5, <1>1, OpGrows DEF Marker
<1>6. CASE CreateService(o)
  <2>1. CASE \E e : Fail(o, S(o), e)
    BY <1>1, <1>2, <2>1, OpGrows
  <2>2. CASE S(o).ctr = Nil /\ Fail(o, Created(S(o)), "provision")
    BY <1>1, <2>2, CreatedSound, OpGrows DEF Grows, DbGrows
  <2>3. CASE S(o).ctr = Nil /\ svc' = [svc EXCEPT ![op[o].svc] = Started(Created(@))]
    <3>1. /\ Started(Created(S(o))).db = S(o).db
          /\ Started(Created(S(o))).desired = S(o).desired
      BY <1>1, <2>3, CreatedSound DEF Started, Service
    <3> QED BY <1>1, <2>3, <3>1, OneGrows DEF Grows, DbGrows
  <2> QED BY <1>6, <2>1, <2>2, <2>3 DEF CreateService
<1>7. CASE AwaitReady(o)
  BY <1>1, <1>2, <1>7, OpGrows DEF AwaitReady
<1>8. CASE Finalize(o)
  <2>1. S(o).data \in {"absent", "unmarked", "initializing", "complete"}
    BY <1>1, ServiceFields
  <2> QED BY <1>3, <1>8, <2>1, OpGrows DEF Finalize
<1>9. CASE Inspect(o)
  <2>1. CASE UNCHANGED svc
    BY <2>1 DEF AllGrow, Grows, DbGrows
  <2> QED BY <1>1, <1>2, <1>9, <2>1, OpGrows DEF Inspect
<1>10. CASE Start(o)
  <2>1. CASE \E e : Fail(o, S(o), e)
    BY <1>1, <1>2, <2>1, OpGrows
  <2>2. CASE Advance(o, Started(S(o)), "wait")
    <3>1. Started(S(o)).db = S(o).db /\ Started(S(o)).desired = S(o).desired
      BY <1>1 DEF Started, Service
    <3> QED BY <1>1, <2>2, <3>1, OneGrows DEF Grows, DbGrows, Advance
  <2> QED BY <1>10, <2>1, <2>2 DEF Start
<1>11. CASE Stop(o)
  <2>1. Removed(S(o)) \in Service /\ Grows(S(o), Removed(S(o)))
    BY <1>1, RemovedSound DEF Grows, DbGrows
  <2> QED BY <1>1, <1>2, <1>11, <2>1, OpGrows DEF Stop
<1>12. CASE Sql(o)
  <2>1. CASE Finish(o, S(o))
    BY <1>1, <1>2, <2>1, OpGrows
  <2>2. CASE ~Finish(o, S(o))
    <3>1. op[o].at \in SqlParts
      BY <1>12 DEF Sql
    <3>2. Advance(o, SqlApplied(S(o), op[o].app, op[o].at), AfterPart(op[o].at))
      BY <1>12, <2>2 DEF Sql, SqlApplied
    <3> QED BY <1>1, <3>1, <3>2, SqlGrows, OneGrows DEF Advance
  <2> QED BY <2>1, <2>2
<1> QED BY <1>4, <1>5, <1>6, <1>7, <1>8, <1>9, <1>10, <1>11, <1>12 DEF ProviderStep

\* An operation that is cut short.
LEMMA AbandonGrows ==
  ASSUME CoreInv, NEW o \in Ops, NEW s \in Left(o), Abandon(o, s)
  PROVE  AllGrow
<1>1. CASE op[o].svc = Nil
  BY <1>1 DEF Abandon, AllGrow, Grows, DbGrows
<1>2. CASE op[o].svc # Nil
  <2>1. Grows(S(o), s)
    BY <1>2, LandedGrows DEF Left, Grows, DbGrows
  <2> QED BY <1>2, <2>1, OneGrows DEF Abandon, S
<1> QED BY <1>1, <1>2

\* Only delete_service_and_retain takes a service away, and nothing takes a role,
\* a database or a grant away.
LEMMA RetainGrows ==
  ASSUME CoreInv, NEW o \in Ops, Retain(o)
  PROVE  ClustersGrow /\ \A n \in Names : n # op[o].svc => svc'[n] = svc[n]
<1>1. op[o].at \in LockSteps
  BY DEF Retain, LockSteps
<1>2. S(o) \in Service /\ op[o].svc \in Names /\ svc \in [Names -> Service]
  BY <1>1, Holding DEF CoreInv, CoreType
<1> DEFINE t == [S(o) EXCEPT !.desired = ~op[o].fresh]
           u == [t EXCEPT !.row = RetainedRow(S(o))]
<1>3. t.db = S(o).db /\ u.db = S(o).db
  BY <1>2 DEF Service
<1>4. svc' = [svc EXCEPT ![op[o].svc] = t] \/ svc' = [svc EXCEPT ![op[o].svc] = u]
  BY DEF Retain, FinishCas, Finish
<1> HIDE DEF t, u
<1> QED BY <1>2, <1>3, <1>4 DEF ClustersGrow, DbGrows, S

\* Every other step.
LEMMA NextGrows ==
  ASSUME CoreInv, Next, \A o \in Ops : ~Retain(o)
  PROVE  AllGrow
<1>0. svc \in [Names -> Service]
  BY DEF CoreInv, CoreType
<1>1. CASE UNCHANGED svc
  BY <1>1 DEF AllGrow, Grows, DbGrows
<1>2. ASSUME NEW n \in Names, NEW t, t.db = svc[n].db,
             svc[n].desired => t.desired, svc' = [svc EXCEPT ![n] = t]
      PROVE  AllGrow
  BY <1>2, OneGrows DEF Grows, DbGrows
<1>3. ASSUME NEW n \in Names, Up(n) \/ World(n) PROVE AllGrow
  <2> DEFINE s == svc[n]
  <2>0. s \in Service
    BY <1>0
  <2>1. CASE Lose(n)
    BY <1>2, <2>0, <2>1 DEF Lose, Removed, Service
  <2>2. CASE ComeUp(n)
    <3> DEFINE t == [s EXCEPT !.pg = "initialised", !.ctr.ready = TRUE]
    <3>1. svc' = [svc EXCEPT ![n] = t] /\ t.db = s.db /\ t.desired = s.desired
      BY <1>0, <2>0, <2>2 DEF ComeUp, Service
    <3> HIDE DEF t
    <3> QED BY <1>2, <3>1
  <2>3. CASE Halt(n)
    <3> DEFINE t == [s EXCEPT !.ctr.running = FALSE, !.ctr.ready = FALSE]
    <3>1. svc' = [svc EXCEPT ![n] = t] /\ t.db = s.db /\ t.desired = s.desired
      BY <1>0, <2>0, <2>3 DEF Halt, Service
    <3> HIDE DEF t
    <3> QED BY <1>2, <3>1
  <2>4. CASE Drift(n)
    <3> DEFINE t == [s EXCEPT !.ctr.owned = FALSE]
    <3>1. svc' = [svc EXCEPT ![n] = t] /\ t.db = s.db /\ t.desired = s.desired
      BY <1>0, <2>0, <2>4 DEF Drift, Service
    <3> HIDE DEF t
    <3> QED BY <1>2, <3>1
  <2> QED BY <1>3, <2>1, <2>2, <2>3, <2>4 DEF Up, World
<1>4. ASSUME NEW o \in Ops, Request(o) PROVE AllGrow
  <2>1. ASSUME NEW n \in Names, Add(o, n) PROVE AllGrow
    <3> DEFINE t == [svc[n] EXCEPT !.desired = TRUE, !.row = AddedRow(svc[n])]
    <3>1. svc' = [svc EXCEPT ![n] = t] /\ t.db = svc[n].db /\ t.desired = TRUE
      BY <1>0, <2>1, ZenonT(40) DEF Add, Service
    <3> HIDE DEF t
    <3> QED BY <1>2, <3>1
  <2> QED BY <1>1, <1>4, <2>1 DEF Request, RemoveRead, Bind, Detach, Delete
<1>5. ASSUME NEW o \in Ops, Progress(o) PROVE AllGrow
  <2>1. CASE ProviderStep(o)
    BY <2>1, ProviderGrows
  <2>2. CASE RemoveLock(o) \/ BindEnv(o) \/ Persist(o) \/ Publish(o) \/ DeleteSaved(o)
    BY <1>1, <2>2 DEF RemoveLock, BindEnv, Persist, Publish, DeleteSaved
  <2>3. CASE Commit(o) \/ PersistBlocked(o) \/ Secret(o)
    <3>0. op[o].at \in LockSteps
      BY <2>3 DEF Commit, PersistBlocked, Secret, LockSteps
    <3>1. S(o) \in Service /\ Grows(S(o), S(o))
      BY <3>0, Holding DEF Grows, DbGrows
    <3>2. CASE Commit(o) \/ PersistBlocked(o)
      BY <3>1, <3>2, OpGrows DEF Commit, PersistBlocked
    <3>4. CASE Secret(o)
      <4> DEFINE made == [S(o) EXCEPT !.secret = IF @ = "none" THEN "dir" ELSE @]
      <4>1. made \in Service /\ made.db = S(o).db /\ made.desired = S(o).desired
        BY <3>1, ServiceFields DEF Service
      <4>2. \A sec \in {"dir", "active"} :
              LET t == [made EXCEPT !.secret = sec]
              IN  t \in Service /\ t.db = S(o).db /\ t.desired = S(o).desired
        <5> HIDE DEF made
        <5> QED BY <4>1 DEF Service
      <4>3. Grows(S(o), made) /\ \A sec \in {"dir", "active"} :
                                   Grows(S(o), [made EXCEPT !.secret = sec])
        BY <4>1, <4>2 DEF Grows, DbGrows
      <4>4. \/ Advance(o, S(o), "dir") \/ Fail(o, made, "blocked")
            \/ Advance(o, [made EXCEPT !.secret = "active"], "dir")
            \/ \E sec \in {"dir", "active"} : Fail(o, [made EXCEPT !.secret = sec], "internal")
        BY <3>4 DEF Secret
      <4> HIDE DEF made
      <4> QED BY <3>1, <4>1, <4>2, <4>3, <4>4, OpGrows
    <3> QED BY <2>3, <3>2, <3>4
  <2>4. CASE RemoveCheck(o) \/ BindRecord(o)
    <3>1. op[o].svc \in Names => S(o) \in Service /\ Grows(S(o), S(o))
      BY <1>0 DEF S, Grows, DbGrows
    <3>2. op[o].svc \in Names
      BY <2>4 DEF RemoveCheck, BindRecord, CoreInv, OpFacts, Placed
    <3> QED BY <1>1, <2>4, <3>1, <3>2, OpGrows DEF RemoveCheck, BindRecord
  <2> QED BY <1>5, <2>1, <2>2, <2>3, <2>4 DEF Progress
<1>6. CASE Cut
  <2>1. CASE Crash
    <3>1. ASSUME NEW n \in Names PROVE Grows(svc[n], svc'[n])
      <4>1. svc'[n] \in {svc[n]} \cup IF svcLock[n] = Nil THEN {} ELSE Landed(svcLock[n])
        BY <2>1 DEF Crash
      <4>2. CASE svc'[n] = svc[n]
        BY <4>2 DEF Grows, DbGrows
      <4>3. CASE svcLock[n] # Nil /\ svc'[n] \in Landed(svcLock[n])
        <5>1. svcLock[n] \in Ops /\ S(svcLock[n]) = svc[n]
          BY <4>3 DEF CoreInv, CoreType, LocksKnown, S
        <5> QED BY <4>3, <5>1, LandedGrows
      <4> QED BY <4>1, <4>2, <4>3
    <3> QED BY <3>1 DEF AllGrow
  <2>2. ASSUME NEW o \in Ops, Deadline(o) \/ Disconnect(o) PROVE AllGrow
    BY <2>2, AbandonGrows DEF Deadline, Disconnect
  <2> QED BY <1>6, <2>1, <2>2 DEF Cut
<1>7. CASE Tick \/ \E n \in Names : Ensure(n)
  BY <1>1, <1>7 DEF Tick, Ensure
<1> QED BY <1>3, <1>4, <1>5, <1>6, <1>7 DEF Next

-----------------------------------------------------------------------------
(* Bindings and configs of apps.                                           *)

\* The variables of a binding are recorded only once the whole script ran.
GivenWorks ==
  \A a \in Apps : record[a] # Nil /\ record[a].env =>
    LET d == svc[record[a].svc].db[a] IN d.role /\ d.exists /\ d.open

\* Where the records stay.
LEMMA RecordsStay ==
  ASSUME AppType, GivenWorks, ClustersGrow, record' = record
  PROVE  GivenWorks'
<1>1. ASSUME NEW a \in Apps, record[a] # Nil, record[a].env
      PROVE  LET d == svc'[record[a].svc].db[a] IN d.role /\ d.exists /\ d.open
  <2>1. record[a].svc \in Names
    BY <1>1 DEF AppType, Record
  <2>2. LET d == svc[record[a].svc].db[a] IN d.role /\ d.exists /\ d.open
    BY <1>1 DEF GivenWorks
  <2> QED BY <2>1, <2>2 DEF ClustersGrow, DbGrows
<1> QED BY <1>1 DEF GivenWorks

\* The record of one app is written.
LEMMA RecordWritten ==
  ASSUME AppType, GivenWorks, ClustersGrow, NEW a \in Apps, NEW r \in Record \cup {Nil},
         record' = [record EXCEPT ![a] = r],
         \/ r = record[a]
         \/ ~r.env
         \/ LET d == svc'[r.svc].db[a] IN d.role /\ d.exists /\ d.open
  PROVE  GivenWorks' /\ record' \in [Apps -> Record \cup {Nil}]
<1>1. record' \in [Apps -> Record \cup {Nil}] /\ record'[a] = r
      /\ \A b \in Apps \ {a} : record'[b] = record[b]
  BY DEF AppType
<1>2. ASSUME NEW b \in Apps, record'[b] # Nil, record'[b].env
      PROVE  LET d == svc'[record'[b].svc].db[b] IN d.role /\ d.exists /\ d.open
  <2>1. CASE record'[b] = record[b]
    <3>1. record[b].svc \in Names
      BY <1>2, <2>1 DEF AppType, Record
    <3>2. LET d == svc[record[b].svc].db[b] IN d.role /\ d.exists /\ d.open
      BY <1>2, <2>1 DEF GivenWorks
    <3> QED BY <2>1, <3>1, <3>2 DEF ClustersGrow, DbGrows
  <2>2. CASE record'[b] # record[b]
    BY <1>1, <1>2, <2>2
  <2> QED BY <2>1, <2>2
<1> QED BY <1>1, <1>2 DEF GivenWorks

AppInv == AppType /\ GivenWorks

\* The steps that write a record.
LEMMA BindsApp ==
  ASSUME CoreInv, AppInv, ClustersGrow, NEW o \in Ops, BindRecord(o) \/ BindEnv(o)
  PROVE  AppInv'
<1>1. CASE UNCHANGED appVars
  BY <1>1, RecordsStay DEF AppInv, AppType, appVars
<1>2. CASE BindEnv(o)
  <2> DEFINE r == [svc |-> op[o].svc, env |-> TRUE]
  <2>1. op[o].at = "envsave" /\ op[o].at \in LockSteps
    BY <1>2 DEF BindEnv, LockSteps
  <2>2. op[o].svc \in Names /\ Placed(op[o]) /\ KnownAt("envsave", op[o].seen, op[o].app, S(o))
    BY <2>1, Holding DEF Knows
  <2>3. op[o].app \in Apps /\ r \in Record /\ r.svc = op[o].svc /\ svc' = svc
    BY <1>2, <2>1, <2>2 DEF Placed, Record, BindEnv
  <2>4. LET d == svc'[r.svc].db[op[o].app] IN d.role /\ d.exists /\ d.open
    BY <2>2, <2>3 DEF KnownAt, S
  <2>5. record' = [record EXCEPT ![op[o].app] = r] /\ UNCHANGED <<live, saved, forced, todo>>
    BY <1>2 DEF BindEnv
  <2> HIDE DEF r
  <2> QED BY <2>3, <2>4, <2>5, RecordWritten DEF AppInv, AppType
<1>3. CASE BindRecord(o) /\ ~UNCHANGED appVars
  <2> DEFINE a == op[o].app
             r == IF record[a] = Nil THEN [svc |-> op[o].svc, env |-> FALSE] ELSE record[a]
  <2>1. op[o].svc \in Names /\ a \in Apps
    BY <1>3 DEF BindRecord, CoreInv, OpFacts, Placed
  <2>2. record' = [record EXCEPT ![a] = r] /\ UNCHANGED <<live, saved, forced, todo>>
    BY <1>3, <2>1 DEF BindRecord, AppInv, AppType
  <2>3. r \in Record \cup {Nil} /\ (r = record[a] \/ ~r.env)
    <3>1. CASE record[a] = Nil
      <4>1. r = [svc |-> op[o].svc, env |-> FALSE]
        BY <3>1
      <4> HIDE DEF r, a
      <4>2. r \in Record
        BY <2>1, <4>1 DEF Record
      <4>3. r.env = FALSE
        BY <4>1
      <4> QED BY <4>2, <4>3
    <3>2. CASE record[a] # Nil
      BY <2>1, <3>2 DEF AppInv, AppType
    <3> QED BY <3>1, <3>2
  <2> HIDE DEF r
  <2> QED BY <2>1, <2>2, <2>3, RecordWritten DEF AppInv, AppType
<1> QED BY <1>1, <1>2, <1>3

\* The maps of configs stay maps of booleans.
LEMMA ConfigSet ==
  ASSUME NEW f \in [Apps -> BOOLEAN], NEW a, NEW b \in BOOLEAN
  PROVE  [f EXCEPT ![a] = b] \in [Apps -> BOOLEAN]
  OBVIOUS

\* Every step keeps records and configs well-formed and their credentials working.
LEMMA NextApp ==
  ASSUME CoreInv, AppInv, [Next]_vars
  PROVE  AppInv'
<1>1. CASE UNCHANGED vars
  BY <1>1 DEF vars, appVars, AppInv, AppType, GivenWorks
<1>2. CASE Next
  <2>1. ClustersGrow
    BY <1>2, NextGrows, RetainGrows DEF ClustersGrow, AllGrow, Grows
  <2>2. CASE \E o \in Ops : BindRecord(o) \/ BindEnv(o)
    BY <2>1, <2>2, BindsApp
  <2>3. ASSUME record' = record, live' \in [Apps -> BOOLEAN], saved' \in [Apps -> BOOLEAN],
               forced' \in SUBSET Names, todo' \in SUBSET Names
        PROVE  AppInv'
    BY <2>1, <2>3, RecordsStay DEF AppInv, AppType
  <2>4. CASE UNCHANGED appVars
    BY <2>3, <2>4 DEF appVars, AppInv, AppType
  <2>5. CASE Tick \/ \E n \in Names : Ensure(n)
    <3>1. env.names \subseteq Names
      BY ServicesAssumption DEF CoreInv, CoreType
    <3> QED BY <2>3, <2>5, <3>1 DEF Tick, Ensure, AppInv, AppType
  <2>6. ASSUME NEW o \in Ops, Request(o) PROVE AppInv'
    BY <2>3, <2>4, <2>6, ConfigSet
       DEF Request, Add, RemoveRead, Bind, Detach, Delete, AppInv, AppType
  <2>7. ASSUME NEW o \in Ops, Retain(o) \/ Persist(o) \/ Publish(o) \/ DeleteSaved(o)
        PROVE  AppInv'
    <3>1. CASE Retain(o)
      <4>1. op[o].svc \in Names
        BY <3>1 DEF Retain, CoreInv, OpFacts, Placed, LockSteps
      <4> QED BY <2>3, <3>1, <4>1 DEF Retain, AppInv, AppType
    <3>2. CASE Persist(o) \/ Publish(o) \/ DeleteSaved(o)
      BY <2>3, <3>2, ConfigSet DEF Persist, Publish, DeleteSaved, AppInv, AppType
    <3> QED BY <2>7, <3>1, <3>2
  <2>8. ASSUME NEW o \in Ops, Deadline(o) \/ Disconnect(o) PROVE AppInv'
    BY <2>3, <2>4, <2>8, ConfigSet DEF Deadline, Disconnect, AppInv, AppType
  <2>9. CASE Crash
    BY <2>3, <2>9 DEF Crash, AppInv, AppType
  <2>10. CASE \/ \E n \in Names : Up(n) \/ World(n)
             \/ \E o \in Ops : \/ ProviderStep(o) /\ UNCHANGED appVars
                              \/ Commit(o) \/ PersistBlocked(o) \/ Secret(o)
                              \/ RemoveLock(o) \/ RemoveCheck(o)
    BY <2>4, <2>10 DEF Up, World, Commit, PersistBlocked, Secret, RemoveLock, RemoveCheck
  <2>11. CASE Cut
    BY <2>8, <2>9, <2>11 DEF Cut
  <2>12. ASSUME NEW o \in Ops, Progress(o) PROVE AppInv'
    BY <2>2, <2>7, <2>10, <2>12 DEF Progress
  <2> QED BY <1>2, <2>5, <2>6, <2>10, <2>11, <2>12 DEF Next
<1> QED BY <1>1, <1>2

\* Records, configs and the core, together.
LEMMA AppInvariant == Spec => [](CoreInv /\ AppInv)
<1>1. Init => CoreInv /\ AppInv
  BY InitCore DEF Init, AppInv, AppType, GivenWorks
<1>2. (CoreInv /\ AppInv) /\ [Next]_vars => (CoreInv /\ AppInv)'
  BY NextCore, NextApp
<1> QED BY <1>1, <1>2, PTL DEF Spec

\* Type correctness, and who may hold which lock: a service's lock is held by an
\* operation on that service, the bindings lock by a remove, a bind or a detach.
THEOREM ServicesTypes == Spec => []TypeOK
<1>1. CoreInv /\ AppInv => TypeOK
  BY DEF CoreInv, CoreType, LocksKnown, AppInv, AppType, TypeOK
<1> QED BY <1>1, AppInvariant, PTL

\* The variables an app is given work: the role and the database exist, open to
\* the app and closed to PUBLIC, however the script or slipd was interrupted.
THEOREM CredentialsWork == Spec => []BoundCredentialsWork
<1>1. CoreInv /\ AppInv => BoundCredentialsWork
  BY DEF CoreInv, Sound, AppInv, GivenWorks, BoundCredentialsWork
<1> QED BY <1>1, AppInvariant, PTL

-----------------------------------------------------------------------------
(* The lease: a service that is used is not removed.                       *)

\* Scenarios in which the config file never names a service that the apps map
\* does not, outside the lease: a request that is cut short at persist_app and an
\* app delete both leave the file behind, and a restart loads it.
Apart(e) == "crash" \in e.events => "disconnect" \notin e.events /\ "delete" \notin e.kinds

Kept(n) == svc[n].desired \/ n \in forced

\* The services that the declared bindings name are kept.
Uses(declared) == \A a \in Apps : declared[a] /\ record[a] # Nil => Kept(record[a].svc)

\* The steps at which an operation holds the bindings lock.
LeaseSteps == SqlParts \cup {"record", "envsave", "persist", "publish",
                             "check", "stop", "retain"}

\* What a bind has established once it went past its record, and a remove once it
\* went past its check.
LeaseFacts(o) ==
  /\ op[o].at \in LeaseSteps => bindLock = o
  /\ op[o].at \in {"persist", "publish"} => op[o].kind \in {"bind", "detach"}
  /\ op[o].at \in {"stop", "retain"} => op[o].kind = "remove"
  /\ op[o].at = "unsave" => "delete" \in env.kinds
  /\ op[o].kind = "bind" /\ op[o].at \in SqlParts \cup {"envsave", "persist", "publish"} =>
       /\ op[o].svc \in Names /\ svc[op[o].svc].desired
       /\ record[op[o].app] # Nil /\ record[op[o].app].svc = op[o].svc
  /\ op[o].at \in {"stop", "retain"} => op[o].force \/ Users(op[o].svc) = {}
  /\ op[o].at = "publish" /\ "crash" \in env.events
       => saved[op[o].app] = (op[o].kind = "bind")

Publishing(a) == bindLock # Nil /\ op[bindLock].app = a /\ op[bindLock].at = "publish"

\* The file and the map agree, but for the app that is being committed.
Agree == \A a \in Apps : saved[a] = live[a] \/ Publishing(a)

UseInv ==
  /\ Uses(live)
  /\ "crash" \in env.events => Uses(saved) /\ Agree
  /\ \A o \in Ops : LeaseFacts(o)

\* The other operations keep what they established, unless o holds the lease.
LEMMA LeaseOthers ==
  ASSUME CoreInv, AppInv, UseInv, NEW o \in Ops, OthersStale(o), UNCHANGED env,
         NEW p \in Ops \ {o}, bindLock = p => bindLock' = p,
         \/ bindLock = o
         \/ /\ record' = record /\ AllGrow /\ \A a \in Apps : live'[a] => live[a]
            /\ "crash" \in env.events => saved' = saved
  PROVE  LeaseFacts(p)'
<1>1. op[p] \in Operation /\ LeaseFacts(p) /\ Placed(op[p])
  BY DEF CoreInv, CoreType, UseInv, OpFacts
<1>2. /\ op'[p].at = op[p].at /\ op'[p].kind = op[p].kind /\ op'[p].svc = op[p].svc
      /\ op'[p].app = op[p].app /\ op'[p].force = op[p].force
  BY <1>1 DEF OthersStale, Operation
<1>3. CASE op[p].at \notin LeaseSteps
  BY <1>1, <1>2, <1>3 DEF LeaseFacts, LeaseSteps
<1>4. CASE op[p].at \in LeaseSteps
  <2>1. bindLock = p /\ bindLock' = p /\ bindLock # o
    BY <1>1, <1>4 DEF LeaseFacts
  <2>2. /\ record' = record /\ AllGrow /\ \A a \in Apps : live'[a] => live[a]
        /\ "crash" \in env.events => saved' = saved
    BY <2>1
  <2>3. op[p].svc \in Names /\ svc[op[p].svc].desired => svc'[op[p].svc].desired
    BY <2>2 DEF AllGrow, Grows
  <2>4. Users(op[p].svc) = {} => Users(op[p].svc)' = {}
    BY <1>2, <2>2 DEF Users
  <2>5. op[p].at # "unsave"
    BY <1>4 DEF LeaseSteps, SqlParts
  <2> QED BY <1>1, <1>2, <2>1, <2>2, <2>3, <2>4, <2>5 DEF LeaseFacts
<1> QED BY <1>3, <1>4

\* An operation that is over holds no lease.
Ended(o) == op'[o] = NoOp /\ OthersStale(o) /\ bindLock' = Unleased(o)

\* An operation goes on from step x to step y without a new lease.
LeaseOn(x, y) ==
  \/ y \notin LeaseSteps \cup {"unsave"}
  \/ x = "stop" /\ y = "retain"
  \/ x \in SqlParts /\ y \in SqlParts \cup {"envsave"}
  \/ x = "envsave" /\ y = "persist"

GoesTo(o) ==
  /\ bindLock' = bindLock /\ OthersStale(o)
  /\ op'[o].kind = op[o].kind /\ op'[o].svc = op[o].svc /\ op'[o].app = op[o].app
  /\ op'[o].force = op[o].force /\ LeaseOn(op[o].at, op'[o].at)

\* Nothing is known of a slot that is empty.
LEMMA EndedFacts == ASSUME NEW o, Ended(o) PROVE LeaseFacts(o)'
  BY DEF Ended, LeaseFacts, LeaseSteps, SqlParts, NoOp

\* Where an operation goes on and no app changes.
LEMMA GoesToFacts ==
  ASSUME CoreInv, UseInv, NEW o \in Ops, GoesTo(o), AllGrow, UNCHANGED <<record, live>>
  PROVE  LeaseFacts(o)'
<1>1. LeaseFacts(o) /\ Placed(op[o])
  BY DEF UseInv, CoreInv, OpFacts
<1>2. CASE op'[o].at \notin LeaseSteps \cup {"unsave"}
  BY <1>2 DEF LeaseFacts, LeaseSteps
<1>3. CASE op[o].at = "stop" /\ op'[o].at = "retain"
  <2>1. Users(op[o].svc)' = Users(op[o].svc)
    BY DEF Users, GoesTo
  <2> QED BY <1>1, <1>3, <2>1 DEF GoesTo, LeaseFacts, LeaseSteps, SqlParts
<1>4. CASE /\ op[o].at \in SqlParts \cup {"envsave"}
           /\ op'[o].at \in SqlParts \cup {"envsave", "persist"}
  <2>1. op[o].kind = "bind" /\ op[o].at \in LeaseSteps
    BY <1>1, <1>4 DEF Placed, LeaseSteps
  <2>2. bindLock = o /\ op[o].svc \in Names /\ svc[op[o].svc].desired
        /\ record[op[o].app] # Nil /\ record[op[o].app].svc = op[o].svc
    BY <1>1, <1>4, <2>1 DEF LeaseFacts
  <2>3. svc'[op[o].svc].desired
    BY <2>2 DEF AllGrow, Grows
  <2>4. op'[o].at \notin {"stop", "retain", "unsave", "publish"}
    BY <1>4 DEF SqlParts
  <2> QED BY <2>1, <2>2, <2>3, <2>4 DEF GoesTo, LeaseFacts
<1> QED BY <1>2, <1>3, <1>4 DEF GoesTo, LeaseOn

\* Services are kept where none is retained.
LEMMA KeptStays ==
  ASSUME AppInv, AllGrow, record' = record, forced' = forced
  PROVE  \A a \in Apps : record[a] # Nil /\ Kept(record[a].svc) => Kept(record[a].svc)'
<1>1. \A a \in Apps : record[a] # Nil => record[a].svc \in Names
  BY DEF AppInv, AppType, Record
<1> QED BY <1>1 DEF AllGrow, Grows, Kept

\* A step that changes no app.
LEMMA Calm ==
  ASSUME CoreInv, AppInv, UseInv, NEW o \in Ops, OthersStale(o), AllGrow,
         UNCHANGED <<env, record, live, saved, forced>>,
         op[o].at # "publish", \A p \in Ops \ {o} : bindLock = p => bindLock' = p,
         LeaseFacts(o)'
  PROVE  UseInv'
<1>1. \A p \in Ops \ {o} : LeaseFacts(p)'
  BY LeaseOthers
<1>2. Uses(live)' /\ (Uses(saved) => Uses(saved)')
  BY KeptStays DEF UseInv, Uses
<1>3. ASSUME Agree PROVE Agree'
  <2>1. ASSUME NEW a \in Apps, Publishing(a) PROVE Publishing(a)'
    <3>1. bindLock \in Ops \ {o} /\ op[bindLock] \in Operation
      BY <2>1 DEF Publishing, CoreInv, CoreType
    <3>2. bindLock' = bindLock
      BY <3>1
    <3>3. op'[bindLock].at = op[bindLock].at /\ op'[bindLock].app = op[bindLock].app
      BY <3>1 DEF OthersStale, Operation
    <3> QED BY <2>1, <3>2, <3>3 DEF Publishing
  <2> QED BY <1>3, <2>1 DEF Agree
<1> QED BY <1>1, <1>2, <1>3 DEF UseInv

\* An operation ends, or goes on, and no app changes.
LEMMA CalmStep ==
  ASSUME CoreInv, AppInv, UseInv, NEW o \in Ops, AllGrow, op[o].at # "publish",
         UNCHANGED <<env, record, live, saved, forced>>, Ended(o) \/ GoesTo(o)
  PROVE  UseInv'
<1>1. LeaseFacts(o)'
  BY EndedFacts, GoesToFacts
<1>2. OthersStale(o) /\ \A p \in Ops \ {o} : bindLock = p => bindLock' = p
  BY DEF Ended, GoesTo, Unleased
<1> QED BY <1>1, <1>2, Calm

\* The shapes of a step of an operation.
LEMMA Shapes ==
  ASSUME CoreInv, NEW o \in Ops, NEW t, NEW u
  PROVE  /\ LeaseOn(op[o].at, u) /\ Advance(o, t, u) => GoesTo(o)
         /\ Finish(o, t) => Ended(o)
         /\ FinishCas(o, t, u) => Ended(o)
         /\ Fail(o, t, u) => Ended(o) \/ GoesTo(o)
         /\ Abandon(o, t) => Ended(o)
<1>0. op \in [Ops -> Operation] /\ op[o] \in Operation
  BY DEF CoreInv, CoreType
<1>1. ASSUME NEW at, LeaseOn(op[o].at, at), Advance(o, t, at) PROVE GoesTo(o)
  BY <1>0, <1>1 DEF Advance, GoesTo, OthersStale, Operation
<1>2. ASSUME Finish(o, t) PROVE Ended(o)
  BY <1>0, <1>2 DEF Finish, Ended, OthersStale
<1>3. ASSUME FinishCas(o, t, u) PROVE Ended(o)
  <2>1. CASE op[o].fresh
    BY <1>0, <1>3, <2>1 DEF FinishCas, AfterWrite, Ended, OthersStale
  <2>2. CASE ~op[o].fresh
    BY <1>2, <1>3, <2>2 DEF FinishCas
  <2> QED BY <2>1, <2>2
<1>4. ASSUME Fail(o, t, u) PROVE Ended(o) \/ GoesTo(o)
  <2>1. LeaseOn(op[o].at, "failed")
    BY DEF LeaseOn, LeaseSteps, SqlParts
  <2> QED BY <1>1, <1>2, <1>4, <2>1 DEF Fail
<1>5. ASSUME Abandon(o, t) PROVE Ended(o)
  BY <1>0, <1>5 DEF Abandon, Ended, OthersStale
<1> QED BY <1>1, <1>2, <1>3, <1>4, <1>5

\* The provider's steps take no lease and give it up only at the end.
LEMMA ProviderShape ==
  ASSUME CoreInv, NEW o \in Ops, ProviderStep(o)
  PROVE  Ended(o) \/ GoesTo(o)
<1>0. op \in [Ops -> Operation] /\ op[o] \in Operation
  BY DEF CoreInv, CoreType
<1>1. ASSUME NEW q \in Operation, op' = [op EXCEPT ![o] = q], bindLock' = bindLock,
             q.kind = op[o].kind, q.svc = op[o].svc, q.app = op[o].app,
             q.force = op[o].force, q.at \notin LeaseSteps \cup {"unsave"}
      PROVE  GoesTo(o)
  BY <1>0, <1>1 DEF GoesTo, OthersStale, LeaseOn
<1>2. \A y \in {"marker", "create", "ready", "wait", "finalize", "commit", "start", "dir"} :
        y \notin LeaseSteps \cup {"unsave"} /\ LeaseOn(op[o].at, y)
  BY DEF LeaseOn, LeaseSteps, SqlParts
<1>3. CASE DataDir(o)
  <2>1. CASE \E e : Fail(o, S(o), e)
    BY <2>1, Shapes
  <2>2. CASE /\ op' = [op EXCEPT ![o].at = "marker", ![o].made = (S(o).data = "absent")]
             /\ bindLock' = bindLock
    <3> DEFINE q == [op[o] EXCEPT !.at = "marker", !.made = (S(o).data = "absent")]
    <3>1. /\ q \in Operation /\ q.kind = op[o].kind /\ q.svc = op[o].svc
          /\ q.app = op[o].app /\ q.force = op[o].force /\ q.at = "marker"
          /\ op' = [op EXCEPT ![o] = q]
      BY <1>0, <2>2, ZenonT(40) DEF Operation, Steps
    <3> HIDE DEF q
    <3> QED BY <1>1, <1>2, <2>2, <3>1
  <2> QED BY <1>3, <2>1, <2>2 DEF DataDir
<1>4. CASE Marker(o) \/ AwaitReady(o) \/ Finalize(o) \/ Start(o)
  BY <1>2, <1>4, Shapes DEF Marker, AwaitReady, Finalize, Start
<1>5. CASE CreateService(o)
  <2>1. CASE \E e, t : Fail(o, t, e)
    BY <2>1, Shapes
  <2>2. CASE /\ op' = [op EXCEPT ![o].at = "ready", ![o].cid = FreshId(S(o))]
             /\ bindLock' = bindLock
    <3> DEFINE q == [op[o] EXCEPT !.at = "ready", !.cid = FreshId(S(o))]
    <3>1. /\ q \in Operation /\ q.kind = op[o].kind /\ q.svc = op[o].svc
          /\ q.app = op[o].app /\ q.force = op[o].force /\ q.at = "ready"
          /\ op' = [op EXCEPT ![o] = q]
      BY <1>0, <2>2, FreshIdType DEF Operation, Steps
    <3> HIDE DEF q
    <3> QED BY <1>1, <1>2, <2>2, <3>1
  <2> QED BY <1>5, <2>1, <2>2 DEF CreateService
<1>6. CASE Inspect(o)
  <2>1. CASE \E e : Fail(o, S(o), e)
    BY <2>1, Shapes
  <2>2. CASE Advance(o, S(o), "dir")
    BY <1>2, <2>2, Shapes
  <2>3. CASE /\ op' = [op EXCEPT ![o].cid = op[o].seen.cid,
                         ![o].at = IF S(o).ctr.ready THEN "commit"
                                   ELSE IF S(o).ctr.running THEN "wait" ELSE "start"]
             /\ bindLock' = bindLock
    <3> DEFINE at == IF S(o).ctr.ready THEN "commit"
                     ELSE IF S(o).ctr.running THEN "wait" ELSE "start"
    <3>1. at \in {"commit", "wait", "start"}
      OBVIOUS
    <3>2. op' = [op EXCEPT ![o].cid = op[o].seen.cid, ![o].at = at]
      BY <2>3
    <3> HIDE DEF at
    <3>3. /\ op'[o].kind = op[o].kind /\ op'[o].svc = op[o].svc /\ op'[o].app = op[o].app
          /\ op'[o].force = op[o].force /\ op'[o].at = at /\ OthersStale(o)
      BY <1>0, <3>2 DEF Operation, OthersStale
    <3> QED BY <1>2, <2>3, <3>1, <3>3 DEF GoesTo
  <2> QED BY <1>6, <2>1, <2>2, <2>3 DEF Inspect
<1>7. CASE Stop(o)
  <2>1. op[o].at = "stop" => LeaseOn(op[o].at, "retain")
    BY DEF LeaseOn
  <2> QED BY <1>7, <2>1, Shapes DEF Stop
<1>8. CASE Sql(o)
  <2>1. op[o].at \in SqlParts => AfterPart(op[o].at) \in SqlParts \cup {"envsave"}
    BY DEF SqlParts, AfterPart
  <2>2. op[o].at \in SqlParts => LeaseOn(op[o].at, AfterPart(op[o].at))
    BY <2>1 DEF LeaseOn
  <2> QED BY <1>8, <2>2, Shapes DEF Sql
<1> QED BY <1>3, <1>4, <1>5, <1>6, <1>7, <1>8 DEF ProviderStep

\* An operation that gives up.
LEMMA GivesUp ==
  ASSUME CoreInv, AppInv, UseInv, NEW o \in Ops, AllGrow, op[o].at # "publish",
         UNCHANGED <<env, record, live, saved, forced>>, NEW s, Finish(o, s)
  PROVE  UseInv'
  BY Shapes, CalmStep

\* Nothing of the lease changes.
LEMMA UseSame ==
  ASSUME CoreInv, AppInv, UseInv, AllGrow,
         UNCHANGED <<env, op, bindLock, record, live, saved, forced>>
  PROVE  UseInv'
<1>1. Uses(live)' /\ (Uses(saved) => Uses(saved)')
  BY KeptStays DEF UseInv, Uses
<1>2. ASSUME NEW o \in Ops PROVE LeaseFacts(o)'
  <2>1. LeaseFacts(o)
    BY DEF UseInv
  <2>2. op[o].svc \in Names /\ svc[op[o].svc].desired => svc'[op[o].svc].desired
    BY DEF AllGrow, Grows
  <2>3. Users(op[o].svc)' = Users(op[o].svc)
    BY DEF Users
  <2> QED BY <2>1, <2>2, <2>3 DEF LeaseFacts
<1>3. Agree => Agree'
  BY DEF Agree, Publishing
<1> QED BY <1>1, <1>2, <1>3 DEF UseInv

\* A new operation, of a kind that needs no lease or that takes it.
LEMMA BeginsUse ==
  ASSUME CoreInv, AppInv, UseInv, NEW o \in Ops, op[o].kind = "none", OthersStale(o), AllGrow,
         UNCHANGED <<env, record, live, saved, forced>>,
         bindLock' = bindLock \/ (bindLock = Nil /\ bindLock' = o),
         \/ op'[o].at \notin LeaseSteps \cup {"unsave"}
         \/ bindLock' = o /\ op'[o].at = "record"
         \/ bindLock' = o /\ op'[o].at = "persist" /\ op'[o].kind = "detach"
  PROVE  UseInv'
<1>1. op[o].at # "publish"
  BY DEF CoreInv, OpFacts, Placed
<1>2. LeaseFacts(o)'
  <2>1. CASE op'[o].at \notin LeaseSteps \cup {"unsave"}
    BY <2>1 DEF LeaseFacts, LeaseSteps
  <2>2. CASE bindLock' = o /\ op'[o].at = "record"
    BY <2>2 DEF LeaseFacts, SqlParts
  <2>3. CASE bindLock' = o /\ op'[o].at = "persist" /\ op'[o].kind = "detach"
    BY <2>3 DEF LeaseFacts
  <2> QED BY <2>1, <2>2, <2>3
<1>3. \A p \in Ops \ {o} : bindLock = p => bindLock' = p
  BY NilApart
<1> QED BY <1>1, <1>2, <1>3, Calm

\* The record of a new operation, by its fields.
LEMMA BeginFields ==
  ASSUME NEW kind, NEW n, NEW a, NEW at
  PROVE  /\ Begin(kind, n, a, at).at = at /\ Begin(kind, n, a, at).kind = kind
         /\ Begin(kind, n, a, at).svc = n /\ Begin(kind, n, a, at).app = a
  BY DEF Begin, NoOp

\* A service is added: from now on it is there.
LEMMA AddUse ==
  ASSUME CoreInv, AppInv, UseInv, AllGrow, NEW o \in Ops, NEW n \in Names, Add(o, n),
         UNCHANGED env
  PROVE  UseInv'
<1> DEFINE b == Begin("add", n, Nil, "secret")
           q == [b EXCEPT !.seen = AddedRow(svc[n]), !.fresh = TRUE, !.back = svc[n].row # Nil]
<1>1. b \in Operation /\ b.at = "secret" /\ b.kind = "add"
  BY BeginType DEF OpKinds, Steps
<1>2. op' = AfterWrite(o, n, q) /\ op[o].kind = "none" /\ bindLock' = bindLock
      /\ forced' = forced \ {n} /\ UNCHANGED <<record, live, saved>>
  BY DEF Add, Idle
<1> HIDE DEF b
<1>3. q.at = "secret"
  BY <1>1 DEF Operation
<1> HIDE DEF q
<1>4. op'[o] = q /\ OthersStale(o)
  BY <1>2 DEF AfterWrite, OthersStale
<1>5. op[o].at # "publish"
  BY <1>2 DEF CoreInv, OpFacts, Placed
<1>6. LeaseFacts(o)'
  BY <1>3, <1>4 DEF LeaseFacts, LeaseSteps, SqlParts
<1>7. \A p \in Ops \ {o} : LeaseFacts(p)'
  BY <1>2, <1>4, LeaseOthers
<1>8. svc'[n].desired
  BY DEF Add, CoreInv, CoreType, Service
<1>9. Uses(live)' /\ (Uses(saved) => Uses(saved)')
  <2>1. \A a \in Apps : record[a] # Nil /\ Kept(record[a].svc) => Kept(record[a].svc)'
    <3>1. \A a \in Apps : record[a] # Nil => record[a].svc \in Names
      BY DEF AppInv, AppType, Record
    <3> QED BY <1>2, <1>8, <3>1 DEF AllGrow, Grows, Kept
  <2> QED BY <1>2, <2>1 DEF UseInv, Uses
<1>10. Agree => Agree'
  <2>1. ASSUME NEW a \in Apps, Publishing(a) PROVE Publishing(a)'
    <3>1. bindLock \in Ops \ {o} /\ op[bindLock] \in Operation
      BY <1>5, <2>1 DEF Publishing, CoreInv, CoreType
    <3>2. op'[bindLock].at = op[bindLock].at /\ op'[bindLock].app = op[bindLock].app
      BY <1>4, <3>1 DEF OthersStale, Operation
    <3> QED BY <1>2, <2>1, <3>2 DEF Publishing
  <2> QED BY <1>2, <2>1 DEF Agree
<1> QED BY <1>2, <1>6, <1>7, <1>9, <1>10 DEF UseInv

\* The other requests begin.
LEMMA RequestUse ==
  ASSUME CoreInv, AppInv, UseInv, AllGrow, NEW o \in Ops, Request(o), UNCHANGED env,
         Apart(env)
  PROVE  UseInv'
<1>0. op \in [Ops -> Operation]
  BY DEF CoreInv, CoreType
<1>1. ASSUME NEW n \in Names, Add(o, n) PROVE UseInv'
  BY <1>1, AddUse
<1>2. ASSUME NEW n \in Names, NEW force \in BOOLEAN, RemoveRead(o, n, force) PROVE UseInv'
  <2> DEFINE b == Begin("remove", n, Nil, "request")
             q == [b EXCEPT !.fresh = TRUE, !.force = force]
  <2>1. b \in Operation /\ b.at = "request"
    BY BeginType DEF OpKinds, Steps
  <2>2. op' = [op EXCEPT ![o] = q] /\ op[o].kind = "none" /\ bindLock' = bindLock
        /\ UNCHANGED <<record, live, saved, forced>>
    BY <1>2 DEF RemoveRead, Idle, appVars
  <2> HIDE DEF b
  <2>3. q.at = "request"
    BY <2>1 DEF Operation
  <2> HIDE DEF q
  <2>4. op'[o].at = "request" /\ OthersStale(o)
    BY <1>0, <2>2, <2>3 DEF OthersStale
  <2>5. "request" \notin LeaseSteps \cup {"unsave"}
    BY DEF LeaseSteps, SqlParts
  <2> QED BY <2>2, <2>4, <2>5, BeginsUse
<1>3. ASSUME NEW a \in Apps, Bind(o, a) PROVE UseInv'
  <2> DEFINE n == CHOOSE n \in Names : n \in Candidates(a)
  <2>1. op' = [op EXCEPT ![o] = Begin("bind", n, a, "record")] /\ op[o].kind = "none"
        /\ bindLock = Nil /\ bindLock' = o /\ UNCHANGED <<record, live, saved, forced>>
    BY <1>3 DEF Bind, Idle, appVars
  <2> HIDE DEF n
  <2>2. op'[o].at = "record" /\ OthersStale(o)
    BY <1>0, <2>1, BeginFields DEF OthersStale
  <2> QED BY <2>1, <2>2, BeginsUse
<1>4. ASSUME NEW a \in Apps, Detach(o, a) PROVE UseInv'
  <2>1. op' = [op EXCEPT ![o] = Begin("detach", Nil, a, "persist")] /\ op[o].kind = "none"
        /\ bindLock = Nil /\ bindLock' = o /\ UNCHANGED <<record, live, saved, forced>>
    BY <1>4 DEF Detach, Idle, appVars
  <2>2. op'[o].at = "persist" /\ op'[o].kind = "detach" /\ OthersStale(o)
    BY <1>0, <2>1, BeginFields DEF OthersStale
  <2> QED BY <2>1, <2>2, BeginsUse
<1>5. ASSUME NEW a \in Apps, Delete(o, a) PROVE UseInv'
  <2>1. op' = [op EXCEPT ![o] = Begin("delete", Nil, a, "unsave")] /\ op[o].kind = "none"
        /\ "delete" \in env.kinds /\ live' = [live EXCEPT ![a] = FALSE]
        /\ UNCHANGED <<bindLock, record, saved, forced>>
    BY <1>5 DEF Delete, Idle
  <2>2. op'[o].at = "unsave" /\ op'[o].kind = "delete" /\ OthersStale(o)
    BY <1>0, <2>1, BeginFields DEF OthersStale
  <2>3. "crash" \notin env.events
    BY <2>1 DEF Apart
  <2>4. \A b \in Apps : live'[b] => live[b]
    BY <2>1 DEF AppInv, AppType
  <2>5. LeaseFacts(o)'
    BY <2>1, <2>2 DEF LeaseFacts, LeaseSteps, SqlParts
  <2>6. \A p \in Ops \ {o} : LeaseFacts(p)'
    BY <2>1, <2>2, <2>3, <2>4, LeaseOthers
  <2>7. Uses(live)'
    BY <2>1, <2>4, KeptStays DEF UseInv, Uses
  <2> QED BY <2>3, <2>5, <2>6, <2>7 DEF UseInv
<1> QED BY <1>1, <1>2, <1>3, <1>4, <1>5 DEF Request

\* While o holds the lease and is not publishing, file and map agree.
LEMMA HolderAgrees ==
  ASSUME UseInv, NEW o, bindLock = o, op[o].at # "publish", "crash" \in env.events
  PROVE  Uses(saved) /\ \A a \in Apps : saved[a] = live[a]
  BY DEF UseInv, Agree, Publishing

\* remove takes the lease.
LEMMA RemoveLockUse ==
  ASSUME CoreInv, AppInv, UseInv, AllGrow, NEW o \in Ops, RemoveLock(o), UNCHANGED env
  PROVE  UseInv'
<1>1. op[o].at = "request" /\ op[o] \in Operation /\ op \in [Ops -> Operation]
  BY DEF RemoveLock, CoreInv, CoreType
<1>2. op' = [op EXCEPT ![o].at = "check"] /\ bindLock = Nil /\ bindLock' = o
      /\ UNCHANGED <<record, live, saved, forced>>
  BY DEF RemoveLock, appVars
<1>3. op'[o].at = "check" /\ op'[o].kind = op[o].kind /\ OthersStale(o)
  BY <1>1, <1>2 DEF Operation, OthersStale
<1>4. LeaseFacts(o)'
  BY <1>2, <1>3 DEF LeaseFacts, SqlParts
<1>5. \A p \in Ops \ {o} : bindLock = p => bindLock' = p
  BY <1>2, NilApart
<1> QED BY <1>1, <1>2, <1>3, <1>4, <1>5, Calm

\* Under the lock, remove finds the service unused or is forced.
LEMMA RemoveCheckUse ==
  ASSUME CoreInv, AppInv, UseInv, AllGrow, NEW o \in Ops, RemoveCheck(o), UNCHANGED env
  PROVE  UseInv'
<1>0. op[o].at = "check" /\ op[o] \in Operation /\ op \in [Ops -> Operation]
      /\ UNCHANGED <<record, live, saved, forced>>
  BY DEF RemoveCheck, CoreInv, CoreType, appVars
<1>1. CASE Finish(o, S(o))
  BY <1>0, <1>1, GivesUp
<1>2. CASE /\ Users(op[o].svc) = {} \/ op[o].force
           /\ op' = [op EXCEPT ![o].at = "stop", ![o].seen = S(o).row]
           /\ bindLock' = bindLock
  <2>1. bindLock = o /\ op[o].kind = "remove"
    BY <1>0 DEF UseInv, LeaseFacts, LeaseSteps, CoreInv, OpFacts, Placed
  <2>2. /\ op'[o].at = "stop" /\ op'[o].kind = op[o].kind /\ op'[o].svc = op[o].svc
        /\ op'[o].force = op[o].force /\ OthersStale(o)
    BY <1>0, <1>2 DEF Operation, OthersStale
  <2>3. Users(op[o].svc)' = Users(op[o].svc)
    BY <1>0, <2>2 DEF Users
  <2>4. LeaseFacts(o)'
    BY <1>2, <2>1, <2>2, <2>3 DEF LeaseFacts, SqlParts
  <2> QED BY <1>0, <1>2, <2>2, <2>4, Calm
<1> QED BY <1>1, <1>2 DEF RemoveCheck

\* The service goes: no app uses it, or it was forced.
LEMMA RetainUse ==
  ASSUME CoreInv, AppInv, UseInv, NEW o \in Ops, Retain(o), UNCHANGED env
  PROVE  UseInv'
<1> DEFINE n == op[o].svc
<1>1. op[o].at = "retain" /\ UNCHANGED <<record, live, saved>> /\ n \in Names
      /\ op[o].at \in LockSteps
  BY DEF Retain, CoreInv, OpFacts, Placed, LockSteps
<1>2. bindLock = o /\ (op[o].force \/ Users(n) = {})
  BY <1>1 DEF UseInv, LeaseFacts, LeaseSteps
<1>3. Ended(o)
  BY Shapes DEF Retain
<1>4. \A m \in Names : m # n => svc'[m] = svc[m]
  BY RetainGrows
<1>5. forced' = (IF op[o].force THEN forced \cup {n} ELSE forced)
  BY DEF Retain
<1>6. ASSUME NEW a \in Apps, live[a], record[a] # Nil PROVE Kept(record[a].svc)'
  <2>1. record[a].svc \in Names /\ Kept(record[a].svc)
    BY <1>6 DEF AppInv, AppType, Record, UseInv, Uses
  <2>2. CASE record[a].svc # n
    BY <1>1, <1>4, <1>5, <2>1, <2>2 DEF Kept
  <2>3. CASE record[a].svc = n
    <3>1. a \in Users(n)
      BY <1>6, <2>3 DEF Users
    <3> QED BY <1>1, <1>2, <1>5, <2>3, <3>1 DEF Kept
  <2> QED BY <2>2, <2>3
<1>7. Uses(live)'
  BY <1>1, <1>6 DEF Uses
<1>8. ASSUME "crash" \in env.events PROVE Uses(saved)' /\ Agree'
  <2>1. \A a \in Apps : saved[a] = live[a]
    BY <1>1, <1>2, <1>8, HolderAgrees
  <2> QED BY <1>1, <1>6, <2>1 DEF Uses, Agree
<1>9. LeaseFacts(o)'
  BY <1>3, EndedFacts
<1>10. \A p \in Ops \ {o} : LeaseFacts(p)'
  BY <1>2, <1>3, LeaseOthers DEF Ended
<1> QED BY <1>7, <1>8, <1>9, <1>10 DEF UseInv

\* The record of an app is written by the bind that holds the lease.
LEMMA RecordUse ==
  ASSUME CoreInv, AppInv, UseInv, AllGrow, NEW o \in Ops, bindLock = o, bindLock' = o,
         op[o].at # "publish", OthersStale(o), UNCHANGED <<env, live, saved, forced>>,
         op[o].app \in Apps, op[o].svc \in Names, svc'[op[o].svc].desired,
         \A a \in Apps : record'[a] = record[a] \/ a = op[o].app,
         record'[op[o].app] # Nil, record'[op[o].app].svc = op[o].svc,
         op'[o].svc = op[o].svc, op'[o].app = op[o].app, op'[o].kind = "bind",
         op'[o].at \in {"role", "persist"}
  PROVE  UseInv'
<1>1. \A a \in Apps : record'[a] # Nil /\ (record[a] # Nil => Kept(record[a].svc))
                        /\ (record'[a] = record[a] \/ a = op[o].app) => Kept(record[a].svc)'
  BY DEF AppInv, AppType, Record, AllGrow, Grows, Kept
<1>2. Uses(live)' /\ (Uses(saved) => Uses(saved)')
  BY <1>1 DEF UseInv, Uses
<1>3. "crash" \in env.events => Agree'
  BY HolderAgrees DEF Agree
<1>4. \A p \in Ops \ {o} : LeaseFacts(p)'
  BY LeaseOthers
<1>5. LeaseFacts(o)'
  BY DEF LeaseFacts, SqlParts
<1> QED BY <1>2, <1>3, <1>4, <1>5 DEF UseInv

\* bind finds the service, and keeps the lease.
LEMMA BindRecordUse ==
  ASSUME CoreInv, AppInv, UseInv, AllGrow, NEW o \in Ops, BindRecord(o), UNCHANGED env
  PROVE  UseInv'
<1> DEFINE a == op[o].app
           n == op[o].svc
<1>0. /\ op[o].at = "record" /\ op[o] \in Operation /\ op \in [Ops -> Operation]
      /\ a \in Apps /\ n \in Names /\ op[o].kind = "bind"
  BY DEF BindRecord, CoreInv, CoreType, OpFacts, Placed
<1>1. bindLock = o
  BY <1>0 DEF UseInv, LeaseFacts, LeaseSteps
<1>2. CASE Finish(o, S(o)) /\ UNCHANGED appVars
  BY <1>0, <1>2, GivesUp DEF appVars
<1>3. CASE ~(Finish(o, S(o)) /\ UNCHANGED appVars)
  <2>1. /\ svc[n].desired /\ (record[a] # Nil => record[a].svc = n)
        /\ record' = [record EXCEPT ![a] = IF @ = Nil THEN [svc |-> n, env |-> FALSE] ELSE @]
        /\ op' = [op EXCEPT ![o].at = "role", ![o].seen = svc[n].row]
        /\ UNCHANGED <<svc, bindLock, live, saved, forced>>
    BY <1>3 DEF BindRecord
  <2>2. /\ op'[o].at = "role" /\ op'[o].kind = "bind" /\ op'[o].svc = n
        /\ op'[o].app = a /\ OthersStale(o)
    BY <1>0, <2>1 DEF Operation, OthersStale
  <2>3. record'[a] # Nil /\ record'[a].svc = n
    <3>1. CASE record[a] = Nil
      <4>1. record'[a] = [svc |-> n, env |-> FALSE]
        BY <1>0, <2>1, <3>1 DEF AppInv, AppType
      <4>2. [svc |-> n, env |-> FALSE] \in Record
        BY <1>0 DEF Record
      <4>3. [svc |-> n, env |-> FALSE] # Nil
        BY <4>2, RecordAssumption
      <4>4. [svc |-> n, env |-> FALSE].svc = n
        OBVIOUS
      <4> QED BY <4>1, <4>3, <4>4
    <3>2. CASE record[a] # Nil
      BY <1>0, <2>1, <3>2 DEF AppInv, AppType
    <3> QED BY <3>1, <3>2
  <2>4. \A b \in Apps : record'[b] = record[b] \/ b = a
    BY <2>1 DEF AppInv, AppType
  <2> QED BY <1>0, <1>1, <2>1, <2>2, <2>3, <2>4, RecordUse
<1> QED BY <1>2, <1>3

\* The variables are recorded.
LEMMA BindEnvUse ==
  ASSUME CoreInv, AppInv, UseInv, AllGrow, NEW o \in Ops, BindEnv(o), UNCHANGED env
  PROVE  UseInv'
<1> DEFINE a == op[o].app
           n == op[o].svc
<1>0. /\ op[o].at = "envsave" /\ op[o] \in Operation /\ op \in [Ops -> Operation]
      /\ a \in Apps /\ n \in Names /\ op[o].kind = "bind"
  BY DEF BindEnv, CoreInv, CoreType, OpFacts, Placed, LockSteps
<1>1. bindLock = o /\ svc[n].desired
  BY <1>0 DEF UseInv, LeaseFacts, LeaseSteps
<1>2. /\ record' = [record EXCEPT ![a] = [svc |-> n, env |-> TRUE]]
      /\ op' = [op EXCEPT ![o].at = "persist"]
      /\ UNCHANGED <<svc, bindLock, live, saved, forced>>
  BY DEF BindEnv
<1>3. /\ op'[o].at = "persist" /\ op'[o].kind = "bind" /\ op'[o].svc = n
      /\ op'[o].app = a /\ OthersStale(o)
  BY <1>0, <1>2 DEF Operation, OthersStale
<1>4. record'[a] # Nil /\ record'[a].svc = n
  <2>1. record'[a] = [svc |-> n, env |-> TRUE]
    BY <1>0, <1>2 DEF AppInv, AppType
  <2>2. [svc |-> n, env |-> TRUE] \in Record
    BY <1>0 DEF Record
  <2>3. [svc |-> n, env |-> TRUE] # Nil
    BY <2>2, RecordAssumption
  <2>4. [svc |-> n, env |-> TRUE].svc = n
    OBVIOUS
  <2> QED BY <2>1, <2>3, <2>4
<1>5. \A b \in Apps : record'[b] = record[b] \/ b = a
  BY <1>2 DEF AppInv, AppType
<1> QED BY <1>0, <1>1, <1>2, <1>3, <1>4, <1>5, RecordUse

\* persist_app
LEMMA PersistUse ==
  ASSUME CoreInv, AppInv, UseInv, AllGrow, NEW o \in Ops, Persist(o), UNCHANGED env
  PROVE  UseInv'
<1> DEFINE a == op[o].app
<1>0. /\ op[o].at = "persist" /\ op[o] \in Operation /\ op \in [Ops -> Operation]
      /\ a \in Apps
  BY DEF Persist, CoreInv, CoreType, OpFacts, Placed
<1>1. bindLock = o /\ op[o].kind \in {"bind", "detach"} /\ LeaseFacts(o)
  BY <1>0 DEF UseInv, LeaseFacts, LeaseSteps
<1>2. /\ saved' = [saved EXCEPT ![a] = (op[o].kind = "bind")]
      /\ op' = [op EXCEPT ![o].at = "publish"]
      /\ UNCHANGED <<svc, bindLock, record, live, forced>>
  BY DEF Persist
<1>3. /\ op'[o].at = "publish" /\ op'[o].kind = op[o].kind /\ op'[o].svc = op[o].svc
      /\ op'[o].app = a /\ OthersStale(o)
  BY <1>0, <1>2 DEF Operation, OthersStale
<1>4. /\ saved'[a] = (op[o].kind = "bind")
      /\ \A b \in Apps : b # a => saved'[b] = saved[b]
  BY <1>0, <1>2 DEF AppInv, AppType
<1>5. LeaseFacts(o)'
  BY <1>0, <1>1, <1>2, <1>3, <1>4 DEF LeaseFacts
<1>6. \A p \in Ops \ {o} : LeaseFacts(p)'
  BY <1>1, <1>2, <1>3, LeaseOthers
<1>7. Uses(live)'
  BY <1>2, KeptStays DEF UseInv, Uses
<1>8. ASSUME "crash" \in env.events PROVE Uses(saved)' /\ Agree'
  <2>1. Uses(saved) /\ \A b \in Apps : saved[b] = live[b]
    BY <1>0, <1>1, <1>8, HolderAgrees
  <2>2. Agree'
    BY <1>1, <1>2, <1>3, <1>4, <2>1, NilApart DEF Agree, Publishing
  <2>3. ASSUME NEW b \in Apps, saved'[b], record[b] # Nil PROVE Kept(record[b].svc)'
    <3>1. CASE b # a
      BY <1>2, <1>4, <2>1, <2>3, <3>1, KeptStays DEF Uses
    <3>2. CASE b = a
      <4>1. op[o].kind = "bind"
        BY <1>4, <2>3, <3>2
      <4> QED BY <1>0, <1>1, <1>2, <3>2, <4>1 DEF LeaseFacts, Kept
    <3> QED BY <3>1, <3>2
  <2> QED BY <1>2, <2>2, <2>3 DEF Uses
<1> QED BY <1>5, <1>6, <1>7, <1>8 DEF UseInv

\* The apps map
LEMMA PublishUse ==
  ASSUME CoreInv, AppInv, UseInv, AllGrow, NEW o \in Ops, Publish(o), UNCHANGED env
  PROVE  UseInv'
<1> DEFINE a == op[o].app
<1>0. /\ op[o].at = "publish" /\ op[o] \in Operation /\ op \in [Ops -> Operation]
      /\ a \in Apps
  BY DEF Publish, CoreInv, CoreType, OpFacts, Placed
<1>1. bindLock = o /\ op[o].kind \in {"bind", "detach"} /\ LeaseFacts(o)
  BY <1>0 DEF UseInv, LeaseFacts, LeaseSteps
<1>2. /\ live' = [live EXCEPT ![a] = (op[o].kind = "bind")]
      /\ UNCHANGED <<svc, record, saved, forced>>
  BY DEF Publish
<1>3. Ended(o)
  BY <1>0 DEF Publish, EndApp, Ended, OthersStale
<1>4. /\ live'[a] = (op[o].kind = "bind")
      /\ \A b \in Apps : b # a => live'[b] = live[b]
  BY <1>0, <1>2 DEF AppInv, AppType
<1>5. LeaseFacts(o)'
  BY <1>3, EndedFacts
<1>6. \A p \in Ops \ {o} : LeaseFacts(p)'
  BY <1>1, <1>3, LeaseOthers DEF Ended
<1>7. ASSUME NEW b \in Apps, live'[b], record[b] # Nil PROVE Kept(record[b].svc)'
  <2>1. CASE b # a
    BY <1>2, <1>4, <1>7, <2>1, KeptStays DEF UseInv, Uses
  <2>2. CASE b = a
    <3>1. op[o].kind = "bind"
      BY <1>4, <1>7, <2>2
    <3> QED BY <1>0, <1>1, <1>2, <2>2, <3>1 DEF LeaseFacts, Kept
  <2> QED BY <2>1, <2>2
<1>8. Uses(live)'
  BY <1>2, <1>7 DEF Uses
<1>9. ASSUME "crash" \in env.events PROVE Uses(saved)' /\ Agree'
  <2>1. saved[a] = (op[o].kind = "bind")
    BY <1>0, <1>1, <1>9 DEF LeaseFacts
  <2>2. \A b \in Apps : b # a => saved[b] = live[b]
    BY <1>1, <1>9 DEF UseInv, Agree, Publishing
  <2>3. \A b \in Apps : saved'[b] = live'[b]
    BY <1>2, <1>4, <2>1, <2>2
  <2> QED BY <1>8, <2>3 DEF Agree, Uses
<1> QED BY <1>5, <1>6, <1>8, <1>9 DEF UseInv

\* A request that is cut short, and the deadline.
LEMMA CutUse ==
  ASSUME CoreInv, AppInv, UseInv, AllGrow, NEW o \in Ops, Deadline(o) \/ Disconnect(o),
         UNCHANGED env, Apart(env)
  PROVE  UseInv'
<1>1. ASSUME NEW s \in Left(o), Abandon(o, s), op[o].at # "publish",
             UNCHANGED <<record, live, saved, forced>>
      PROVE  UseInv'
  <2>1. Ended(o)
    BY <1>1, Shapes
  <2> QED BY <1>1, <2>1, CalmStep
<1>2. CASE UNCHANGED <<record, live, saved, forced>>
  <2>1. op[o].at # "publish" /\ \E s \in Left(o) : Abandon(o, s)
    BY DEF Deadline, Disconnect, SqlParts
  <2> QED BY <1>1, <1>2, <2>1
<1>3. CASE /\ "disconnect" \in env.events /\ \E s \in Left(o) : Abandon(o, s)
           /\ UNCHANGED <<record, live, forced>>
  <2>1. "crash" \notin env.events
    BY <1>3 DEF Apart
  <2>2. Ended(o)
    BY <1>3, Shapes
  <2>3. LeaseFacts(o)'
    BY <2>2, EndedFacts
  <2>4. \A p \in Ops \ {o} : bindLock = p => bindLock' = p
    BY <2>2 DEF Ended, Unleased
  <2>5. \A p \in Ops \ {o} : LeaseFacts(p)'
    BY <1>3, <2>1, <2>2, <2>4, LeaseOthers DEF Ended
  <2>6. Uses(live)'
    BY <1>3, KeptStays DEF UseInv, Uses
  <2> QED BY <2>1, <2>3, <2>5, <2>6 DEF UseInv
<1> QED BY <1>2, <1>3 DEF Deadline, Disconnect, appVars

\* The config file of a deleted app goes.
LEMMA DeleteSavedUse ==
  ASSUME CoreInv, AppInv, UseInv, AllGrow, NEW o \in Ops, DeleteSaved(o), UNCHANGED env,
         Apart(env)
  PROVE  UseInv'
<1>1. op[o].at = "unsave" /\ UNCHANGED <<record, live, forced>> /\ EndApp(o)
      /\ op \in [Ops -> Operation]
  BY DEF DeleteSaved, CoreInv, CoreType
<1>2. "crash" \notin env.events
  BY <1>1 DEF UseInv, LeaseFacts, Apart
<1>3. Ended(o)
  BY <1>1 DEF EndApp, Ended, OthersStale
<1>4. \A p \in Ops \ {o} : bindLock = p => bindLock' = p
  BY <1>3 DEF Ended, Unleased
<1>5. \A p \in Ops \ {o} : LeaseFacts(p)'
  BY <1>1, <1>2, <1>3, <1>4, LeaseOthers DEF Ended
<1>6. Uses(live)'
  BY <1>1, KeptStays DEF UseInv, Uses
<1> QED BY <1>2, <1>3, <1>5, <1>6, EndedFacts DEF UseInv

\* A restart loads the config files.
LEMMA CrashUse ==
  ASSUME CoreInv, AppInv, UseInv, AllGrow, Crash, UNCHANGED env
  PROVE  UseInv'
<1>1. "crash" \in env.events /\ live' = saved /\ UNCHANGED <<record, saved, forced>>
  BY DEF Crash
<1>2. Uses(live)' /\ Uses(saved)'
  BY <1>1, KeptStays DEF UseInv, Uses
<1>3. \A o \in Ops : op'[o] = NoOp
  BY DEF Crash
<1>4. \A o \in Ops : LeaseFacts(o)'
  BY <1>3 DEF LeaseFacts, LeaseSteps, SqlParts, NoOp
<1>5. Agree'
  BY <1>1 DEF Agree
<1> QED BY <1>2, <1>4, <1>5 DEF UseInv

\* The pass takes up a service.
LEMMA EnsureUse ==
  ASSUME CoreInv, AppInv, UseInv, AllGrow, NEW n \in Names, Ensure(n), UNCHANGED env
  PROVE  UseInv'
<1>0. op["tick"] = NoOp /\ "tick" \in Ops /\ UNCHANGED <<bindLock, record, live, saved, forced>>
      /\ op \in [Ops -> Operation]
  BY DEF Ensure, Ops, CoreInv, CoreType
<1>1. CASE UNCHANGED op
  BY <1>0, <1>1, UseSame
<1>2. CASE op' = [op EXCEPT !["tick"] = [Begin("ensure", n, Nil, "inspect") EXCEPT
                                           !.seen = svc[n].row, !.fresh = TRUE]]
  <2> DEFINE b == Begin("ensure", n, Nil, "inspect")
             q == [b EXCEPT !.seen = svc[n].row, !.fresh = TRUE]
  <2>1. b \in Operation /\ b.at = "inspect"
    BY BeginType DEF OpKinds, Steps
  <2>2. op' = [op EXCEPT !["tick"] = q]
    BY <1>2
  <2> HIDE DEF b
  <2>3. q.at = "inspect"
    BY <2>1 DEF Operation
  <2> HIDE DEF q
  <2>4. op'["tick"].at = "inspect" /\ OthersStale("tick")
    BY <1>0, <2>2, <2>3 DEF OthersStale
  <2>5. "inspect" \notin LeaseSteps \cup {"unsave"}
    BY DEF LeaseSteps, SqlParts
  <2>6. op["tick"].kind = "none"
    BY <1>0 DEF NoOp
  <2> QED BY <1>0, <2>4, <2>5, <2>6, BeginsUse
<1> QED BY <1>1, <1>2 DEF Ensure

\* Every step keeps the lease's invariant.
LEMMA NextUse ==
  ASSUME CoreInv, AppInv, UseInv, Apart(env), [Next]_vars
  PROVE  UseInv'
<1>1. CASE UNCHANGED vars
  <2>1. AllGrow
    BY <1>1 DEF AllGrow, Grows, DbGrows, vars
  <2> QED BY <1>1, <2>1, UseSame DEF vars, appVars
<1>2. CASE Next
  <2>0. UNCHANGED env
    BY <1>2 DEF Next
  <2>1. CASE \E o \in Ops : Retain(o)
    BY <2>0, <2>1, RetainUse
  <2>2. CASE \A o \in Ops : ~Retain(o)
    <3>1. AllGrow
      BY <1>2, <2>2, NextGrows
    <3>2. CASE Tick
      BY <2>0, <3>1, <3>2, UseSame DEF Tick
    <3>3. ASSUME NEW n \in Names, Ensure(n) PROVE UseInv'
      BY <2>0, <3>1, <3>3, EnsureUse
    <3>4. ASSUME NEW n \in Names, Up(n) \/ World(n) PROVE UseInv'
      BY <2>0, <3>1, <3>4, UseSame DEF Up, World, ComeUp, Lose, Halt, Drift, appVars
    <3>5. ASSUME NEW o \in Ops, Request(o) PROVE UseInv'
      BY <2>0, <3>1, <3>5, RequestUse
    <3>6. ASSUME NEW o \in Ops, Progress(o) PROVE UseInv'
      <4>1. CASE BindRecord(o) \/ BindEnv(o) \/ Persist(o) \/ Publish(o) \/ DeleteSaved(o)
        BY <2>0, <3>1, <4>1, BindRecordUse, BindEnvUse, PersistUse, PublishUse,
           DeleteSavedUse
      <4>2. CASE RemoveLock(o) \/ RemoveCheck(o)
        BY <2>0, <3>1, <4>2, RemoveLockUse, RemoveCheckUse
      <4>3. CASE \/ ProviderStep(o) /\ UNCHANGED appVars
                 \/ Commit(o) \/ PersistBlocked(o) \/ Secret(o)
        <5>1. Ended(o) \/ GoesTo(o)
          <6>1. CASE ProviderStep(o)
            BY <6>1, ProviderShape
          <6>2. CASE Commit(o) \/ PersistBlocked(o)
            BY <6>2, Shapes DEF Commit, PersistBlocked
          <6>3. CASE Secret(o)
            <7>1. LeaseOn(op[o].at, "dir")
              BY DEF LeaseOn, LeaseSteps, SqlParts
            <7>2. (\E t : Advance(o, t, "dir")) \/ (\E t, e : Fail(o, t, e))
              BY <6>3 DEF Secret
            <7> QED BY <7>1, <7>2, Shapes
          <6> QED BY <4>3, <6>1, <6>2, <6>3
        <5>2. op[o].at # "publish"
          BY <4>3 DEF ProviderStep, DataDir, Marker, CreateService, AwaitReady, Finalize,
             Inspect, Start, Stop, Sql, SqlParts, Commit, PersistBlocked, Secret
        <5>3. UNCHANGED <<record, live, saved, forced>>
          BY <4>3 DEF appVars, Commit, PersistBlocked, Secret
        <5> QED BY <2>0, <3>1, <5>1, <5>2, <5>3, CalmStep
      <4> QED BY <2>2, <3>6, <4>1, <4>2, <4>3 DEF Progress
    <3>7. CASE Cut
      BY <2>0, <3>1, <3>7, CrashUse, CutUse DEF Cut
    <3> QED BY <1>2, <3>2, <3>3, <3>4, <3>5, <3>6, <3>7 DEF Next
  <2> QED BY <2>1, <2>2
<1> QED BY <1>1, <1>2

\* A service an app's committed config is bound to is there until it is removed
\* with --force: the lease that bind keeps up to the publication of the config,
\* and remove up to the deletion of the row, closes the race between them.
THEOREM UsedServicesStay ==
  ASSUME \A e \in Scenarios : Apart(e)
  PROVE  Spec => []UsedServiceStays
<1>1. Init => UseInv
  <2> SUFFICES ASSUME Init PROVE UseInv
    OBVIOUS
  <2>1. \A o \in Ops : op[o] = NoOp
    BY DEF Init
  <2>2. \A o \in Ops : LeaseFacts(o)
    BY <2>1 DEF LeaseFacts, LeaseSteps, SqlParts, NoOp
  <2> QED BY <2>2 DEF Init, UseInv, Uses, Agree
<1>2. CoreInv /\ AppInv /\ UseInv /\ [Next]_vars => UseInv'
  <2>1. CoreInv => Apart(env)
    BY DEF CoreInv, CoreType
  <2> QED BY <2>1, NextUse
<1>3. UseInv => UsedServiceStays
  BY DEF UseInv, Uses, Kept, UsedServiceStays
<1>4. Spec => [](CoreInv /\ AppInv)
  BY AppInvariant
<1> QED BY <1>1, <1>2, <1>3, <1>4, PTL DEF Spec

=============================================================================
