------------------------------- MODULE Operator -------------------------------
(***************************************************************************)
(* One app as its operators see it: `slip apply` of a repository, webhooks *)
(* and `slip deploy --wait`, `slip rollback` and the deploy history, each  *)
(* against slipd's live config, its config and state files and its         *)
(* database.  A deploy is what of it reaches these.                        *)
(***************************************************************************)
EXTENDS Config, FiniteSets

CONSTANTS
  Operators,    \* runs of `slip apply`
  MaxDeploys,   \* bound: deploys and rollbacks accepted
  Tags,         \* image tags
  WaitLimit,    \* polls of `slip deploy --wait` before its timeout
  Scenarios     \* what may happen in each of the instances that are explored

Deploys == 1..MaxDeploys
Events == {"crash", "disconnect", "delete", "late", "disk"}

ASSUME OperatorAssumption ==
  /\ MaxDeploys \in Nat /\ WaitLimit \in Nat /\ None # "completed"
  /\ \A s \in Scenarios :
       /\ s.appliers \subseteq Operators /\ s.repos \subseteq RepoConfig /\ s.start \in Opt(AppConfig)
       /\ s.deploys \in 0..MaxDeploys /\ s.events \subseteq Events

VARIABLES
  sc,      \* the scenario of this behaviour
  up,      \* slipd runs
  live,    \* the entry of the apps map
  file,    \* apps/<name>.toml
  mem,     \* the entry of the runtime states
  disk,    \* state/<name>.json
  db,      \* rows of the deploy history
  lock,    \* holder of the app lock
  op,      \* `slip apply` per operator
  dep,     \* deploys and rollbacks
  last,    \* history: the operator whose write was let in last
  kept     \* history: the deploy that the state file was last given to keep

vars == <<sc, up, live, file, mem, disk, db, lock, op, dep, last, kept>>

Outcomes == {"created", "applied", "current", "changes", "invalid", "missing", "error",
             "not_found"}

\* PersistedAppState, with the deploy id that only the memory holds.
NoState == [tag |-> None, prev |-> None, id |-> None, applied |-> None]

\* gone: the client hung up while the thread that writes was at work.
NoOp == [at |-> "idle", repo |-> None, kind |-> None, cfg |-> None, snap |-> None,
         gone |-> FALSE, told |-> None]

\* seq: the order of started_at.  after: the applies that were reported before.
\* late: the accepted row is still to be written.  wait: `--wait` of this deploy.
NoDeploy == [at |-> "none", seq |-> 0, tag |-> None, image |-> None, back |-> FALSE,
             after |-> {}, repo |-> None, cfg |-> None, late |-> FALSE, wait |-> None,
             polls |-> 0]

Init ==
  /\ sc \in Scenarios
  /\ up = TRUE
  /\ live = sc.start
  /\ file = sc.start
  /\ mem = NoState
  /\ disk = None
  /\ db = [d \in Deploys |-> None]
  /\ lock = None
  /\ op = [o \in Operators |-> NoOp]
  /\ dep = [d \in Deploys |-> NoDeploy]
  /\ last = None
  /\ kept = None

-----------------------------------------------------------------------------
(* `slip apply`.                                                           *)

Goes(o, at) == op' = [op EXCEPT ![o].at = at]

Ended(r, what) == [NoOp EXCEPT !.at = "done", !.repo = r.repo, !.gone = r.gone, !.told = what]

Tells(o, what) == op' = [op EXCEPT ![o] = Ended(@, what)]

Apply(o) ==
  /\ op[o].at = "idle" /\ o \in sc.appliers
  /\ \E r \in sc.repos :
       op' = [op EXCEPT ![o] = [@ EXCEPT !.repo = r,
                                         !.at = IF ValidRepo(r) THEN "get" ELSE "done",
                                         !.told = IF ValidRepo(r) THEN None ELSE "invalid"]]
  /\ UNCHANGED <<sc, up, live, file, mem, disk, db, lock, dep, last, kept>>

\* The answer of GET decides: create, patch, nothing to do, or a dry run.
Get(o) ==
  /\ op[o].at \in {"get", "reget"} /\ up
  /\ \/ /\ live = None /\ op[o].at = "reget"
        /\ Tells(o, "error")
     \/ /\ live = None /\ op[o].at = "get"
        /\ IF CreatePayload(op[o].repo) = None THEN Tells(o, "missing") ELSE Goes(o, "create")
     \/ /\ live # None /\ ~Changed(op[o].repo, live)
        /\ Tells(o, "current")
     \/ /\ live # None /\ Changed(op[o].repo, live)
        /\ \/ Goes(o, "patch")
           \/ op[o].at = "get" /\ Tells(o, "changes")
  /\ UNCHANGED <<sc, up, live, file, mem, disk, db, lock, dep, last, kept>>

\* The handler is let in: it holds the app lock until it answers.
Enter(o, kind, cfg) ==
  /\ lock' = o
  /\ last' = o
  /\ op' = [op EXCEPT ![o] = [@ EXCEPT !.at = "bind", !.kind = kind, !.cfg = cfg]]

Create(o) ==
  /\ op[o].at = "create" /\ up
  /\ LET p == CreatePayload(op[o].repo) IN
     \/ /\ ~Deserializes(p) /\ Tells(o, "error") /\ UNCHANGED <<lock, last>>
     \/ /\ Deserializes(p) /\ (lock # None \/ live # None)
        /\ Goes(o, "reget") /\ UNCHANGED <<lock, last>>
     \/ /\ Deserializes(p) /\ lock = None /\ live = None
        /\ Enter(o, "created", Created(p))
  /\ UNCHANGED <<sc, up, live, file, mem, disk, db, dep, kept>>

Patch(o) ==
  /\ op[o].at = "patch" /\ up
  /\ LET p == UpdatePayload(op[o].repo) IN
     \/ /\ ~Deserializes(p) \/ lock # None
        /\ Tells(o, "error") /\ UNCHANGED <<lock, last>>
     \/ /\ Deserializes(p) /\ lock = None /\ live = None
        /\ Tells(o, "not_found") /\ UNCHANGED <<lock, last>>
     \/ /\ Deserializes(p) /\ lock = None /\ live # None
        /\ Enter(o, "applied", Updated(live, p))
  /\ UNCHANGED <<sc, up, live, file, mem, disk, db, dep, kept>>

\* The lock goes with its holder.
Released(o) == IF lock = o THEN None ELSE lock

\* Needs are validated and bound: a service may be missing.
Bind(o) ==
  /\ op[o].at = "bind"
  /\ \/ /\ ValidNeeds(op[o].cfg.needs, op[o].cfg.env)
        /\ Goes(o, "write") /\ UNCHANGED lock
     \/ /\ ~ValidNeeds(op[o].cfg.needs, op[o].cfg.env)
        /\ Tells(o, "error") /\ lock' = Released(o)
     \/ /\ op[o].cfg.needs # {}
        /\ Tells(o, "not_found") /\ lock' = Released(o)
  /\ UNCHANGED <<sc, up, live, file, mem, disk, db, dep, last, kept>>

\* persist_app runs on a thread of its own: the config file, then the last applied
\* config into the state file, which is read and written whole.  A config that
\* cannot be written ends the request, a state that cannot be is only logged.
WriteConfig(o) ==
  /\ op[o].at = "write"
  /\ \/ file' = op[o].cfg /\ Goes(o, "read") /\ UNCHANGED lock
     \/ /\ "disk" \in sc.events
        /\ Tells(o, "error") /\ lock' = Released(o) /\ UNCHANGED file
  /\ UNCHANGED <<sc, up, live, mem, disk, db, dep, last, kept>>

ReadState(o) ==
  /\ op[o].at = "read"
  /\ op' = [op EXCEPT ![o].at = "save", ![o].snap = IF disk = None THEN NoState ELSE disk]
  /\ UNCHANGED <<sc, up, live, file, mem, disk, db, lock, dep, last, kept>>

\* A write in place that fails: before it began, or with the file cut off, which no
\* one can parse then.
FailedWrite ==
  /\ "disk" \in sc.events
  /\ disk' \in {disk, None}
  /\ kept' = None

SaveLastApplied(o) ==
  /\ op[o].at = "save"
  /\ \/ /\ disk' = [op[o].snap EXCEPT !.applied = op[o].cfg]
        /\ kept' = IF op[o].gone THEN None ELSE kept
     \/ FailedWrite
  /\ IF op[o].gone THEN Tells(o, "error") ELSE Goes(o, "publish")
  /\ UNCHANGED <<sc, up, live, file, mem, db, lock, dep, last>>

\* The map is updated, the lock freed and the request answered.
Publish(o) ==
  /\ op[o].at = "publish"
  /\ live' = op[o].cfg
  /\ lock' = Released(o)
  /\ Tells(o, op[o].kind)
  /\ UNCHANGED <<sc, up, file, mem, disk, db, dep, last, kept>>

\* The client goes: the handler is dropped where it waits, with its lock, and
\* the thread that writes goes on.
Disconnect(o) ==
  /\ "disconnect" \in sc.events
  /\ op[o].at \in {"bind", "write", "read", "save", "publish"} /\ ~op[o].gone
  /\ op' = [op EXCEPT ![o] = IF @.at \in {"bind", "publish"} THEN Ended(@, "error")
                              ELSE [@ EXCEPT !.gone = TRUE, !.told = "error"]]
  /\ lock' = Released(o)
  /\ UNCHANGED <<sc, up, live, file, mem, disk, db, dep, last, kept>>

\* DELETE of the app.  The state file stays.
Delete ==
  /\ "delete" \in sc.events /\ up
  /\ live # None /\ lock = None
  /\ live' = None
  /\ file' = None
  /\ mem' = NoState
  /\ last' = None
  /\ kept' = None
  /\ UNCHANGED <<sc, up, disk, db, lock, op, dep>>

-----------------------------------------------------------------------------
(* Deploys and the history.                                                *)

\* Mutant of PreviousDeploys: any deploy that ended.
PreviousDeploysEnded(cur) == {d \in Deploys : db[d] \in {"completed", "failed"} /\ d # cur}

\* The completed deploys other than the current one; the last started counts.
PreviousDeploys(cur) == {d \in Deploys : db[d] = "completed" /\ d # cur}

RollbackTarget ==
  LET S == PreviousDeploys(mem.id)
  IN IF S = {} THEN mem.prev ELSE dep[CHOOSE d \in S : \A e \in S : dep[e].seq <= dep[d].seq].tag

Accepted == {d \in Deploys : dep[d].seq > 0}

Told == {o \in Operators : op[o].told \in {"applied", "created"}}

\* The webhook and `slip rollback` read the config, and the target, before they
\* take the lock.
Receive(d) ==
  /\ up /\ live # None
  /\ d <= sc.deploys /\ dep[d].at = "none" /\ \A e \in Deploys : e < d => dep[e].at # "none"
  /\ \/ \E t \in Tags :
          dep' = [dep EXCEPT ![d] = [@ EXCEPT !.at = "read", !.tag = t, !.wait = "polling",
                                              !.image = live.image, !.after = Told]]
     \/ /\ RollbackTarget # None
        /\ dep' = [dep EXCEPT ![d] = [@ EXCEPT !.at = "read", !.tag = RollbackTarget,
                                               !.back = TRUE, !.image = live.image,
                                               !.after = Told]]
  /\ UNCHANGED <<sc, up, live, file, mem, disk, db, lock, op, last, kept>>

\* The accepted row is written by a task of its own.
Accept(d) ==
  /\ dep[d].at = "read" /\ up
  /\ \/ /\ lock = None
        /\ lock' = d
        /\ dep' = [dep EXCEPT ![d].at = "accepted", ![d].late = TRUE,
                              ![d].seq = Cardinality(Accepted) + 1]
     \/ /\ lock # None
        /\ dep' = [dep EXCEPT ![d].at = "refused", ![d].wait = None]
        /\ UNCHANGED lock
  /\ UNCHANGED <<sc, up, live, file, mem, disk, db, op, last, kept>>

\* Late: after rows of the deploy itself, when the scenario lets it.
LateRow(d) ==
  /\ dep[d].late
  /\ "late" \in sc.events \/ dep[d].at = "accepted"
  /\ db' = [db EXCEPT ![d] = "accepted"]
  /\ dep' = [dep EXCEPT ![d].late = FALSE]
  /\ UNCHANGED <<sc, up, live, file, mem, disk, lock, op, last, kept>>

DeployGoes(d, at, row) ==
  /\ dep' = [dep EXCEPT ![d].at = at]
  /\ db' = [db EXCEPT ![d] = row]

\* The image is pulled, with the slip.toml it carries or none; then the merge,
\* bindings and health, any of which may fail the deploy.
Pull(d) ==
  /\ dep[d].at = "accepted" /\ ("late" \in sc.events \/ ~dep[d].late)
  /\ \E r \in Opt(sc.repos) :
       dep' = [dep EXCEPT ![d].at = "pulling", ![d].repo = r]
  /\ db' = [db EXCEPT ![d] = "pulling"]
  /\ UNCHANGED <<sc, up, live, file, mem, disk, lock, op, last, kept>>

Fail(d) ==
  /\ dep[d].at = "pulling"
  /\ dep' = [dep EXCEPT ![d].at = "failed", ![d].repo = None]
  /\ db' = [db EXCEPT ![d] = "failed"]
  /\ lock' = Released(d)
  /\ UNCHANGED <<sc, up, live, file, mem, disk, op, last, kept>>

\* Mutant of Effective: the image's slip.toml wins.
EffectiveRepo(d) ==
  IF dep[d].repo = None THEN live
  ELSE [Merged(live, dep[d].repo) EXCEPT
          !.health.path = dep[d].repo.health.path, !.image = dep[d].image]

\* The config that the new version runs with.
Effective(d) ==
  [(IF dep[d].repo = None THEN live ELSE Merged(live, dep[d].repo)) EXCEPT !.image = dep[d].image]

\* The new version is in the state of the app.
Switch(d) ==
  /\ dep[d].at = "pulling"
  /\ live # None /\ ServerRoutes(live) > 0
  /\ dep[d].repo # None => Mergeable(live, dep[d].repo)
  /\ mem' = [mem EXCEPT !.prev = mem.tag, !.tag = dep[d].tag, !.id = d]
  /\ dep' = [dep EXCEPT ![d].at = "switched", ![d].cfg = Effective(d),
                        ![d].repo = None]
  /\ UNCHANGED <<sc, up, live, file, disk, db, lock, op, last, kept>>

\* save_app_state: the whole file, as the memory has it.  A failure is only logged.
SaveState(d) ==
  /\ dep[d].at = "switched"
  /\ \/ disk' = [mem EXCEPT !.id = None] /\ kept' = d
     \/ FailedWrite
  /\ DeployGoes(d, "draining", "stopping_old")
  /\ UNCHANGED <<sc, up, live, file, mem, lock, op, last>>

Complete(d) ==
  /\ dep[d].at = "draining"
  /\ DeployGoes(d, "completed", "completed")
  /\ lock' = Released(d)
  /\ UNCHANGED <<sc, up, live, file, mem, disk, op, last, kept>>

IsTerminal(row) == row \in {"completed", "failed"}

\* One round of `slip deploy --wait`: the timeout is looked at first, a missing
\* row is polled again, and a server that stays away ends the wait.
Poll(d) ==
  /\ dep[d].at \notin {"none", "read"} /\ dep[d].wait = "polling"
  /\ \/ /\ dep[d].polls = WaitLimit
        /\ dep' = [dep EXCEPT ![d].wait = "timeout"]
     \/ /\ dep[d].polls < WaitLimit /\ ~up
        /\ dep' = [dep EXCEPT ![d].wait = "lost"]
     \/ /\ dep[d].polls < WaitLimit /\ up /\ IsTerminal(db[d])
        /\ dep' = [dep EXCEPT ![d].wait = IF db[d] = "completed" THEN "ok" ELSE "failed"]
     \/ /\ dep[d].polls < WaitLimit /\ up /\ ~IsTerminal(db[d])
        /\ dep' = [dep EXCEPT ![d].polls = @ + 1]
  /\ UNCHANGED <<sc, up, live, file, mem, disk, db, lock, op, last, kept>>

-----------------------------------------------------------------------------
(* Crash and restart.                                                      *)

\* What is in memory is lost; clients see an error.
Crash ==
  /\ "crash" \in sc.events /\ up
  /\ up' = FALSE
  /\ live' = None
  /\ mem' = NoState
  /\ lock' = None
  /\ op' = [o \in Operators |->
              IF op[o].at \in {"bind", "write", "read", "save", "publish", "create", "patch",
                               "get", "reget"}
              THEN Ended(op[o], "error") ELSE op[o]]
  /\ dep' = [d \in Deploys |->
               [dep[d] EXCEPT !.late = FALSE, !.repo = None,
                              !.at = IF @ \in {"read", "accepted", "pulling"} THEN "dropped"
                                     ELSE IF @ \in {"switched", "draining"} THEN "lost" ELSE @]]
  /\ UNCHANGED <<sc, file, disk, db, last, kept>>

\* Config files and state files are read back, without the deploy id.
Restart ==
  /\ ~up
  /\ file # None => Loads(file)
  /\ up' = TRUE
  /\ live' = IF file = None THEN None ELSE Loaded(file)
  /\ mem' = IF disk = None THEN NoState ELSE disk
  /\ UNCHANGED <<sc, file, disk, db, lock, op, dep, last, kept>>

-----------------------------------------------------------------------------

ApplyNext(o) ==
  \/ Apply(o) \/ Get(o) \/ Create(o) \/ Patch(o) \/ Bind(o) \/ WriteConfig(o)
  \/ ReadState(o) \/ SaveLastApplied(o) \/ Publish(o) \/ Disconnect(o)

DeployNext(d) ==
  \/ Receive(d) \/ Accept(d) \/ LateRow(d) \/ Pull(d) \/ Fail(d) \/ Switch(d)
  \/ SaveState(d) \/ Complete(d) \/ Poll(d)

Next ==
  \/ \E o \in Operators : ApplyNext(o)
  \/ \E d \in Deploys : DeployNext(d)
  \/ Delete \/ Crash \/ Restart

Spec == Init /\ [][Next]_vars

-----------------------------------------------------------------------------
(* Properties.                                                             *)

TypeOK ==
  /\ sc \in Scenarios /\ up \in BOOLEAN
  /\ live \in Opt(AppConfig) /\ file \in Opt(AppConfig)
  /\ lock \in Opt(Operators \cup Deploys) /\ last \in Opt(Operators)
  /\ kept \in Opt(Deploys)
  /\ \A o \in Operators : op[o].repo \in Opt(sc.repos) /\ op[o].told \in Opt(Outcomes)
  /\ \A d \in Deploys : dep[d].tag \in Opt(Tags) /\ dep[d].polls \in 0..WaitLimit

SameStatuses(repo, cfg) ==
  \A code \in 0..9 : Accepts(repo.health.expect, code) <=> Accepts(cfg.health.expect, code)

\* No client of an apply hung up while its thread was writing: that thread goes on
\* without the lock, and what it writes may replace what a later apply or deploy wrote.
NoneDetached == \A o \in Operators : ~op[o].gone

\* The repository and the config differ at most in the routes, which no apply sends,
\* although the comment at diff.rs:467 lists them among what is fully replaced.
Agrees(repo, cfg) == Differences(repo, cfg) \subseteq {"routes"}

\* An apply that was reported as applied or created holds: until another write
\* is let in, the server's config has no difference to the repository but in the
\* routes, in the apps map, in the file, and after a restart that reads the file
\* back, and takes the same statuses for healthy however the repository's ranges
\* overlap.  An env value with a placeholder is resolved by a start, and is left
\* out, and so is an apply beside one whose client hung up while it was writing.
ApplySticks ==
  \A o \in Operators :
    (/\ op[o].told \in {"applied", "created"} /\ last = o /\ NoneDetached
     /\ \A e \in op[o].repo.env : ~IsPlaceholder(e))
      => /\ file # None /\ Agrees(op[o].repo, file)
         /\ up => /\ live # None /\ Agrees(op[o].repo, live)
                  /\ op[o].repo.health.expect = None \/ SameStatuses(op[o].repo, live)

\* What was reported is what runs.  A deploy or rollback that arrives after an
\* apply was reported starts the app with no difference to the repository but in the
\* routes, also when its image carries another slip.toml, until another write is let
\* in, under the conditions of ApplySticks.  A `slip deploy --wait` that ends in
\* success names the version the app keeps, also over a restart, until another deploy
\* is let in or the app is deleted: no apply that runs meanwhile writes an older state
\* back.  This is for a state file that took the deploy's state (a failed save is
\* only logged, deploy.rs:888) and has met no failed or detached write since.
AppliedRuns ==
  /\ \A o \in Operators, d \in Deploys :
       (/\ o \in dep[d].after /\ last = o /\ NoneDetached /\ dep[d].cfg # None
        /\ \A e \in op[o].repo.env : ~IsPlaceholder(e))
         => Agrees(op[o].repo, dep[d].cfg)
  /\ \A d \in Deploys :
       (dep[d].wait = "ok" /\ kept = d /\ \A e \in Accepted : dep[e].seq <= dep[d].seq)
         => /\ disk # None /\ disk.tag = dep[d].tag
            /\ up => mem.tag = dep[d].tag

\* A rollback without a tag goes to a version that was the app's, also after failed
\* deploys, late rows and restarts: one whose deploy switched to it, never one that
\* failed, was refused or was dropped by a crash before the switch.
RollbackTargetWorked ==
  \A d \in Deploys :
    dep[d].back /\ dep[d].at # "none"
      => \E e \in Deploys : /\ dep[e].tag = dep[d].tag /\ e # d
                            /\ dep[e].at \in {"switched", "draining", "completed", "lost"}
=============================================================================
