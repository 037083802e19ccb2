--------------------------- MODULE PreviewProofs ---------------------------
(***************************************************************************)
(* Theorems about Preview: previews that are shown as running are served,  *)
(* nothing runs unowned, and a torn down preview is gone, for any previews,*)
(* deploys, ports and limits.                                              *)
(***************************************************************************)
EXTENDS Preview, FiniteSetTheorems, TLAPS

-----------------------------------------------------------------------------
(* The invariants.                                                         *)

\* The steps of a deploy before its container or pod is started.
Unstarted == {"idle", "accepted", "pulling", "configuring", "evicting", "unrouting_old",
              "starting"}

\* The steps at which the entry names what the deploy started.
Named == {"health", "hooks", "switching", "completing"}

\* The steps at which the unit of the deploy before is still to be stopped, and those at
\* which the entry does not yet say whether there is a route.
Redeploying == {"pulling", "configuring", "evicting"}
Unconfigured == {"pulling", "configuring"}

\* u was started by a deploy of p.
StartedFor(u, p) == pc[u] \notin Unstarted /\ ctx[u].preview = p

\* A deploy in flight owns the lock of its preview, slipd serves, and a unit that was
\* not started is none.
LockInv ==
  /\ \A d \in Deploys : InFlight(d) =>
       up /\ Target(d) \in Previews /\ lock[Target(d)] = d
  /\ \A u \in Deploys : pc[u] \in Unstarted => units[u] = Nil
  /\ ~up => \A p \in Previews : entry[p] = Nil

\* A task without a list tears nothing down, a deploy task has one only while it evicts.
TaskInv ==
  /\ \A t \in Tasks : td[t].queue = <<>> => td[t] = NoTeardown
  /\ \A d \in Deploys : pc[d] # "evicting" => td[d] = NoTeardown
  /\ ~up => \A t \in Tasks : td[t] = NoTeardown

\* What anybody knows by name was started for the preview that he knows it of.
NameInv ==
  /\ \A p \in Previews : entry[p] # Nil /\ entry[p].unit # Nil => StartedFor(entry[p].unit, p)
  /\ \A p \in Previews : file[p] # Nil /\ file[p].unit # Nil => StartedFor(file[p].unit, p)
  /\ \A d \in Deploys : InFlight(d) /\ ctx[d].old # Nil => StartedFor(ctx[d].old, Target(d))
  /\ \A t \in Tasks : td[t].queue # <<>> /\ td[t].unit # Nil =>
       StartedFor(td[t].unit, Head(td[t].queue))

BaseInv == PreviewTypeOK /\ LockInv /\ TaskInv /\ NameInv

-----------------------------------------------------------------------------
\* What the entry of its preview says, if it is still there, while deploy d is at a step
\* after "accepted": what it names is up unless it is being torn down.
EntryAt(d) ==
  LET e == entry[Target(d)] IN
  e # Nil =>
    /\ e.status \in {"deploying", "failed"}
    /\ pc[d] \in Unstarted => e.unit = Nil
    /\ pc[d] \notin Unconfigured => e.domain = ~IsWorker(d)
    /\ pc[d] \in Named => e.unit = d /\ e.port = ctx[d].port
    /\ ~TearingDown(Target(d)) =>
         /\ pc[d] \in Named => units[d] = ctx[d].port
         /\ pc[d] = "completing" /\ ~IsWorker(d) => route[Target(d)] = ctx[d].port

MeetInv == \A d \in Deploys : InFlight(d) /\ pc[d] # "accepted" => EntryAt(d)

\* No preview is deployed and torn down at once, so a deploy finds its entry and a
\* teardown what it read.
ApartInv ==
  /\ MeetInv
  /\ \A d \in Deploys : InFlight(d) /\ pc[d] # "accepted" =>
       entry[Target(d)] # Nil /\ ~TearingDown(Target(d))
  /\ \A t \in Tasks : td[t].step # "read" =>
       LET e == entry[Head(td[t].queue)] IN
       e # Nil => td[t].unit = e.unit /\ td[t].routed = e.domain

\* No crash but between deploys, no lost write of a state file, and no deadline in the
\* middle of an eviction.
Undisturbed ==
  /\ "crash" \notin Events
  /\ "save" \notin FailingCalls
  /\ "evicting" \notin DeadlineSteps

\* The file of a running preview is what its entry says, and only that is written.
SavedInv ==
  /\ \A p \in Previews : file[p] # Nil => file[p].status = "running"
  /\ \A p \in RunningPreviews : file[p] = entry[p]

\* What the entry or the file e of p names runs, and has the route.
Live(e, p) ==
  /\ e.unit # Nil /\ units[e.unit] = e.port
  /\ e.domain => route[p] = e.port /\ ctx[e.unit].preview = p

\* Teardowns are not cut short, and remove the file.
Finishes ==
  Undisturbed /\ "disconnect" \notin Events /\ "delete" \notin FailingCalls

ServeInv ==
  /\ \A p \in RunningPreviews : ~TearingDown(p) => Live(entry[p], p)
  /\ \A p \in Previews : up /\ entry[p] = Nil => file[p] = Nil
  /\ ~up => \A p \in Previews : file[p] # Nil => Live(file[p], p)

\* No preview is deployed and torn down at once; a deploy that fails has left the unit
\* before it in its entry, or stopped it; stops succeed, and what is started gets into the
\* entry or is removed.
Tidy ==
  /\ Undisturbed /\ "overlap" \notin Events
  /\ FailingCalls \cap {"pull", "config", "domain", "stop", "inspect"} = {}
  /\ DeadlineSteps \cap {"pulling", "configuring", "starting", "discarding"} = {}

\* Whose u is, while slipd is up.
Owned(u) ==
  \/ \E p \in Previews : entry[p] # Nil /\ entry[p].unit = u
  \/ InFlight(u)
  \/ \E d \in Deploys : pc[d] \in Redeploying /\ ctx[d].old = u

OwnInv ==
  /\ up => \A u \in Deploys : units[u] # Nil => Owned(u)
  /\ ~up => \A u \in Deploys : units[u] # Nil =>
       \E p \in Previews : file[p] # Nil /\ file[p].unit = u
  /\ \A t \in Tasks : td[t].step \in {"unroute", "remove"} /\ td[t].unit # Nil =>
       units[td[t].unit] = Nil

\* Routes are removed when they are asked to, and every preview has one.
Unroutes == Tidy /\ "unroute" \notin FailingCalls /\ "worker" \notin Kinds

RouteInv ==
  /\ \A d \in Deploys : ~IsWorker(d)
  /\ \A p \in Previews : route[p] # Nil =>
       \/ up /\ entry[p] # Nil /\ entry[p].domain
       \/ ~up /\ file[p] # Nil /\ file[p].domain
       \/ \E d \in Deploys : pc[d] \in Unconfigured /\ Target(d) = p
  /\ \A t \in Tasks : td[t].step = "remove" => route[Head(td[t].queue)] = Nil

-----------------------------------------------------------------------------
(* What a step of a deploy task changes.                                   *)

\* The task of d goes to one of the steps in to, and ends at "done"; of the others and of
\* the other previews nothing changes.
MovesTo(d, to) ==
  /\ up' = up /\ pc'[d] \in to
  /\ \A x \in Deploys \ {d} : pc'[x] = pc[x] /\ ctx'[x] = ctx[x]
  /\ ctx'[d].preview = ctx[d].preview
  /\ \A q \in Previews \ {Target(d)} :
       /\ lock'[q] = lock[q] /\ entry'[q] = entry[q]
       /\ file'[q] = file[q] /\ route'[q] = route[q]
  /\ lock'[Target(d)] = IF pc'[d] = "done" THEN Nil ELSE lock[Target(d)]
  /\ \A t \in Tasks \ {d} : td'[t] = td[t]

\* Nothing of the preview of d changes but its entry, and nothing of the task.
Calmly(d) ==
  /\ ctx'[d] = ctx[d] /\ td'[d] = td[d]
  /\ file'[Target(d)] = file[Target(d)]

Keeps(d) == entry'[Target(d)] = entry[Target(d)]
SameRoute(d) == route'[Target(d)] = route[Target(d)]

\* The entry, if there is one, is marked as failed.
Marks(d) ==
  LET e == entry[Target(d)]
      f == entry'[Target(d)]
  IN /\ e = Nil => f = Nil
     /\ e # Nil => /\ f # Nil /\ f.status = "failed"
                   /\ f.unit = e.unit /\ f.port = e.port /\ f.domain = e.domain

\* What happens to the units.
Still == units' = units
OnlyUnit(u) == \A x \in Deploys \ {u} : units'[x] = units[x]
Runs(d) == OnlyUnit(d) /\ units'[d] # Nil
Halts(u) == IF u = Nil THEN Still ELSE OnlyUnit(u) /\ units'[u] = Nil

\* The task fails where it is, with or without a unit to remove.
GivesUp(d) == MovesTo(d, {"done"}) /\ Calmly(d) /\ Marks(d)
Discards(d) == MovesTo(d, {"discarding"}) /\ Calmly(d) /\ Marks(d)

\* What is known of a deploy in flight.
LEMMA InFlightHas ==
  ASSUME BaseInv, NEW d \in Deploys, InFlight(d)
  PROVE  /\ up /\ Target(d) \in Previews /\ lock[Target(d)] = d
         /\ PreviewTypeOK /\ d \in Tasks /\ ctx[d] \in Context
         /\ entry[Target(d)] \in Entry \cup {Nil} /\ td[d] \in Teardown
         /\ pc[d] # "evicting" => td[d] = NoTeardown
  BY DEF BaseInv, LockInv, TaskInv, PreviewTypeOK, Tasks, Option

\* Nil is none of the other values.
LEMMA NilFresh ==
  /\ Nil \notin Deploys /\ Nil \notin Nat /\ Nil \notin Entry /\ Nil # 0
  /\ Ports \subseteq Nat \ {0} /\ Ports \cup {0} \subseteq Nat
  BY PreviewAssumption, EntryAssumption

\* A deploy that goes on is at the step it goes to, with its context.
LEMMA AdvanceMoves ==
  ASSUME BaseInv, NEW d \in Deploys, InFlight(d), NEW s, s # "done", NEW c, Advance(d, s, c),
         c.preview = Target(d), td' = td, route' = route, file' = file,
         \A q \in Previews \ {Target(d)} : entry'[q] = entry[q]
  PROVE  MovesTo(d, {s}) /\ ctx'[d] = c /\ td'[d] = td[d] /\ file'[Target(d)] = file[Target(d)]
  BY InFlightHas DEF Advance, MovesTo, PreviewTypeOK, Target

\* A deploy that returns is done and has released its lock.
LEMMA ReturnMoves ==
  ASSUME BaseInv, NEW d \in Deploys, InFlight(d), Return(d),
         \A t \in Tasks \ {d} : td'[t] = td[t],
         \A q \in Previews \ {Target(d)} :
           entry'[q] = entry[q] /\ route'[q] = route[q] /\ file'[q] = file[q]
  PROVE  MovesTo(d, {"done"}) /\ ctx'[d] = ctx[d]
  BY InFlightHas DEF Return, MovesTo, PreviewTypeOK, Target

\* A deploy that marks its entry failed changes the status and no more.
LEMMA WithStatusMarks ==
  ASSUME BaseInv, NEW d \in Deploys, InFlight(d), entry' = WithStatus(Target(d), "failed")
  PROVE  /\ Marks(d)
         /\ \A q \in Previews \ {Target(d)} : entry'[q] = entry[q]
<1>1. CASE entry[Target(d)] = Nil
  BY <1>1 DEF WithStatus, Marks
<1>2. CASE entry[Target(d)] # Nil
  <2>1. entry[Target(d)] \in Entry /\ entry \in [Previews -> Option(Entry)]
    BY <1>2, InFlightHas DEF PreviewTypeOK
  <2>2. entry' = [entry EXCEPT ![Target(d)] = [entry[Target(d)] EXCEPT !.status = "failed"]]
    BY <1>2 DEF WithStatus
  <2>3. [entry[Target(d)] EXCEPT !.status = "failed"] \in Entry
    BY <2>1 DEF Entry
  <2> QED BY <2>1, <2>2, <2>3, InFlightHas, NilFresh DEF Marks, Entry
<1> QED BY <1>1, <1>2

\* A deploy that fails gives up, and leaves the route.
LEMMA FailMoves ==
  ASSUME BaseInv, NEW d \in Deploys, InFlight(d), Fail(d), td' = td, route' = route
  PROVE  GivesUp(d) /\ SameRoute(d)
  BY ReturnMoves, WithStatusMarks, InFlightHas DEF Fail, GivesUp, Calmly, SameRoute

\* A deploy that fails after its unit was created goes to discard it.
LEMMA DiscardingMoves ==
  ASSUME BaseInv, NEW d \in Deploys, InFlight(d), FailAndDiscard(d), td' = td,
         \A q \in Previews \ {Target(d)} : route'[q] = route[q]
  PROVE  Discards(d)
  BY WithStatusMarks, InFlightHas DEF FailAndDiscard, Discards, Advance, MovesTo, Calmly, PreviewTypeOK, Target

\* A create call starts the unit of its deploy, on one of the ports, and no other.
LEMMA StartedRuns ==
  ASSUME BaseInv, NEW d \in Deploys, units' \in Started(d)
  PROVE  Runs(d) /\ units'[d] \in HostPorts /\ units' \in [Deploys -> Option(HostPorts)]
  BY NilFresh DEF Started, Runs, OnlyUnit, FreePorts, HostPorts, BaseInv, PreviewTypeOK, Option

\* A best effort to stop a unit stops it, or the stop call failed.
LEMMA StopHalts ==
  ASSUME BaseInv, NEW u \in Deploys \cup {Nil}, StopBestEffort(u)
  PROVE  /\ Halts(u) \/ (Fails("stop") /\ Still)
         /\ units' \in [Deploys -> Option(HostPorts)]
  BY NilFresh DEF StopBestEffort, Stopped, Halts, OnlyUnit, Still, BaseInv, PreviewTypeOK, Option

-----------------------------------------------------------------------------
(* The steps of a deploy task, one by one.                                 *)

\* The entry a deploy begins with is one.
LEMMA FreshEntry ==
  ASSUME BaseInv
  PROVE  /\ Fresh \in Entry /\ Fresh # Nil /\ Fresh.status = "deploying"
         /\ Fresh.unit = Nil /\ ~Fresh.domain
<1>1. clock + 1 \in Nat \ {0}
  BY DEF BaseInv, PreviewTypeOK
<1>2. Fresh \in Entry
  BY <1>1 DEF Fresh, Entry, Option
<1> QED BY <1>2, NilFresh DEF Fresh

\* Steps that only mark the entry, or leave it alone.
Passes(d, to) == MovesTo(d, to) /\ Calmly(d) /\ Keeps(d)

\* A step that changes the step of its deploy only.
LEMMA AdvancePasses ==
  ASSUME BaseInv, NEW d \in Deploys, InFlight(d), NEW s, s # "done", Advance(d, s, ctx[d]),
         UNCHANGED <<entry, file, route, td>>
  PROVE  Passes(d, {s}) /\ SameRoute(d)
  BY AdvanceMoves DEF Passes, Calmly, Keeps, SameRoute, Target

\* A return that changes nothing else.
LEMMA ReturnPasses ==
  ASSUME BaseInv, NEW d \in Deploys, InFlight(d), Return(d), UNCHANGED <<entry, file, route, td>>
  PROVE  Passes(d, {"done"}) /\ SameRoute(d)
  BY ReturnMoves DEF Passes, Calmly, Keeps, SameRoute

\* The names of the entry are taken over, and the entry begins anew.
Captures(d) ==
  LET e == entry[Target(d)] IN
  /\ MovesTo(d, {"pulling"}) /\ td'[d] = td[d] /\ file'[Target(d)] = file[Target(d)]
  /\ ctx'[d].kind = ctx[d].kind /\ ctx'[d].old = IF e = Nil THEN Nil ELSE e.unit
  /\ entry'[Target(d)] = Fresh

\* Capturing what was deployed before: a fresh entry is written, or the lookup failed.
LEMMA CaptureMoves ==
  ASSUME BaseInv, NEW d \in Deploys, Capture(d)
  PROVE  /\ pc[d] = "accepted" /\ ("overlap" \in Events \/ ~TearingDown(Target(d)))
         /\ Still /\ SameRoute(d) /\ (Captures(d) \/ GivesUp(d))
<1>1. /\ pc[d] = "accepted" /\ ("overlap" \in Events \/ ~TearingDown(Target(d)))
      /\ Still /\ SameRoute(d) /\ td' = td /\ route' = route /\ InFlight(d)
  BY DEF Capture, Still, SameRoute, InFlight
<1>2. CASE Fail(d)
  BY <1>1, <1>2, FailMoves
<1>3. CASE ~Fail(d)
  <2> DEFINE p == Target(d)
             old == IF entry[p] = Nil THEN Fresh ELSE entry[p]
  <2>1. /\ pc' = [pc EXCEPT ![d] = "pulling"]
        /\ ctx' = [ctx EXCEPT ![d].old = old.unit, ![d].oldPod = old.pod]
        /\ entry' = [entry EXCEPT ![p] = Fresh]
        /\ UNCHANGED <<lock, file, up>>
    BY <1>3 DEF Capture
  <2>2. p \in Previews /\ PreviewTypeOK
    BY <1>1, InFlightHas
  <2>3. /\ ctx'[d].old = old.unit /\ ctx'[d].kind = ctx[d].kind
        /\ ctx'[d].preview = ctx[d].preview
        /\ \A x \in Deploys \ {d} : pc'[x] = pc[x] /\ ctx'[x] = ctx[x]
        /\ pc'[d] = "pulling"
    BY <2>1, <2>2 DEF PreviewTypeOK, Context
  <2>4. entry'[p] = Fresh /\ \A q \in Previews \ {p} : entry'[q] = entry[q]
    BY <2>1, <2>2 DEF PreviewTypeOK
  <2>5. old.unit = IF entry[p] = Nil THEN Nil ELSE entry[p].unit
    BY FreshEntry
  <2> QED BY <1>1, <2>1, <2>3, <2>4, <2>5 DEF Captures, MovesTo
<1> QED BY <1>1, <1>2, <1>3

\* The pull succeeds, or the deploy gives up.
LEMMA PullMoves ==
  ASSUME BaseInv, NEW d \in Deploys, Pull(d)
  PROVE  /\ pc[d] = "pulling" /\ Still /\ SameRoute(d)
         /\ Passes(d, {"configuring"}) \/ (Fails("pull") /\ GivesUp(d))
  BY AdvancePasses, FailMoves DEF Pull, Still, SameRoute, InFlight

\* The previews to evict are running ones, and others.
LEMMA VictimsRun ==
  ASSUME BaseInv, NEW p \in Previews, NEW q \in Victims(p)
  PROVE  /\ q \in Seq(Previews)
         /\ \A x : Contains(q, x) => x \in RunningPreviews \ {p}
<1> DEFINE others == RunningPreviews \ {p}
           count == Cardinality(others)
           n == IF MaxLimit = Nil \/ count < MaxLimit THEN 0
                ELSE IF MaxLimit = 0 THEN count ELSE count - MaxLimit + 1
<1>1. q \in [1 .. n -> others]
  BY DEF Victims
<1>2. count \in Nat
  <2>1. IsFiniteSet(others)
    BY PreviewAssumption, FS_Subset DEF RunningPreviews
  <2> QED BY <2>1, FS_CardinalityType
<1>3. n \in Nat
  <2>1. MaxLimit = Nil \/ MaxLimit \in Nat
    BY PreviewAssumption
  <2> HIDE DEF count
  <2> QED BY <1>2, <2>1
<1>4. others \subseteq Previews
  BY DEF RunningPreviews
<1> HIDE DEF n, others
<1>5. q \in Seq(others) /\ Len(q) = n /\ \A i \in 1 .. n : q[i] \in others
  BY <1>1, <1>3
<1> QED BY <1>4, <1>5 DEF Contains, others

\* The kind is known, the entry says whether there is a route, and d evicts.
Configures(d) ==
  LET e == entry[Target(d)]
      f == entry'[Target(d)]
  IN /\ MovesTo(d, {"evicting"}) /\ file'[Target(d)] = file[Target(d)]
     /\ ctx'[d].old = ctx[d].old /\ ctx'[d].kind \in Kinds
     /\ e = Nil => f = Nil
     /\ e # Nil => /\ f # Nil /\ f.status = e.status /\ f.unit = e.unit
                   /\ f.domain = (ctx'[d].kind # "worker")
     /\ \E q \in Seq(Previews) :
          /\ td'[d] = [NoTeardown EXCEPT !.queue = q]
          /\ \A x : Contains(q, x) => x \in RunningPreviews \ {Target(d)}

\* The settings are read and the evictions listed, or the deploy gives up.
LEMMA ConfigureMoves ==
  ASSUME BaseInv, NEW d \in Deploys, Configure(d)
  PROVE  /\ pc[d] = "configuring" /\ Still /\ SameRoute(d)
         /\ \/ Configures(d)
            \/ Fails("config") /\ GivesUp(d)
            \/ Fails("domain") /\ Passes(d, {"done"})
<1> DEFINE p == Target(d)
<1>1. pc[d] = "configuring" /\ Still /\ SameRoute(d) /\ route' = route /\ InFlight(d)
  BY DEF Configure, Still, SameRoute, InFlight
<1>2. CASE Fails("config") /\ Fail(d) /\ UNCHANGED td
  BY <1>1, <1>2, FailMoves
<1>3. CASE Fails("domain") /\ Return(d) /\ UNCHANGED <<entry, file, td>>
  BY <1>1, <1>3, ReturnPasses
<1>4. CASE \E k \in Kinds, ttl \in Ttls, victims \in Victims(p) :
             /\ Advance(d, "evicting", [ctx[d] EXCEPT !.kind = k])
             /\ entry' = IF entry[p] = Nil THEN entry
                         ELSE [entry EXCEPT ![p].domain = (k # "worker"), ![p].ttl = ttl]
             /\ td' = [td EXCEPT ![d].queue = victims]
             /\ UNCHANGED file
  <2>1. PICK k \in Kinds, ttl \in Ttls, q \in Victims(p) :
             /\ Advance(d, "evicting", [ctx[d] EXCEPT !.kind = k])
             /\ entry' = IF entry[p] = Nil THEN entry
                         ELSE [entry EXCEPT ![p].domain = (k # "worker"), ![p].ttl = ttl]
             /\ td' = [td EXCEPT ![d].queue = q]
             /\ UNCHANGED file
    BY <1>4
  <2>2. /\ p \in Previews /\ PreviewTypeOK /\ d \in Tasks /\ td[d] = NoTeardown
        /\ entry[p] \in Entry \cup {Nil} /\ ctx[d] \in Context
    BY <1>1, InFlightHas
  <2>3. td'[d] = [NoTeardown EXCEPT !.queue = q] /\ \A t \in Tasks \ {d} : td'[t] = td[t]
    BY <2>1, <2>2 DEF PreviewTypeOK
  <2>4. /\ ctx'[d].preview = ctx[d].preview /\ ctx'[d].old = ctx[d].old
        /\ ctx'[d].kind = k /\ pc'[d] = "evicting" /\ up' = up /\ lock' = lock
        /\ \A x \in Deploys \ {d} : pc'[x] = pc[x] /\ ctx'[x] = ctx[x]
    BY <2>1, <2>2 DEF Advance, PreviewTypeOK, Context
  <2>5. \A x \in Previews \ {p} : entry'[x] = entry[x]
    BY <2>1, <2>2 DEF PreviewTypeOK
  <2>6. MovesTo(d, {"evicting"})
    BY <1>1, <2>1, <2>3, <2>4, <2>5 DEF MovesTo
  <2>7. entry[p] = Nil => entry'[p] = Nil
    BY <2>1
  <2>8. entry[p] # Nil =>
          /\ entry'[p] # Nil /\ entry'[p].status = entry[p].status
          /\ entry'[p].unit = entry[p].unit /\ entry'[p].domain = (k # "worker")
    <3>1. SUFFICES ASSUME entry[p] # Nil
                   PROVE  /\ entry'[p] # Nil /\ entry'[p].status = entry[p].status
                          /\ entry'[p].unit = entry[p].unit /\ entry'[p].domain = (k # "worker")
      OBVIOUS
    <3>2. entry'[p] = [entry[p] EXCEPT !.domain = (k # "worker"), !.ttl = ttl]
      BY <2>1, <2>2, <3>1 DEF PreviewTypeOK
    <3>3. ttl \in {"none", "live", "expired"} /\ entry[p] \in Entry
      BY <2>2, <3>1, PreviewAssumption
    <3>4. entry'[p] \in Entry
      BY <3>2, <3>3 DEF Entry
    <3> QED BY <3>2, <3>3, <3>4, NilFresh DEF Entry
  <2>9. q \in Seq(Previews) /\ \A x : Contains(q, x) => x \in RunningPreviews \ {p}
    BY <2>1, <2>2, VictimsRun
  <2> QED BY <1>1, <2>1, <2>3, <2>4, <2>6, <2>7, <2>8, <2>9 DEF Configures
<1> QED BY <1>1, <1>2, <1>3, <1>4 DEF Configure

\* The unit before is stopped once the list of evictions is empty.
LEMMA TearDownOldMoves ==
  ASSUME BaseInv, NEW d \in Deploys, TearDownOld(d)
  PROVE  /\ pc[d] = "evicting" /\ td[d].queue = <<>>
         /\ Passes(d, {"unrouting_old", "starting"}) /\ SameRoute(d)
         /\ Halts(ctx[d].old) \/ (Fails("stop") /\ Still)
<1>1. pc[d] = "evicting" /\ td[d].queue = <<>> /\ InFlight(d)
  BY DEF TearDownOld, InFlight
<1>2. Passes(d, {"unrouting_old", "starting"}) /\ SameRoute(d)
  <2>1. Passes(d, {IF ctx[d].oldPod THEN "unrouting_old" ELSE "starting"}) /\ SameRoute(d)
    BY <1>1, AdvancePasses DEF TearDownOld
  <2> QED BY <2>1 DEF Passes, MovesTo
<1>3. ctx[d].old \in Deploys \cup {Nil}
  BY <1>1, InFlightHas DEF Context, Option
<1> QED BY <1>1, <1>2, <1>3, StopHalts DEF TearDownOld

\* The route of the deploy before is removed, or stays if the call failed.
LEMMA UnrouteOldMoves ==
  ASSUME BaseInv, NEW d \in Deploys, UnrouteOld(d)
  PROVE  /\ pc[d] = "unrouting_old" /\ Passes(d, {"starting"}) /\ Still
         /\ route'[Target(d)] \in {route[Target(d)], Nil}
<1>1. /\ pc[d] = "unrouting_old" /\ InFlight(d) /\ UNCHANGED <<entry, file, units, td>>
      /\ Advance(d, "starting", ctx[d])
  BY DEF UnrouteOld, InFlight
<1>2. /\ route'[Target(d)] \in {route[Target(d)], Nil}
      /\ \A q \in Previews \ {Target(d)} : route'[q] = route[q]
  BY <1>1, InFlightHas DEF UnrouteOld, UnrouteBestEffort, PreviewTypeOK
<1> QED BY <1>1, <1>2, InFlightHas
        DEF Advance, Passes, MovesTo, Calmly, Keeps, Still, PreviewTypeOK, Target

\* The unit runs, and the entry names it.
Starts(d) ==
  LET e == entry[Target(d)]
      f == entry'[Target(d)]
  IN /\ MovesTo(d, {"health"}) /\ td'[d] = td[d] /\ file'[Target(d)] = file[Target(d)]
     /\ ctx'[d].old = ctx[d].old /\ ctx'[d].kind = ctx[d].kind
     /\ Runs(d) /\ ctx'[d].port = units'[d]
     /\ e = Nil => f = Nil
     /\ e # Nil => /\ f # Nil /\ f.status = e.status /\ f.domain = e.domain
                   /\ f.unit = d /\ f.port = units'[d]

\* The unit is started and named, or the deploy gives up before or after that.
LEMMA StartMoves ==
  ASSUME BaseInv, NEW d \in Deploys, Start(d)
  PROVE  /\ pc[d] = "starting" /\ SameRoute(d)
         /\ \/ Starts(d)
            \/ Fails("create") /\ GivesUp(d) /\ Still
            \/ Fails("inspect") /\ GivesUp(d) /\ Runs(d)
            \/ Discards(d) /\ Runs(d)
<1> DEFINE p == Target(d)
<1>1. pc[d] = "starting" /\ SameRoute(d) /\ route' = route /\ td' = td /\ InFlight(d)
  BY DEF Start, SameRoute, InFlight
<1>2. CASE Fails("create") /\ Fail(d) /\ UNCHANGED units
  BY <1>1, <1>2, FailMoves DEF Still
<1>3. CASE Fails("inspect") /\ Fail(d) /\ units' \in Started(d)
  BY <1>1, <1>3, FailMoves, StartedRuns
<1>4. CASE IsPod(d) /\ Fails("port") /\ FailAndDiscard(d) /\ units' \in Started(d)
  BY <1>1, <1>4, DiscardingMoves, StartedRuns
<1>5. CASE /\ units' \in Started(d)
           /\ Advance(d, "health", [ctx[d] EXCEPT !.port = units'[d]])
           /\ entry' = IF entry[p] = Nil THEN entry
                       ELSE [entry EXCEPT ![p].unit = d, ![p].pod = IsPod(d),
                                          ![p].port = units'[d]]
           /\ UNCHANGED file
  <2>1. /\ p \in Previews /\ PreviewTypeOK /\ d \in Tasks
        /\ entry[p] \in Entry \cup {Nil} /\ ctx[d] \in Context
    BY <1>1, InFlightHas
  <2>2. Runs(d) /\ units'[d] \in HostPorts
    BY <1>5, StartedRuns
  <2>3. /\ ctx'[d].preview = ctx[d].preview /\ ctx'[d].old = ctx[d].old
        /\ ctx'[d].kind = ctx[d].kind /\ ctx'[d].port = units'[d]
        /\ pc'[d] = "health" /\ up' = up /\ lock' = lock
        /\ \A x \in Deploys \ {d} : pc'[x] = pc[x] /\ ctx'[x] = ctx[x]
    BY <1>5, <2>1 DEF Advance, PreviewTypeOK, Context
  <2>4. \A x \in Previews \ {p} : entry'[x] = entry[x]
    BY <1>5, <2>1 DEF PreviewTypeOK
  <2>5. MovesTo(d, {"health"})
    BY <1>1, <1>5, <2>3, <2>4 DEF MovesTo
  <2>6. entry[p] = Nil => entry'[p] = Nil
    BY <1>5
  <2>7. entry[p] # Nil =>
          /\ entry'[p] # Nil /\ entry'[p].status = entry[p].status
          /\ entry'[p].domain = entry[p].domain
          /\ entry'[p].unit = d /\ entry'[p].port = units'[d]
    <3>1. SUFFICES ASSUME entry[p] # Nil
                   PROVE  /\ entry'[p] # Nil /\ entry'[p].status = entry[p].status
                          /\ entry'[p].domain = entry[p].domain
                          /\ entry'[p].unit = d /\ entry'[p].port = units'[d]
      OBVIOUS
    <3>2. entry'[p] = [entry[p] EXCEPT !.unit = d, !.pod = IsPod(d), !.port = units'[d]]
      BY <1>5, <2>1, <3>1 DEF PreviewTypeOK
    <3>3. entry[p] \in Entry /\ IsPod(d) \in BOOLEAN
      BY <2>1, <3>1 DEF IsPod
    <3>4. entry'[p] \in Entry
      BY <2>2, <3>2, <3>3 DEF Entry, Option
    <3> QED BY <3>2, <3>3, <3>4, NilFresh DEF Entry
  <2> QED BY <1>1, <1>5, <2>2, <2>3, <2>5, <2>6, <2>7 DEF Starts
<1> QED BY <1>1, <1>2, <1>3, <1>4, <1>5 DEF Start

\* The unit is healthy, or it is discarded, or it could not be looked up.
LEMMA HealthMoves ==
  ASSUME BaseInv, NEW d \in Deploys, Health(d)
  PROVE  /\ pc[d] = "health" /\ SameRoute(d)
         /\ \/ Passes(d, {"switching", "hooks"}) /\ Still
            \/ Discards(d) /\ (Still \/ Halts(d))
            \/ Fails("inspect") /\ GivesUp(d) /\ Still
<1>1. pc[d] = "health" /\ SameRoute(d) /\ route' = route /\ td' = td /\ InFlight(d)
  BY DEF Health, SameRoute, InFlight
<1>2. CASE Advance(d, IF IsPod(d) THEN "switching" ELSE "hooks", ctx[d]) /\ UNCHANGED <<entry, file, units>>
  <2>1. Passes(d, {IF IsPod(d) THEN "switching" ELSE "hooks"})
    BY <1>1, <1>2, AdvancePasses
  <2> QED BY <1>1, <1>2, <2>1 DEF Passes, MovesTo, Still
<1>3. CASE FailAndDiscard(d) /\ UNCHANGED units
  BY <1>1, <1>3, DiscardingMoves DEF Still
<1>4. CASE FailAndDiscard(d) /\ units' = Stopped(d)
  BY <1>1, <1>4, DiscardingMoves, NilFresh
     DEF Stopped, Halts, OnlyUnit, BaseInv, PreviewTypeOK
<1>5. CASE Fails("inspect") /\ Fail(d) /\ UNCHANGED units
  BY <1>1, <1>5, FailMoves DEF Still
<1> QED BY <1>1, <1>2, <1>3, <1>4, <1>5 DEF Health

\* The hooks pass, or the unit is discarded.
LEMMA HooksMoves ==
  ASSUME BaseInv, NEW d \in Deploys, Hooks(d)
  PROVE  /\ pc[d] = "hooks" /\ SameRoute(d) /\ Still
         /\ \/ Passes(d, {"completing"}) /\ IsWorker(d)
            \/ Passes(d, {"switching"})
            \/ Discards(d)
<1>1. pc[d] = "hooks" /\ SameRoute(d) /\ Still /\ route' = route /\ td' = td /\ InFlight(d)
  BY DEF Hooks, SameRoute, InFlight, Still
<1>2. CASE Advance(d, IF IsWorker(d) THEN "completing" ELSE "switching", ctx[d]) /\ UNCHANGED <<entry, file>>
  <2>1. CASE IsWorker(d)
    BY <1>1, <1>2, <2>1, AdvancePasses
  <2>2. CASE ~IsWorker(d)
    BY <1>1, <1>2, <2>2, AdvancePasses
  <2> QED BY <2>1, <2>2
<1>3. CASE FailAndDiscard(d)
  BY <1>1, <1>3, DiscardingMoves
<1> QED BY <1>1, <1>2, <1>3 DEF Hooks

\* The route is switched to the port of the unit, or the unit is discarded.
LEMMA SwitchMoves ==
  ASSUME BaseInv, NEW d \in Deploys, Switch(d)
  PROVE  /\ pc[d] = "switching" /\ Still
         /\ \/ Passes(d, {"completing"}) /\ route'[Target(d)] = ctx[d].port
            \/ Discards(d) /\ route'[Target(d)] \in {route[Target(d)], ctx[d].port}
<1> DEFINE p == Target(d)
<1>1. pc[d] = "switching" /\ Still /\ td' = td /\ InFlight(d)
  BY DEF Switch, InFlight, Still
<1>2. p \in Previews /\ PreviewTypeOK
  BY <1>1, InFlightHas
<1>3. /\ route'[p] \in {route[p], ctx[d].port}
      /\ \A q \in Previews \ {p} : route'[q] = route[q]
  BY <1>2 DEF Switch, PreviewTypeOK
<1>4. CASE /\ route' = [route EXCEPT ![p] = ctx[d].port]
           /\ Advance(d, "completing", ctx[d])
           /\ UNCHANGED <<entry, file>>
  BY <1>1, <1>2, <1>3, <1>4 DEF Advance, Passes, MovesTo, Calmly, Keeps, PreviewTypeOK, Target
<1>5. CASE FailAndDiscard(d)
  BY <1>1, <1>3, <1>5, DiscardingMoves
<1> QED BY <1>1, <1>4, <1>5 DEF Switch

\* The entry is marked as running, and saved.
Completes(d) ==
  LET p == Target(d)
      e == entry[p]
      f == entry'[p]
  IN /\ MovesTo(d, {"done"}) /\ ctx'[d] = ctx[d] /\ td'[d] = td[d]
     /\ e = Nil => f = Nil /\ file'[p] = file[p]
     /\ e # Nil => /\ f # Nil /\ f.status = "running" /\ f.port = ctx[d].port
                   /\ f.unit = e.unit /\ f.domain = e.domain
                   /\ file'[p] = f \/ (Fails("save") /\ file'[p] = file[p])

\* The entry becomes running and is saved.
LEMMA CompleteMoves ==
  ASSUME BaseInv, NEW d \in Deploys, Complete(d)
  PROVE  pc[d] = "completing" /\ SameRoute(d) /\ Still /\ Completes(d)
<1> DEFINE p == Target(d)
<1>1. /\ pc[d] = "completing" /\ SameRoute(d) /\ Still /\ route' = route /\ td' = td
      /\ InFlight(d) /\ Return(d)
  BY DEF Complete, InFlight, Still, SameRoute
<1>2. /\ p \in Previews /\ PreviewTypeOK
      /\ entry[p] \in Entry \cup {Nil} /\ ctx[d] \in Context
  BY <1>1, InFlightHas
<1>3. /\ entry' = IF entry[p] = Nil THEN entry
                  ELSE [entry EXCEPT ![p].status = "running", ![p].port = ctx[d].port]
      /\ \/ file' = IF entry[p] = Nil THEN file ELSE [file EXCEPT ![p] = entry'[p]]
         \/ Fails("save") /\ file' = file
  BY DEF Complete
<1>4. \A q \in Previews \ {p} : entry'[q] = entry[q] /\ file'[q] = file[q]
  BY <1>2, <1>3 DEF PreviewTypeOK
<1>5. MovesTo(d, {"done"}) /\ ctx'[d] = ctx[d]
  BY <1>1, <1>4, ReturnMoves
<1>6. CASE entry[p] = Nil
  BY <1>1, <1>3, <1>5, <1>6 DEF Completes
<1>7. CASE entry[p] # Nil
  <2>1. entry'[p] = [entry[p] EXCEPT !.status = "running", !.port = ctx[d].port]
    BY <1>2, <1>3, <1>7 DEF PreviewTypeOK
  <2>2. entry[p] \in Entry /\ ctx[d].port \in Option(HostPorts)
    BY <1>2, <1>7 DEF Context, Option
  <2>3. entry'[p] \in Entry
    BY <2>1, <2>2 DEF Entry
  <2>4. file'[p] = entry'[p] \/ (Fails("save") /\ file'[p] = file[p])
    BY <1>2, <1>3, <1>7 DEF PreviewTypeOK
  <2> QED BY <1>1, <1>5, <1>7, <2>1, <2>2, <2>3, <2>4, NilFresh DEF Completes, Entry
<1> QED BY <1>1, <1>6, <1>7

\* The unit of a failed deploy is stopped, or the stop call failed.
LEMMA DiscardMoves ==
  ASSUME BaseInv, NEW d \in Deploys, Discard(d)
  PROVE  /\ pc[d] = "discarding" /\ Passes(d, {"done"}) /\ SameRoute(d)
         /\ Halts(d) \/ (Fails("stop") /\ Still)
<1>1. InFlight(d)
  BY DEF Discard, InFlight
<1> QED BY <1>1, ReturnPasses, StopHalts DEF Discard

\* The deadline ends a deploy where it is and drops its evictions.
LEMMA TimeoutMoves ==
  ASSUME BaseInv, NEW d \in Deploys, Timeout(d)
  PROVE  /\ pc[d] \in DeadlineSteps /\ InFlight(d) /\ pc[d] # "accepted"
         /\ MovesTo(d, {"done"}) /\ ctx'[d] = ctx[d] /\ file'[Target(d)] = file[Target(d)]
         /\ Marks(d) /\ td'[d] = NoTeardown /\ SameRoute(d)
         /\ Still \/ (pc[d] = "starting" /\ Runs(d))
<1>1. pc[d] \in DeadlineSteps /\ InFlight(d) /\ pc[d] # "accepted"
  BY PreviewAssumption DEF Timeout, TimedSteps, InFlight
<1>2. td'[d] = NoTeardown /\ \A t \in Tasks \ {d} : td'[t] = td[t]
  BY <1>1, InFlightHas DEF Timeout, PreviewTypeOK
<1>3. Marks(d) /\ \A q \in Previews \ {Target(d)} : entry'[q] = entry[q]
  BY <1>1, WithStatusMarks DEF Timeout, Fail
<1>4. MovesTo(d, {"done"}) /\ ctx'[d] = ctx[d]
  BY <1>1, <1>2, <1>3, ReturnMoves DEF Timeout, Fail
<1>5. Still \/ (pc[d] = "starting" /\ Runs(d))
  BY StartedRuns DEF Timeout, Still
<1> QED BY <1>1, <1>2, <1>3, <1>4, <1>5 DEF Timeout, Fail, SameRoute

-----------------------------------------------------------------------------
(* The other steps.                                                        *)

\* The first of a list, and the rest of it.
LEMMA QueueParts ==
  ASSUME NEW q \in Seq(Previews), q # <<>>
  PROVE  /\ Head(q) \in Previews /\ Tail(q) \in Seq(Previews) /\ Contains(q, Head(q))
         /\ \A x : Contains(Tail(q), x) => Contains(q, x)
         /\ \A x : Contains(q, x) => x = Head(q) \/ Contains(Tail(q), x)
<1>1. Len(q) \in Nat \ {0} /\ Head(q) = q[1] /\ q \in [1 .. Len(q) -> Previews]
  OBVIOUS
<1>2. /\ Tail(q) \in Seq(Previews) /\ Len(Tail(q)) = Len(q) - 1
      /\ \A i \in 1 .. Len(q) - 1 : Tail(q)[i] = q[i + 1]
  OBVIOUS
<1>3. Head(q) \in Previews /\ Contains(q, Head(q))
  BY <1>1 DEF Contains
<1>4. \A x : Contains(Tail(q), x) => Contains(q, x)
  <2> SUFFICES ASSUME NEW x, NEW i \in 1 .. Len(q) - 1, q[i + 1] = x
               PROVE  Contains(q, x)
    BY <1>2 DEF Contains
  <2>1. i + 1 \in 1 .. Len(q)
    BY <1>1
  <2> QED BY <2>1 DEF Contains
<1>5. \A x : Contains(q, x) => x = Head(q) \/ Contains(Tail(q), x)
  <2> SUFFICES ASSUME NEW x, NEW i \in 1 .. Len(q), q[i] = x, i # 1
               PROVE  Contains(Tail(q), x)
    BY <1>1 DEF Contains
  <2>1. i - 1 \in 1 .. Len(q) - 1 /\ q[(i - 1) + 1] = x
    BY <1>1
  <2> QED BY <1>2, <2>1 DEF Contains
<1> QED BY <1>2, <1>3, <1>4, <1>5

\* Only the task t changes where it is in a teardown.
OnlyTask(t) ==
  /\ \A x \in Tasks \ {t} : td'[x] = td[x]
  /\ lock' = lock /\ pc' = pc /\ ctx' = ctx /\ up' = up
Dropped(t) == [NoTeardown EXCEPT !.queue = Tail(td[t].queue)]

\* A task in the middle of a teardown has a preview to tear down.
LEMMA TearingHas ==
  ASSUME BaseInv, NEW t \in Tasks, td[t].step # "read" \/ td[t].queue # <<>>
  PROVE  /\ up /\ td[t] \in Teardown /\ td[t].queue \in Seq(Previews) /\ td[t].queue # <<>>
         /\ Head(td[t].queue) \in Previews /\ PreviewTypeOK
         /\ entry[Head(td[t].queue)] \in Entry \cup {Nil}
         /\ td[t].unit \in Deploys \cup {Nil} /\ td[t].routed \in BOOLEAN
<1>1. PreviewTypeOK /\ td[t] \in Teardown /\ td[t].queue # <<>> /\ up
  BY DEF BaseInv, PreviewTypeOK, TaskInv, NoTeardown
<1>2. td[t].queue \in Seq(Previews) /\ td[t].unit \in Deploys \cup {Nil} /\ td[t].routed \in BOOLEAN
  BY <1>1 DEF Teardown, Option
<1>3. Head(td[t].queue) \in Previews
  BY <1>1, <1>2, QueueParts
<1> QED BY <1>1, <1>2, <1>3 DEF PreviewTypeOK, Option

\* What the entry says is read, or the preview is gone already.
LEMMA TeardownReadMoves ==
  ASSUME BaseInv, NEW t \in Tasks, TeardownRead(t)
  PROVE  /\ td[t].queue # <<>> /\ td[t].step = "read" /\ OnlyTask(t)
         /\ Still /\ route' = route /\ entry' = entry /\ file' = file
         /\ LET e == entry[Head(td[t].queue)] IN
            \/ e = Nil /\ td'[t] = Dropped(t)
            \/ e # Nil /\ td'[t] = [step |-> "stop", queue |-> td[t].queue,
                                    unit |-> e.unit, routed |-> e.domain]
<1> DEFINE e == entry[Head(td[t].queue)]
<1>1. td[t].queue # <<>> /\ td[t].step = "read"
  BY DEF TeardownRead
<1>2. PreviewTypeOK /\ td[t] \in Teardown
  BY <1>1, TearingHas
<1>3. CASE e = Nil
  BY <1>1, <1>2, <1>3 DEF TeardownRead, Drop, OnlyTask, Still, Dropped, PreviewTypeOK
<1>4. CASE e # Nil
  <2>1. td' = [td EXCEPT ![t].step = "stop", ![t].unit = e.unit, ![t].routed = e.domain]
    BY <1>4 DEF TeardownRead
  <2>2. td'[t] = [step |-> "stop", queue |-> td[t].queue, unit |-> e.unit, routed |-> e.domain]
    BY <1>2, <2>1 DEF PreviewTypeOK, Teardown
  <2> QED BY <1>1, <1>2, <1>4, <2>1, <2>2 DEF TeardownRead, OnlyTask, Still, PreviewTypeOK
<1> QED BY <1>3, <1>4

\* The task goes on with the same preview.
GoesOn(t, step) == td'[t] = [td[t] EXCEPT !.step = step]

\* The unit that was read is stopped.
LEMMA TeardownStopMoves ==
  ASSUME BaseInv, NEW t \in Tasks, TeardownStop(t)
  PROVE  /\ td[t].step = "stop" /\ OnlyTask(t)
         /\ route' = route /\ entry' = entry /\ file' = file
         /\ IF td[t].routed THEN GoesOn(t, "unroute") ELSE GoesOn(t, "remove")
         /\ Halts(td[t].unit) \/ (Fails("stop") /\ Still)
<1>1. td[t].step = "stop"
  BY DEF TeardownStop
<1>2. PreviewTypeOK /\ td[t].unit \in Deploys \cup {Nil}
  BY <1>1, TearingHas
<1> QED BY <1>1, <1>2, StopHalts DEF TeardownStop, OnlyTask, GoesOn, PreviewTypeOK

\* The route is removed.
LEMMA TeardownUnrouteMoves ==
  ASSUME BaseInv, NEW t \in Tasks, TeardownUnroute(t)
  PROVE  /\ td[t].step = "unroute" /\ OnlyTask(t) /\ Still /\ entry' = entry /\ file' = file
         /\ GoesOn(t, "remove")
         /\ \A q \in Previews \ {Head(td[t].queue)} : route'[q] = route[q]
         /\ \/ route'[Head(td[t].queue)] = Nil
            \/ Fails("unroute") /\ route' = route
<1>1. td[t].step = "unroute"
  BY DEF TeardownUnroute
<1>2. PreviewTypeOK /\ Head(td[t].queue) \in Previews
  BY <1>1, TearingHas
<1> QED BY <1>1, <1>2 DEF TeardownUnroute, UnrouteBestEffort, OnlyTask, GoesOn, Still, PreviewTypeOK

\* The entry and the file go.
LEMMA TeardownRemoveMoves ==
  ASSUME BaseInv, NEW t \in Tasks, TeardownRemove(t)
  PROVE  /\ td[t].step = "remove" /\ OnlyTask(t) /\ Still /\ route' = route
         /\ td'[t] = Dropped(t)
         /\ \A q \in Previews \ {Head(td[t].queue)} : entry'[q] = entry[q] /\ file'[q] = file[q]
         /\ entry'[Head(td[t].queue)] = Nil
         /\ \/ file'[Head(td[t].queue)] = Nil
            \/ Fails("delete") /\ file' = file
<1>1. td[t].step = "remove"
  BY DEF TeardownRemove
<1>2. PreviewTypeOK /\ Head(td[t].queue) \in Previews
  BY <1>1, TearingHas
<1> QED BY <1>1, <1>2 DEF TeardownRemove, Drop, Dropped, OnlyTask, Still, PreviewTypeOK

\* Nothing but lists changes.
Listed(t, S) ==
  /\ OnlyTask(t) /\ Still /\ route' = route /\ entry' = entry /\ file' = file
  /\ up /\ td[t] = NoTeardown
  /\ "overlap" \in Events \/ \A p \in S : ~Deploying(p)
  /\ \E q \in Seq(Previews) : /\ td'[t] = [NoTeardown EXCEPT !.queue = q]
                              /\ \A x : Contains(q, x) => x \in S

\* Who collects previews has a list of them, and did not have one.
LEMMA CollectMoves ==
  ASSUME BaseInv, NEW t \in Tasks, NEW S \in SUBSET Previews, Collect(t, S)
  PROVE  Listed(t, S)
<1>1. up /\ td[t] = NoTeardown /\ PreviewTypeOK
  BY DEF Collect, BaseInv, TaskInv
<1>2. PICK q \in SetToSeqs(S) : td' = [td EXCEPT ![t].queue = q]
  BY DEF Collect
<1>3. Cardinality(S) \in Nat
  BY PreviewAssumption, FS_Subset, FS_CardinalityType
<1>4. q \in [1 .. Cardinality(S) -> S]
  BY DEF SetToSeqs
<1>5. q \in Seq(S) /\ q \in Seq(Previews) /\ Len(q) = Cardinality(S)
  BY <1>3, <1>4
<1>6. \A x : Contains(q, x) => x \in S
  BY <1>4, <1>5 DEF Contains
<1>7. td'[t] = [NoTeardown EXCEPT !.queue = q] /\ \A x \in Tasks \ {t} : td'[x] = td[x]
  BY <1>1, <1>2 DEF PreviewTypeOK
<1> QED BY <1>1, <1>5, <1>6, <1>7 DEF Collect, Listed, OnlyTask, Still

\* The lists that the API and the reaper take on.
LEMMA Collected ==
  ASSUME BaseInv,
         \/ \E p \in Previews : HandlePreviewTeardown(p)
         \/ HandlePreviewTeardownAll
         \/ ReapExpired
  PROVE  \E t \in {"api", "reaper"} : \E S \in SUBSET Previews :
           (\A p \in S : entry[p] # Nil) /\ Listed(t, S)
<1>1. CASE \E p \in Previews : HandlePreviewTeardown(p)
  BY <1>1, CollectMoves DEF HandlePreviewTeardown, Tasks
<1>2. CASE HandlePreviewTeardownAll
  BY <1>2, CollectMoves DEF HandlePreviewTeardownAll, Tasks
<1>3. CASE ReapExpired
  BY <1>3, CollectMoves DEF ReapExpired, Expired, Tasks
<1> QED BY <1>1, <1>2, <1>3

\* A deploy is accepted.
Accepts(d, p) ==
  /\ up /\ up' = up /\ pc[d] = "idle" /\ lock[p] = Nil
  /\ pc'[d] = "accepted" /\ ctx'[d] = NewContext(p) /\ lock'[p] = d
  /\ \A x \in Deploys \ {d} : pc'[x] = pc[x] /\ ctx'[x] = ctx[x]
  /\ \A q \in Previews \ {p} : lock'[q] = lock[q]
  /\ entry' = entry /\ file' = file /\ units' = units /\ route' = route /\ td' = td

\* A deploy that is accepted has its preview, and nothing else changes.
LEMMA HandleMoves ==
  ASSUME BaseInv, NEW d \in Deploys, NEW p \in Previews, HandlePreviewDeploy(d, p)
  PROVE  Accepts(d, p)
  BY DEF HandlePreviewDeploy, Accepts, BaseInv, PreviewTypeOK

\* Time changes nothing but how long entries and files have to live.
Ages(e, f) ==
  /\ e = Nil <=> f = Nil
  /\ e # Nil => /\ f.status = e.status /\ f.unit = e.unit /\ f.port = e.port
                /\ f.domain = e.domain

\* Time makes entries older and changes nothing else in them.
LEMMA ElapseMoves ==
  ASSUME BaseInv, NEW n, Elapse(n)
  PROVE  /\ UNCHANGED <<lock, pc, ctx, units, route, td, clock, up>>
         /\ \A p \in Previews : Ages(entry[p], entry'[p]) /\ Ages(file[p], file'[p])
         /\ \A p \in Previews : entry[p] = file[p] => entry'[p] = file'[p]
         /\ entry' \in [Previews -> Option(Entry)] /\ file' \in [Previews -> Option(Entry)]
         /\ \A p \in Previews : entry[p] # Nil => entry'[p].at = entry[p].at
         /\ \A p \in Previews : file[p] # Nil => file'[p].at = file[p].at
<1> DEFINE IsLive(e) == e # Nil /\ e.at = n /\ e.ttl = "live"
           Past(e) == IF IsLive(e) THEN [e EXCEPT !.ttl = "expired"] ELSE e
<1>1. /\ entry' = [p \in Previews |-> Past(entry[p])]
      /\ file' = [p \in Previews |-> Past(file[p])]
      /\ UNCHANGED <<lock, pc, ctx, units, route, td, clock, up>>
  BY DEF Elapse
<1>2. \A e \in Entry \cup {Nil} :
        Past(e) \in Entry \cup {Nil} /\ Ages(e, Past(e)) /\ (e # Nil => Past(e).at = e.at)
  <2> TAKE e \in Entry \cup {Nil}
  <2>1. CASE ~IsLive(e)
    BY <2>1 DEF Ages
  <2>2. CASE IsLive(e)
    <3>1. e \in Entry
      BY <2>2
    <3>2. [e EXCEPT !.ttl = "expired"] \in Entry
      BY <3>1 DEF Entry
    <3> QED BY <2>2, <3>1, <3>2, NilFresh DEF Ages, Entry
  <2> QED BY <2>1, <2>2
<1>3. \A p \in Previews : entry[p] \in Entry \cup {Nil} /\ file[p] \in Entry \cup {Nil}
  BY DEF BaseInv, PreviewTypeOK, Option
<1> HIDE DEF Past
<1> QED BY <1>1, <1>2, <1>3 DEF Option

-----------------------------------------------------------------------------
(* Types.                                                                  *)

\* The types of the state, without the relations between its parts.
Shapes ==
  /\ lock \in [Previews -> Option(Deploys)]
  /\ pc \in [Deploys -> Steps]
  /\ ctx \in [Deploys -> Context]
  /\ entry \in [Previews -> Option(Entry)]
  /\ file \in [Previews -> Option(Entry)]
  /\ units \in [Deploys -> Option(HostPorts)]
  /\ route \in [Previews -> Option(HostPorts)]
  /\ td \in [Tasks -> Teardown]
  /\ clock \in Nat
  /\ up \in BOOLEAN

Dated == \A p \in Previews : /\ entry[p] # Nil => entry[p].at <= clock
                             /\ file[p] # Nil => file[p].at <= clock
Guarded == \A p \in Previews : lock[p] # Nil =>
             pc[lock[p]] \notin {"idle", "done"} /\ ctx[lock[p]].preview = p

\* The type invariant, in the three parts that are proved one by one.
LEMMA TypeParts == PreviewTypeOK <=> Shapes /\ Dated /\ Guarded
  BY DEF PreviewTypeOK, Shapes, Dated, Guarded

\* Marking an entry keeps its type and its date.
LEMMA WithStatusType ==
  ASSUME Shapes, NEW p \in Previews, NEW s \in {"not_deployed", "deploying", "running", "failed"}
  PROVE  /\ WithStatus(p, s) \in [Previews -> Option(Entry)]
         /\ \A q \in Previews : WithStatus(p, s)[q] # Nil =>
              entry[q] # Nil /\ WithStatus(p, s)[q].at = entry[q].at
<1>1. CASE entry[p] = Nil
  BY <1>1 DEF WithStatus, Shapes
<1>2. CASE entry[p] # Nil
  <2>1. entry[p] \in Entry /\ entry \in [Previews -> Option(Entry)]
    BY <1>2 DEF Shapes, Option
  <2>2. [entry[p] EXCEPT !.status = s] \in Entry /\ [entry[p] EXCEPT !.status = s].at = entry[p].at
    BY <2>1 DEF Entry
  <2>3. WithStatus(p, s) = [entry EXCEPT ![p] = [entry[p] EXCEPT !.status = s]]
    BY <1>2 DEF WithStatus
  <2> QED BY <1>2, <2>1, <2>2, <2>3 DEF Option
<1> QED BY <1>1, <1>2

\* The ways a step of a task ends.
LEMMA AdvanceShapes ==
  ASSUME BaseInv, NEW d \in Deploys, InFlight(d), NEW s \in Steps, NEW c \in Context, Advance(d, s, c)
  PROVE  /\ lock' \in [Previews -> Option(Deploys)] /\ pc' \in [Deploys -> Steps]
         /\ ctx' \in [Deploys -> Context] /\ clock' \in Nat /\ up' \in BOOLEAN /\ clock' = clock
  BY DEF Advance, BaseInv, PreviewTypeOK

\* The end of a task keeps the types of locks, steps and contexts.
LEMMA ReturnShapes ==
  ASSUME BaseInv, NEW d \in Deploys, InFlight(d), Return(d)
  PROVE  /\ lock' \in [Previews -> Option(Deploys)] /\ pc' \in [Deploys -> Steps]
         /\ ctx' \in [Deploys -> Context] /\ clock' \in Nat /\ up' \in BOOLEAN /\ clock' = clock
<1>1. "done" \in Steps /\ Nil \in Option(Deploys)
  BY DEF Steps, Option
<1> QED BY <1>1 DEF Return, BaseInv, PreviewTypeOK

\* A task that fails, at once or after it removed its unit.
LEMMA FailShapes ==
  ASSUME BaseInv, NEW d \in Deploys, InFlight(d), Fail(d) \/ FailAndDiscard(d)
  PROVE  /\ lock' \in [Previews -> Option(Deploys)] /\ pc' \in [Deploys -> Steps]
         /\ ctx' \in [Deploys -> Context] /\ clock' \in Nat /\ up' \in BOOLEAN
         /\ entry' \in [Previews -> Option(Entry)] /\ file' = file /\ Dated'
<1>1. /\ lock' \in [Previews -> Option(Deploys)] /\ pc' \in [Deploys -> Steps]
      /\ ctx' \in [Deploys -> Context] /\ clock' \in Nat /\ up' \in BOOLEAN /\ clock' = clock
  <2>1. "discarding" \in Steps
    BY DEF Steps, TimedSteps
  <2> QED BY <2>1, AdvanceShapes, ReturnShapes, InFlightHas DEF Fail, FailAndDiscard
<1>2. entry' = WithStatus(Target(d), "failed") /\ file' = file /\ Target(d) \in Previews
  BY InFlightHas DEF Fail, FailAndDiscard
<1>3. Shapes /\ Dated
  BY TypeParts DEF BaseInv
<1>4. entry' \in [Previews -> Option(Entry)]
  BY <1>2, <1>3, WithStatusType
<1>5. Dated'
  BY <1>1, <1>2, <1>3, WithStatusType DEF Dated
<1> QED BY <1>1, <1>2, <1>4, <1>5

\* A list of previews, and a teardown of the first of it, are well typed.
LEMMA TeardownTypes ==
  /\ NoTeardown \in Teardown
  /\ \A q \in Seq(Previews) : [NoTeardown EXCEPT !.queue = q] \in Teardown
  /\ \A x \in Teardown, s \in {"read", "stop", "unroute", "remove"} :
       [x EXCEPT !.step = s] \in Teardown
<1>1. NoTeardown \in Teardown
  BY DEF NoTeardown, Teardown, Option
<1> QED BY <1>1 DEF Teardown

\* Every step of a deploy task, and its deadline, is a step of the task alone.
LEMMA TaskMoves ==
  ASSUME BaseInv, NEW d \in Deploys, DeployTask(d) \/ Timeout(d)
  PROVE  InFlight(d) /\ MovesTo(d, Steps \ {"idle"})
<1>1. CASE Capture(d)
  BY <1>1, CaptureMoves DEF Captures, GivesUp, MovesTo, InFlight, Steps, TimedSteps
<1>2. CASE Pull(d)
  BY <1>2, PullMoves DEF Passes, GivesUp, MovesTo, InFlight, Steps, TimedSteps
<1>3. CASE Configure(d)
  BY <1>3, ConfigureMoves DEF Configures, Passes, GivesUp, MovesTo, InFlight, Steps, TimedSteps
<1>4. CASE TearDownOld(d)
  BY <1>4, TearDownOldMoves DEF Passes, MovesTo, InFlight, Steps, TimedSteps
<1>5. CASE UnrouteOld(d)
  BY <1>5, UnrouteOldMoves DEF Passes, MovesTo, InFlight, Steps, TimedSteps
<1>6. CASE Start(d)
  BY <1>6, StartMoves DEF Starts, GivesUp, Discards, MovesTo, InFlight, Steps, TimedSteps
<1>7. CASE Health(d)
  BY <1>7, HealthMoves DEF Passes, GivesUp, Discards, MovesTo, InFlight, Steps, TimedSteps
<1>8. CASE Hooks(d)
  BY <1>8, HooksMoves DEF Passes, Discards, MovesTo, InFlight, Steps, TimedSteps
<1>9. CASE Switch(d)
  BY <1>9, SwitchMoves DEF Passes, Discards, MovesTo, InFlight, Steps, TimedSteps
<1>10. CASE Complete(d)
  BY <1>10, CompleteMoves DEF Completes, MovesTo, InFlight, Steps, TimedSteps
<1>11. CASE Discard(d)
  BY <1>11, DiscardMoves DEF Passes, MovesTo, InFlight, Steps, TimedSteps
<1>12. CASE Timeout(d)
  BY <1>12, TimeoutMoves DEF MovesTo, Steps, TimedSteps
<1> QED BY <1>1, <1>2, <1>3, <1>4, <1>5, <1>6, <1>7, <1>8, <1>9, <1>10, <1>11, <1>12
        DEF DeployTask

\* A guard is held by a deploy in flight of its preview.
LEMMA TaskGuarded ==
  ASSUME BaseInv, NEW d \in Deploys, InFlight(d), MovesTo(d, Steps \ {"idle"}),
         lock' \in [Previews -> Option(Deploys)]
  PROVE  Guarded'
<1>1. Guarded /\ lock \in [Previews -> Option(Deploys)]
  BY TypeParts DEF BaseInv, Shapes
<1> SUFFICES ASSUME NEW p \in Previews, lock'[p] # Nil
             PROVE  pc'[lock'[p]] \notin {"idle", "done"} /\ ctx'[lock'[p]].preview = p
  BY DEF Guarded
<1>2. CASE p = Target(d)
  <2>1. lock'[p] = d /\ pc'[d] # "done"
    BY <1>2, InFlightHas DEF MovesTo
  <2> QED BY <2>1, <1>2 DEF MovesTo, Target
<1>3. CASE p # Target(d)
  <2>1. lock'[p] = lock[p] /\ lock[p] \in Deploys
    BY <1>1, <1>3 DEF MovesTo, Option
  <2>2. lock[p] # d
    BY <1>1, <1>3, <2>1, NilFresh DEF Guarded, Target
  <2> QED BY <1>1, <2>1, <2>2, NilFresh DEF MovesTo, Guarded
<1> QED BY <1>2, <1>3

\* The parts of the state that a task leaves alone.
LEMMA KeptShapes ==
  ASSUME BaseInv
  PROVE  /\ Shapes /\ Dated /\ Guarded
         /\ UNCHANGED td => td' \in [Tasks -> Teardown]
         /\ UNCHANGED file => file' \in [Previews -> Option(Entry)]
         /\ UNCHANGED units => units' \in [Deploys -> Option(HostPorts)]
         /\ UNCHANGED route => route' \in [Previews -> Option(HostPorts)]
  BY TypeParts DEF BaseInv, Shapes

\* Every step of a deploy task keeps the types.
LEMMA TaskShapes ==
  ASSUME BaseInv, NEW d \in Deploys, DeployTask(d) \/ Timeout(d)
  PROVE  Shapes' /\ Dated'
<1> DEFINE p == Target(d)
<1>1. /\ InFlight(d) /\ p \in Previews /\ d \in Tasks /\ ctx[d] \in Context /\ td[d] \in Teardown
      /\ PreviewTypeOK /\ Shapes /\ Dated /\ entry[p] \in Entry \cup {Nil}
  BY TaskMoves, InFlightHas, KeptShapes
<1>2. {"pulling", "configuring", "evicting", "unrouting_old", "starting", "health", "hooks",
       "switching", "completing", "discarding", "done"} \subseteq Steps
  BY DEF Steps, TimedSteps
<1>3. ASSUME Fail(d) \/ FailAndDiscard(d), td' \in [Tasks -> Teardown],
             units' \in [Deploys -> Option(HostPorts)], route' \in [Previews -> Option(HostPorts)]
      PROVE  Shapes' /\ Dated'
  BY <1>1, <1>3, FailShapes DEF Shapes
<1>4. ASSUME NEW s \in Steps, Advance(d, s, ctx[d]) \/ Return(d), UNCHANGED <<entry, file, td>>,
             units' \in [Deploys -> Option(HostPorts)], route' \in [Previews -> Option(HostPorts)]
      PROVE  Shapes' /\ Dated'
  BY <1>1, <1>4, AdvanceShapes, ReturnShapes DEF Shapes, Dated
<1>5. CASE Capture(d)
  <2>1. CASE Fail(d)
    BY <1>3, <1>5, <2>1, KeptShapes DEF Capture
  <2>2. CASE ~Fail(d)
    <3> DEFINE old == IF entry[p] = Nil THEN Fresh ELSE entry[p]
    <3>1. /\ pc' = [pc EXCEPT ![d] = "pulling"]
          /\ ctx' = [ctx EXCEPT ![d].old = old.unit, ![d].oldPod = old.pod]
          /\ entry' = [entry EXCEPT ![p] = Fresh] /\ clock' = clock + 1
          /\ UNCHANGED <<lock, file, up, units, route, td>>
      BY <1>5, <2>2 DEF Capture
    <3>2. old \in Entry /\ Fresh \in Entry
      BY <1>1, FreshEntry
    <3>3. ctx' \in [Deploys -> Context]
      <4>1. [ctx[d] EXCEPT !.old = old.unit, !.oldPod = old.pod] \in Context
        BY <1>1, <3>2 DEF Context, Entry
      <4>2. ctx' = [ctx EXCEPT ![d] = [ctx[d] EXCEPT !.old = old.unit, !.oldPod = old.pod]]
        BY <1>1, <3>1 DEF PreviewTypeOK
      <4> QED BY <1>1, <4>1, <4>2 DEF PreviewTypeOK
    <3>4. entry' \in [Previews -> Option(Entry)] /\ pc' \in [Deploys -> Steps] /\ clock' \in Nat
      BY <1>1, <1>2, <3>1, <3>2 DEF Shapes, Option
    <3>5. Fresh.at = clock + 1 /\ clock \in Nat /\ \A q \in Previews : entry[q] # Nil => entry[q].at \in Nat
      BY <1>1 DEF Fresh, Shapes, Option, Entry
    <3>6. \A q \in Previews : file[q] # Nil => file[q].at \in Nat
      BY <1>1 DEF Shapes, Option, Entry
    <3>7. Dated'
      BY <1>1, <3>1, <3>5, <3>6 DEF Dated, Shapes
    <3> QED BY <1>1, <3>1, <3>3, <3>4, <3>7 DEF Shapes
  <2> QED BY <2>1, <2>2
<1>6. CASE Pull(d)
  BY <1>2, <1>3, <1>4, <1>6, KeptShapes DEF Pull
<1>7. CASE Configure(d)
  <2>1. CASE Fail(d) /\ UNCHANGED td
    BY <1>3, <1>7, <2>1, KeptShapes DEF Configure
  <2>2. CASE Return(d) /\ UNCHANGED <<entry, file, td>>
    BY <1>2, <1>4, <1>7, <2>2, KeptShapes DEF Configure
  <2>3. CASE \E k \in Kinds, ttl \in Ttls, victims \in Victims(p) :
               /\ Advance(d, "evicting", [ctx[d] EXCEPT !.kind = k])
               /\ entry' = IF entry[p] = Nil THEN entry
                           ELSE [entry EXCEPT ![p].domain = (k # "worker"), ![p].ttl = ttl]
               /\ td' = [td EXCEPT ![d].queue = victims]
               /\ UNCHANGED file
    <3>1. PICK k \in Kinds, ttl \in Ttls, q \in Victims(p) :
               /\ Advance(d, "evicting", [ctx[d] EXCEPT !.kind = k])
               /\ entry' = IF entry[p] = Nil THEN entry
                           ELSE [entry EXCEPT ![p].domain = (k # "worker"), ![p].ttl = ttl]
               /\ td' = [td EXCEPT ![d].queue = q]
               /\ UNCHANGED file
      BY <2>3
    <3>2. [ctx[d] EXCEPT !.kind = k] \in Context
      BY <1>1, PreviewAssumption DEF Context
    <3>3. q \in Seq(Previews)
      BY <1>1, VictimsRun
    <3>4. td' \in [Tasks -> Teardown]
      <4>1. [td[d] EXCEPT !.queue = q] \in Teardown
        BY <1>1, <3>3 DEF Teardown
      <4> QED BY <1>1, <3>1, <4>1 DEF Shapes
    <3>5. /\ entry' \in [Previews -> Option(Entry)]
          /\ \A x \in Previews : entry'[x] # Nil => entry[x] # Nil /\ entry'[x].at = entry[x].at
      <4>1. CASE entry[p] = Nil
        BY <1>1, <3>1, <4>1 DEF Shapes
      <4>2. CASE entry[p] # Nil
        <5> DEFINE f == [entry[p] EXCEPT !.domain = (k # "worker"), !.ttl = ttl]
        <5>1. ttl \in {"none", "live", "expired"} /\ entry[p] \in Entry
          BY <1>1, <4>2, PreviewAssumption
        <5>2. f \in Entry /\ f.at = entry[p].at
          BY <5>1 DEF Entry
        <5>3. entry' = [entry EXCEPT ![p] = f]
          BY <1>1, <3>1, <4>2 DEF Shapes
        <5> QED BY <1>1, <4>2, <5>2, <5>3 DEF Shapes, Option
      <4> QED BY <4>1, <4>2
    <3>6. Dated'
      BY <1>1, <3>1, <3>5 DEF Dated, Advance
    <3>7. units' = units /\ route' = route /\ file' = file
      BY <1>7, <3>1 DEF Configure
    <3> QED BY <1>1, <1>2, <3>1, <3>2, <3>4, <3>5, <3>6, <3>7, AdvanceShapes DEF Shapes
  <2> QED BY <1>7, <2>1, <2>2, <2>3 DEF Configure
<1>8. CASE TearDownOld(d)
  <2>1. ctx[d].old \in Deploys \cup {Nil}
    BY <1>1 DEF Context, Option
  <2>2. units' \in [Deploys -> Option(HostPorts)]
    BY <1>8, <2>1, StopHalts DEF TearDownOld
  <2>3. PICK s \in Steps : Advance(d, s, ctx[d])
    BY <1>2, <1>8 DEF TearDownOld
  <2> QED BY <1>4, <1>8, <2>2, <2>3, KeptShapes DEF TearDownOld
<1>9. CASE UnrouteOld(d)
  <2>1. route' \in [Previews -> Option(HostPorts)]
    BY <1>1, <1>9 DEF UnrouteOld, UnrouteBestEffort, Shapes, Option
  <2> QED BY <1>2, <1>4, <1>9, <2>1, KeptShapes DEF UnrouteOld
<1>10. CASE Start(d)
  <2>1. CASE Fail(d) \/ FailAndDiscard(d)
    BY <1>3, <1>10, <2>1, StartedRuns, KeptShapes DEF Start
  <2>2. CASE /\ units' \in Started(d)
             /\ Advance(d, "health", [ctx[d] EXCEPT !.port = units'[d]])
             /\ entry' = IF entry[p] = Nil THEN entry
                         ELSE [entry EXCEPT ![p].unit = d, ![p].pod = IsPod(d),
                                            ![p].port = units'[d]]
             /\ UNCHANGED file
    <3>1. units'[d] \in HostPorts /\ units' \in [Deploys -> Option(HostPorts)]
      BY <2>2, StartedRuns
    <3>2. [ctx[d] EXCEPT !.port = units'[d]] \in Context
      BY <1>1, <3>1 DEF Context
    <3>3. /\ entry' \in [Previews -> Option(Entry)]
          /\ \A x \in Previews : entry'[x] # Nil => entry[x] # Nil /\ entry'[x].at = entry[x].at
      <4>1. CASE entry[p] = Nil
        BY <1>1, <2>2, <4>1 DEF Shapes
      <4>2. CASE entry[p] # Nil
        <5> DEFINE f == [entry[p] EXCEPT !.unit = d, !.pod = IsPod(d), !.port = units'[d]]
        <5>1. IsPod(d) \in BOOLEAN /\ entry[p] \in Entry
          BY <1>1, <4>2 DEF IsPod
        <5>2. f \in Entry /\ f.at = entry[p].at
          BY <3>1, <5>1 DEF Entry, Option
        <5>3. entry' = [entry EXCEPT ![p] = f]
          BY <1>1, <2>2, <4>2 DEF Shapes
        <5> QED BY <1>1, <4>2, <5>2, <5>3 DEF Shapes, Option
      <4> QED BY <4>1, <4>2
    <3>4. Dated'
      BY <1>1, <2>2, <3>3 DEF Dated, Advance
    <3>5. td' = td /\ route' = route /\ file' = file
      BY <1>10, <2>2 DEF Start
    <3> QED BY <1>1, <1>2, <2>2, <3>1, <3>2, <3>3, <3>4, <3>5, AdvanceShapes DEF Shapes
  <2> QED BY <1>10, <2>1, <2>2 DEF Start
<1>11. CASE Health(d)
  <2>1. units' \in [Deploys -> Option(HostPorts)]
    <3>1. Stopped(d) \in [Deploys -> Option(HostPorts)]
      BY <1>1, NilFresh DEF Stopped, Shapes, Option
    <3> QED BY <1>11, <3>1, KeptShapes DEF Health
  <2>2. CASE Fail(d) \/ FailAndDiscard(d)
    BY <1>3, <1>11, <2>1, <2>2, KeptShapes DEF Health
  <2>3. CASE /\ Advance(d, IF IsPod(d) THEN "switching" ELSE "hooks", ctx[d])
             /\ UNCHANGED <<entry, file, units>>
    <3>1. PICK s \in Steps : Advance(d, s, ctx[d])
      BY <1>2, <2>3
    <3> QED BY <1>4, <1>11, <2>1, <2>3, <3>1, KeptShapes DEF Health
  <2> QED BY <1>11, <2>2, <2>3 DEF Health
<1>12. CASE Hooks(d)
  <2>1. CASE FailAndDiscard(d)
    BY <1>3, <1>12, <2>1, KeptShapes DEF Hooks
  <2>2. CASE Advance(d, IF IsWorker(d) THEN "completing" ELSE "switching", ctx[d]) /\ UNCHANGED <<entry, file>>
    <3>1. PICK s \in Steps : Advance(d, s, ctx[d])
      BY <1>2, <2>2
    <3> QED BY <1>4, <1>12, <2>2, <3>1, KeptShapes DEF Hooks
  <2> QED BY <1>12, <2>1, <2>2 DEF Hooks
<1>13. CASE Switch(d)
  <2>1. ctx[d].port \in Option(HostPorts)
    BY <1>1 DEF Context, Option
  <2>2. route' \in [Previews -> Option(HostPorts)]
    BY <1>1, <1>13, <2>1 DEF Switch, Shapes
  <2> QED BY <1>2, <1>3, <1>4, <1>13, <2>2, KeptShapes DEF Switch
<1>14. CASE Complete(d)
  <2>1. /\ entry' = IF entry[p] = Nil THEN entry
                    ELSE [entry EXCEPT ![p].status = "running", ![p].port = ctx[d].port]
        /\ \/ file' = IF entry[p] = Nil THEN file ELSE [file EXCEPT ![p] = entry'[p]]
           \/ file' = file
        /\ Return(d) /\ UNCHANGED <<units, route, td>>
    BY <1>14 DEF Complete
  <2>2. /\ entry' \in [Previews -> Option(Entry)]
        /\ \A x \in Previews : entry'[x] # Nil => entry[x] # Nil /\ entry'[x].at = entry[x].at
    <3>1. CASE entry[p] = Nil
      BY <1>1, <2>1, <3>1 DEF Shapes
    <3>2. CASE entry[p] # Nil
      <4> DEFINE f == [entry[p] EXCEPT !.status = "running", !.port = ctx[d].port]
      <4>1. entry[p] \in Entry /\ ctx[d].port \in Option(HostPorts)
        BY <1>1, <3>2 DEF Context, Option
      <4>2. f \in Entry /\ f.at = entry[p].at
        BY <4>1 DEF Entry
      <4>3. entry' = [entry EXCEPT ![p] = f]
        BY <1>1, <2>1, <3>2 DEF Shapes
      <4> QED BY <1>1, <3>2, <4>2, <4>3 DEF Shapes, Option
    <3> QED BY <3>1, <3>2
  <2>3. /\ file' \in [Previews -> Option(Entry)]
        /\ \A x \in Previews : file'[x] \in {file[x], entry'[x]}
    BY <1>1, <2>1, <2>2 DEF Shapes
  <2>4. clock' = clock /\ Dated'
    BY <1>1, <2>1, <2>2, <2>3 DEF Dated, Return
  <2> QED BY <1>1, <2>1, <2>2, <2>3, <2>4, ReturnShapes DEF Shapes
<1>15. CASE Discard(d)
  <2>1. units' \in [Deploys -> Option(HostPorts)]
    BY <1>15, StopHalts DEF Discard
  <2> QED BY <1>2, <1>4, <1>15, <2>1, KeptShapes DEF Discard
<1>16. CASE Timeout(d)
  <2>1. td' \in [Tasks -> Teardown]
    BY <1>1, <1>16, TeardownTypes DEF Timeout, Shapes
  <2>2. units' \in [Deploys -> Option(HostPorts)]
    BY <1>16, StartedRuns, KeptShapes DEF Timeout
  <2> QED BY <1>3, <1>16, <2>1, <2>2, KeptShapes DEF Timeout
<1> QED BY <1>5, <1>6, <1>7, <1>8, <1>9, <1>10, <1>11, <1>12, <1>13, <1>14, <1>15, <1>16
        DEF DeployTask

\* The client leaves, and the lists of the API with it.
Leaves ==
  /\ "disconnect" \in Events /\ td'["api"] = NoTeardown
  /\ \A x \in Tasks \ {"api"} : td'[x] = td[x]
  /\ UNCHANGED <<lock, pc, ctx, entry, file, units, route, clock, up>>

\* A client that walks away ends what it waited for.
LEMMA DisconnectMoves ==
  ASSUME BaseInv, Disconnect
  PROVE  Leaves
  BY DEF Disconnect, Leaves, BaseInv, PreviewTypeOK, Tasks

\* slipd dies: what was in flight is over, and a create call may still take effect.
Dies ==
  /\ "crash" \in Events \/ Calm
  /\ up /\ ~up'
  /\ \A p \in Previews : lock'[p] = Nil /\ entry'[p] = Nil
  /\ \A d \in Deploys : pc'[d] = IF InFlight(d) THEN "done" ELSE pc[d]
  /\ \A t \in Tasks : td'[t] = NoTeardown
  /\ Still \/ \E d \in Deploys : pc[d] = "starting" /\ Runs(d)
  /\ UNCHANGED <<ctx, file, route, clock>>

\* A crash, or an exit that was asked for, ends all that slipd keeps in memory.
LEMMA CrashMoves ==
  ASSUME BaseInv, Crash
  PROVE  Dies
<1>1. Still \/ \E d \in Deploys : pc[d] = "starting" /\ Runs(d)
  BY StartedRuns DEF Crash, Still
<1> QED BY <1>1 DEF Crash, Dies

\* slipd comes back with what the files say.
Comes ==
  /\ ~up /\ up' /\ UNCHANGED <<lock, pc, ctx, file, units, td, clock>>
  /\ \A p \in Previews :
       /\ file[p] = Nil => entry'[p] = Nil /\ route'[p] = route[p]
       /\ file[p] # Nil =>
            /\ entry'[p] # Nil /\ entry'[p].unit = file[p].unit /\ entry'[p].port = file[p].port
            /\ entry'[p].domain = file[p].domain /\ entry'[p].at = file[p].at
            /\ route'[p] \in {route[p], file[p].port}
            /\ ~file[p].domain => route'[p] = route[p]
            /\ file[p].status = "running" /\ file[p].unit # Nil => entry'[p] = file[p]
            /\ entry'[p].status = "running" => file[p].unit # Nil

\* A boot loads what the files say.
LEMMA BootMoves ==
  ASSUME BaseInv, Boot
  PROVE  Comes /\ entry' \in [Previews -> Option(Entry)] /\ route' \in [Previews -> Option(HostPorts)]
<1>1. /\ ~up /\ up' /\ UNCHANGED <<lock, pc, ctx, file, units, td, clock>>
      /\ entry' = [p \in Previews |-> Loaded(file[p])]
      /\ route' = [p \in Previews |-> Reconciled(p, entry'[p])] \/ route' = route
  BY DEF Boot
<1>2. Shapes
  BY KeptShapes
<1>3. ASSUME NEW p \in Previews
      PROVE  /\ Loaded(file[p]) \in Option(Entry)
             /\ file[p] = Nil => Loaded(file[p]) = Nil
             /\ file[p] # Nil =>
                  LET e == Loaded(file[p]) IN
                  /\ e # Nil /\ e.unit = file[p].unit /\ e.port = file[p].port
                  /\ e.domain = file[p].domain /\ e.at = file[p].at
                  /\ file[p].status = "running" /\ file[p].unit # Nil => e = file[p]
                  /\ e.status = "running" => file[p].unit # Nil
  <2>1. CASE file[p] = Nil
    BY <2>1 DEF Loaded, Option
  <2>2. CASE file[p] # Nil
    <3>1. file[p] \in Entry
      BY <1>2, <2>2 DEF Shapes, Option
    <3>2. CASE file[p].unit # Nil
      <4>1. Loaded(file[p]) = [file[p] EXCEPT !.status = "running"]
        BY <2>2, <3>2 DEF Loaded
      <4>2. Loaded(file[p]) \in Entry
        BY <3>1, <4>1 DEF Entry
      <4> QED BY <2>2, <3>1, <3>2, <4>1, <4>2, NilFresh DEF Entry, Option
    <3>3. CASE file[p].unit = Nil
      <4>1. Loaded(file[p]) = [file[p] EXCEPT !.status = "not_deployed"]
        BY <2>2, <3>3 DEF Loaded
      <4>2. Loaded(file[p]) \in Entry
        BY <3>1, <4>1 DEF Entry
      <4> QED BY <2>2, <3>1, <3>3, <4>1, <4>2, NilFresh DEF Entry, Option
    <3> QED BY <3>2, <3>3
  <2> QED BY <2>1, <2>2
<1>4. \A p \in Previews : entry'[p] = Loaded(file[p])
  BY <1>1
<1>5. entry' \in [Previews -> Option(Entry)]
  BY <1>1, <1>3
<1>6. ASSUME NEW p \in Previews
      PROVE  /\ route'[p] = route[p] \/ (entry'[p] # Nil /\ entry'[p].domain /\ route'[p] = entry'[p].port)
             /\ route'[p] \in Option(HostPorts)
  <2>1. entry'[p] # Nil => entry'[p].port \in Option(HostPorts)
    BY <1>5 DEF Option, Entry
  <2> QED BY <1>1, <1>2, <2>1 DEF Reconciled, Shapes
<1>7. route' \in [Previews -> Option(HostPorts)]
  BY <1>1, <1>2, <1>6 DEF Shapes
<1>8. Comes
  BY <1>1, <1>3, <1>4, <1>6 DEF Comes
<1> QED BY <1>5, <1>7, <1>8

\* The other steps keep the types.
LEMMA OtherShapes ==
  ASSUME BaseInv,
         \/ \E d \in Deploys, p \in Previews : HandlePreviewDeploy(d, p)
         \/ \E t \in Tasks : TeardownTask(t)
         \/ \E p \in Previews : HandlePreviewTeardown(p)
         \/ \E n \in 1 .. clock : Elapse(n)
         \/ HandlePreviewTeardownAll \/ ReapExpired \/ Disconnect \/ Crash \/ Boot
  PROVE  PreviewTypeOK'
<1>1. Shapes /\ Dated /\ Guarded /\ PreviewTypeOK
  BY KeptShapes DEF BaseInv
<1>2. ASSUME NEW d \in Deploys, NEW p \in Previews, HandlePreviewDeploy(d, p)
      PROVE  PreviewTypeOK'
  <2>1. NewContext(p) \in Context
    BY DEF NewContext, Context, AllKinds, HostPorts, Option
  <2>2. Shapes' /\ Dated'
    BY <1>1, <1>2, <2>1 DEF HandlePreviewDeploy, Shapes, Dated, Steps, TimedSteps, Option
  <2>3. Accepts(d, p)
    BY <1>2, HandleMoves
  <2>4. \A q \in Previews : lock[q] # Nil => lock[q] # d /\ lock[q] \in Deploys
    BY <1>1, <2>3 DEF Guarded, Shapes, Option, Accepts
  <2>5. Guarded'
    BY <1>1, <2>3, <2>4, NilFresh DEF Guarded, Accepts, NewContext
  <2> QED BY <2>2, <2>5, TypeParts DEF Shapes, Dated, Guarded, PreviewTypeOK
<1>3. ASSUME NEW t \in Tasks, TeardownTask(t)
      PROVE  PreviewTypeOK'
  <2>1. /\ td[t].queue # <<>> /\ td[t] \in Teardown /\ Head(td[t].queue) \in Previews
        /\ td[t].queue \in Seq(Previews) /\ entry[Head(td[t].queue)] \in Entry \cup {Nil}
        /\ td[t].unit \in Deploys \cup {Nil}
    BY <1>3, TearingHas DEF TeardownTask, TeardownRead, TeardownStop, TeardownUnroute, TeardownRemove
  <2>2. Dropped(t) \in Teardown
    BY <2>1, QueueParts, TeardownTypes DEF Dropped
  <2>3. td' \in [Tasks -> Teardown]
    <3>1. CASE TeardownRead(t)
      <4>1. CASE Drop(t)
        BY <1>1, <2>2, <4>1 DEF Drop, Dropped, Shapes
      <4>2. CASE ~Drop(t)
        <5> DEFINE e == entry[Head(td[t].queue)]
        <5>1. e # Nil /\ td' = [td EXCEPT ![t].step = "stop", ![t].unit = e.unit, ![t].routed = e.domain]
          BY <3>1, <4>2 DEF TeardownRead
        <5>2. e \in Entry
          BY <2>1, <5>1
        <5>3. [td[t] EXCEPT !.step = "stop", !.unit = e.unit, !.routed = e.domain] \in Teardown
          BY <2>1, <5>2 DEF Teardown, Entry
        <5> QED BY <1>1, <5>1, <5>3 DEF Shapes
      <4> QED BY <4>1, <4>2
    <3>2. CASE TeardownStop(t)
      BY <1>1, <2>1, <3>2, TeardownTypes DEF TeardownStop, Shapes
    <3>3. CASE TeardownUnroute(t)
      BY <1>1, <2>1, <3>3, TeardownTypes DEF TeardownUnroute, Shapes
    <3>4. CASE TeardownRemove(t)
      BY <1>1, <2>2, <3>4 DEF TeardownRemove, Drop, Dropped, Shapes
    <3> QED BY <1>3, <3>1, <3>2, <3>3, <3>4 DEF TeardownTask
  <2>4. /\ entry' \in [Previews -> Option(Entry)] /\ file' \in [Previews -> Option(Entry)]
        /\ \A p \in Previews : entry'[p] \in {entry[p], Nil} /\ file'[p] \in {file[p], Nil}
    BY <1>1, <1>3, <2>1 DEF TeardownTask, TeardownRead, TeardownStop, TeardownUnroute,
                            TeardownRemove, Shapes, Option
  <2>5. units' \in [Deploys -> Option(HostPorts)]
    BY <1>1, <1>3, <2>1, StopHalts DEF TeardownTask, TeardownRead, TeardownStop, TeardownUnroute,
                            TeardownRemove, Shapes
  <2>6. route' \in [Previews -> Option(HostPorts)]
    BY <1>1, <1>3, <2>1 DEF TeardownTask, TeardownRead, TeardownStop, TeardownUnroute,
                            TeardownRemove, UnrouteBestEffort, Shapes, Option
  <2>7. UNCHANGED <<lock, pc, ctx, clock, up>>
    BY <1>3 DEF TeardownTask, TeardownRead, TeardownStop, TeardownUnroute, TeardownRemove
  <2>8. Shapes' /\ Dated' /\ Guarded'
    BY <1>1, <2>3, <2>4, <2>5, <2>6, <2>7 DEF Shapes, Dated, Guarded
  <2> QED BY <2>8, TypeParts DEF Shapes, Dated, Guarded, PreviewTypeOK
<1>4. ASSUME NEW t \in Tasks, NEW S, Listed(t, S), td' \in [Tasks -> Teardown], clock' = clock
      PROVE  PreviewTypeOK'
  <2>1. Shapes' /\ Dated' /\ Guarded'
    BY <1>1, <1>4 DEF Listed, OnlyTask, Still, Shapes, Dated, Guarded
  <2> QED BY <2>1 DEF Shapes, Dated, Guarded, PreviewTypeOK
<1>5. ASSUME NEW t \in {"api", "reaper"}, NEW S \in SUBSET Previews, Collect(t, S)
      PROVE  PreviewTypeOK'
  <2>1. t \in Tasks /\ Listed(t, S)
    BY <1>5, CollectMoves DEF Tasks
  <2>2. PICK q \in SetToSeqs(S) : td' = [td EXCEPT ![t].queue = q]
    BY <1>5 DEF Collect
  <2>3. PICK r \in Seq(Previews) : td'[t] = [NoTeardown EXCEPT !.queue = r]
    BY <2>1 DEF Listed
  <2>4. td' \in [Tasks -> Teardown]
    BY <1>1, <2>1, <2>2, <2>3, TeardownTypes DEF Shapes
  <2> QED BY <1>4, <1>5, <2>1, <2>4 DEF Collect
<1>6. ASSUME NEW n \in 1 .. clock, Elapse(n)
      PROVE  PreviewTypeOK'
  <2>1. Shapes' /\ Guarded'
    BY <1>1, <1>6, ElapseMoves DEF Shapes, Guarded
  <2>2. Dated'
    BY <1>1, <1>6, ElapseMoves DEF Dated, Ages
  <2> QED BY <2>1, <2>2 DEF Shapes, Dated, Guarded, PreviewTypeOK
<1>7. CASE Disconnect
  <2>1. td' \in [Tasks -> Teardown]
    BY <1>1, <1>7, TeardownTypes DEF Disconnect, Shapes
  <2>2. Shapes' /\ Dated' /\ Guarded'
    BY <1>1, <1>7, <2>1 DEF Disconnect, Shapes, Dated, Guarded
  <2> QED BY <2>2 DEF Shapes, Dated, Guarded, PreviewTypeOK
<1>8. CASE Crash
  <2>1. units' \in [Deploys -> Option(HostPorts)]
    BY <1>8, StartedRuns, KeptShapes DEF Crash
  <2>2. Shapes' /\ Dated' /\ Guarded'
    BY <1>1, <1>8, <2>1, TeardownTypes
       DEF Crash, Shapes, Dated, Guarded, Option, Steps
  <2> QED BY <2>2 DEF Shapes, Dated, Guarded, PreviewTypeOK
<1>9. CASE Boot
  <2>1. Shapes' /\ Guarded'
    BY <1>1, <1>9, BootMoves DEF Comes, Shapes, Guarded
  <2>2. Dated'
    BY <1>1, <1>9, BootMoves DEF Comes, Dated
  <2> QED BY <2>1, <2>2 DEF Shapes, Dated, Guarded, PreviewTypeOK
<1>10. CASE (\E p \in Previews : HandlePreviewTeardown(p)) \/ HandlePreviewTeardownAll \/ ReapExpired
  <2>1. PICK t \in {"api", "reaper"}, S \in SUBSET Previews : Collect(t, S)
    BY <1>10 DEF HandlePreviewTeardown, HandlePreviewTeardownAll, ReapExpired, Expired
  <2> QED BY <1>5, <2>1
<1> QED BY <1>2, <1>3, <1>6, <1>7, <1>8, <1>9, <1>10

-----------------------------------------------------------------------------
(* BaseInv is inductive.                                                   *)

\* A task that is to tear down the previews q, and has read nothing yet.
Asked(q) == [NoTeardown EXCEPT !.queue = q]

\* What a step of the task of d does with the names it knows and with its list.
Handles(d) ==
  LET e == entry[Target(d)]
      f == entry'[Target(d)]
  IN /\ pc'[d] \in Unstarted => pc[d] \in Unstarted /\ units'[d] \in {units[d], Nil}
     /\ \A u \in Deploys \ {d} : units'[u] \in {units[u], Nil}
     /\ \/ td'[d] = td[d] /\ (pc[d] # "evicting" \/ td[d].queue = <<>>)
        \/ td'[d] = NoTeardown
        \/ pc'[d] = "evicting" /\ \E q \in Seq(Previews) : td'[d] = Asked(q)
     /\ f # Nil => \/ f.unit = Nil \/ (e # Nil /\ f.unit = e.unit)
                   \/ f.unit = d /\ pc'[d] = "health"
     /\ file'[Target(d)] \in {file[Target(d)], f}
     /\ ctx'[d].old \in {ctx[d].old, Nil} \/ (e # Nil /\ ctx'[d].old = e.unit)

\* A list that was just asked for starts with reading its first preview.
LEMMA EmptyList ==
  /\ NoTeardown.queue = <<>> /\ NoTeardown.unit = Nil /\ NoTeardown.step = "read"
  /\ Asked(<<>>) = NoTeardown
  /\ \A q : Asked(q).queue = q /\ Asked(q).unit = Nil /\ Asked(q).step = "read"
<1>1. NoTeardown.queue = <<>> /\ NoTeardown.unit = Nil /\ NoTeardown.step = "read"
  BY DEF NoTeardown
<1>2. [NoTeardown EXCEPT !.queue = NoTeardown.queue] = NoTeardown
  BY DEF NoTeardown
<1>3. \A q : Asked(q).queue = q /\ Asked(q).unit = Nil /\ Asked(q).step = "read"
  BY DEF Asked, NoTeardown
<1> QED BY <1>1, <1>2, <1>3 DEF Asked

\* Every step of a deploy task, and its deadline, does that.
LEMMA TaskHandles ==
  ASSUME BaseInv, NEW d \in Deploys, DeployTask(d) \/ Timeout(d)
  PROVE  Handles(d)
<1> USE DEF Handles
<1>1. CASE Capture(d)
  BY <1>1, CaptureMoves, FreshEntry
     DEF Captures, GivesUp, Calmly, Marks, MovesTo, Unstarted, Still
<1>2. CASE Pull(d)
  BY <1>2, PullMoves DEF Passes, Calmly, Keeps, GivesUp, Marks, MovesTo, Unstarted, Still
<1>3. CASE Configure(d)
  BY <1>3, ConfigureMoves
     DEF Configures, Asked, Passes, Calmly, Keeps, GivesUp, Marks, MovesTo, Unstarted, Still
<1>4. CASE TearDownOld(d)
  BY <1>4, TearDownOldMoves
     DEF Passes, Calmly, Keeps, MovesTo, Unstarted, Still, Halts, OnlyUnit
<1>5. CASE UnrouteOld(d)
  BY <1>5, UnrouteOldMoves DEF Passes, Calmly, Keeps, MovesTo, Unstarted, Still
<1>6. CASE Start(d)
  BY <1>6, StartMoves
     DEF Starts, GivesUp, Discards, Calmly, Marks, MovesTo, Unstarted, Still, Runs, OnlyUnit
<1>7. CASE Health(d)
  BY <1>7, HealthMoves
     DEF Passes, Keeps, GivesUp, Discards, Calmly, Marks, MovesTo, Unstarted, Still, Halts, OnlyUnit
<1>8. CASE Hooks(d)
  BY <1>8, HooksMoves DEF Passes, Keeps, Discards, Calmly, Marks, MovesTo, Unstarted, Still
<1>9. CASE Switch(d)
  BY <1>9, SwitchMoves DEF Passes, Keeps, Discards, Calmly, Marks, MovesTo, Unstarted, Still
<1>10. CASE Complete(d)
  BY <1>10, CompleteMoves DEF Completes, MovesTo, Unstarted, Still
<1>11. CASE Discard(d)
  BY <1>11, DiscardMoves DEF Passes, Keeps, Calmly, MovesTo, Unstarted, Still, Halts, OnlyUnit
<1>12. CASE Timeout(d)
  BY <1>12, TimeoutMoves DEF Marks, MovesTo, Unstarted, Still, Runs, OnlyUnit
<1> QED BY <1>1, <1>2, <1>3, <1>4, <1>5, <1>6, <1>7, <1>8, <1>9, <1>10, <1>11, <1>12
        DEF DeployTask

\* A unit that was started stays one of its preview.
LEMMA StaysStarted ==
  ASSUME BaseInv, NEW d \in Deploys, MovesTo(d, Steps \ {"idle"}), Handles(d)
  PROVE  \A u \in Deploys : \A p : StartedFor(u, p) => StartedFor(u, p)'
  BY DEF StartedFor, MovesTo, Handles

\* Every step of a deploy task keeps the basic invariant.
LEMMA TaskBase ==
  ASSUME BaseInv, NEW d \in Deploys, DeployTask(d) \/ Timeout(d)
  PROVE  BaseInv'
<1> DEFINE p == Target(d)
<1>1. /\ InFlight(d) /\ MovesTo(d, Steps \ {"idle"}) /\ Handles(d)
      /\ up /\ p \in Previews /\ lock[p] = d /\ d \in Tasks
      /\ \A u \in Deploys : \A q : StartedFor(u, q) => StartedFor(u, q)'
  BY TaskMoves, TaskHandles, InFlightHas, StaysStarted
<1>2. Shapes /\ LockInv /\ TaskInv /\ NameInv
  BY KeptShapes DEF BaseInv
<1>3. Shapes' /\ Dated'
  BY TaskShapes
<1>4. PreviewTypeOK'
  <2>1. Guarded'
    BY <1>1, <1>3, TaskGuarded DEF Shapes
  <2> QED BY <1>3, <2>1 DEF Shapes, Dated, Guarded, PreviewTypeOK
<1>5. LockInv'
  <2>1. ASSUME NEW x \in Deploys, InFlight(x)'
        PROVE  up' /\ Target(x)' \in Previews /\ lock'[Target(x)'] = x
    <3>1. CASE x = d
      BY <1>1, <2>1, <3>1 DEF MovesTo, InFlight, Target
    <3>2. CASE x # d
      <4>1. InFlight(x) /\ Target(x)' = Target(x)
        BY <1>1, <2>1, <3>2 DEF MovesTo, InFlight, Target
      <4>2. Target(x) \in Previews /\ lock[Target(x)] = x
        BY <1>2, <4>1 DEF LockInv
      <4> QED BY <1>1, <3>2, <4>1, <4>2 DEF MovesTo
    <3> QED BY <3>1, <3>2
  <2>2. ASSUME NEW u \in Deploys, pc'[u] \in Unstarted
        PROVE  units'[u] = Nil
    BY <1>1, <1>2, <2>2 DEF MovesTo, Handles, LockInv
  <2> QED BY <1>1, <2>1, <2>2 DEF LockInv, MovesTo
<1>6. TaskInv'
  <2>1. \A t \in Tasks \ {d} : td'[t] = td[t]
    BY <1>1 DEF MovesTo
  <2>2. \A x \in Deploys \ {d} : pc'[x] = pc[x]
    BY <1>1 DEF MovesTo
  <2>5. /\ td'[d].queue = <<>> => td'[d] = NoTeardown
        /\ pc'[d] # "evicting" => td'[d] = NoTeardown
    BY <1>1, <1>2, EmptyList DEF Handles, TaskInv
  <2>6. Deploys \subseteq Tasks /\ up'
    BY <1>1 DEF Tasks, MovesTo
  <2> QED BY <1>2, <2>1, <2>2, <2>5, <2>6 DEF TaskInv
<1>7. NameInv'
  <2>1. ASSUME NEW q \in Previews, entry'[q] # Nil, entry'[q].unit # Nil
        PROVE  StartedFor(entry[q].unit, q)'
    <3>1. CASE q # p
      <4>1. entry'[q] = entry[q] /\ entry[q] \in Entry
        BY <1>1, <1>2, <2>1, <3>1 DEF MovesTo, Shapes, Option
      <4>2. entry[q].unit \in Deploys
        BY <2>1, <4>1 DEF Entry, Option
      <4> QED BY <1>1, <1>2, <2>1, <4>1, <4>2 DEF NameInv, StartedFor
    <3>2. CASE q = p
      <4>1. CASE entry[p] # Nil /\ entry'[p].unit = entry[p].unit
        <5>1. entry[p].unit \in Deploys
          BY <1>1, <1>2, <2>1, <3>2, <4>1 DEF Shapes, Entry, Option
        <5> QED BY <1>1, <1>2, <2>1, <3>2, <4>1, <5>1 DEF NameInv, StartedFor
      <4>2. CASE entry'[p].unit = d /\ pc'[d] = "health"
        BY <1>1, <3>2, <4>2 DEF StartedFor, Unstarted, MovesTo, Target
      <4> QED BY <1>1, <2>1, <3>2, <4>1, <4>2 DEF Handles
    <3> QED BY <3>1, <3>2
  <2>2. ASSUME NEW q \in Previews, file'[q] # Nil, file'[q].unit # Nil
        PROVE  StartedFor(file[q].unit, q)'
    <3>1. CASE file'[q] = file[q]
      <4>1. file[q].unit \in Deploys
        BY <1>2, <2>2, <3>1 DEF Shapes, Entry, Option
      <4> QED BY <1>1, <1>2, <2>2, <3>1, <4>1 DEF NameInv, StartedFor
    <3>2. CASE file'[q] # file[q]
      BY <1>1, <2>1, <2>2, <3>2 DEF Handles, MovesTo
    <3> QED BY <3>1, <3>2
  <2>3. ASSUME NEW x \in Deploys, InFlight(x)', ctx'[x].old # Nil
        PROVE  StartedFor(ctx[x].old, Target(x))'
    <3>1. CASE x # d
      <4>1. InFlight(x) /\ ctx'[x] = ctx[x] /\ Target(x)' = Target(x) /\ ctx[x] \in Context
        BY <1>1, <1>2, <2>3, <3>1 DEF MovesTo, InFlight, Target, Shapes
      <4>2. ctx[x].old \in Deploys
        BY <2>3, <4>1 DEF Context, Option
      <4> QED BY <1>1, <1>2, <2>3, <4>1, <4>2 DEF NameInv, StartedFor
    <3>2. CASE x = d
      <4>1. Target(d)' = p /\ ctx[d] \in Context
        BY <1>1, <1>2 DEF MovesTo, Target, Shapes
      <4>2. CASE ctx'[d].old = ctx[d].old
        <5>1. ctx[d].old \in Deploys
          BY <2>3, <3>2, <4>1, <4>2 DEF Context, Option
        <5> QED BY <1>1, <1>2, <2>3, <3>2, <4>1, <4>2, <5>1 DEF NameInv, StartedFor
      <4>3. CASE entry[p] # Nil /\ ctx'[d].old = entry[p].unit
        <5>1. entry[p].unit \in Deploys
          BY <1>1, <1>2, <2>3, <3>2, <4>3 DEF Shapes, Entry, Option
        <5> QED BY <1>1, <1>2, <2>3, <3>2, <4>1, <4>3, <5>1 DEF NameInv, StartedFor
      <4> QED BY <1>1, <2>3, <3>2, <4>2, <4>3 DEF Handles
    <3> QED BY <3>1, <3>2
  <2>4. ASSUME NEW t \in Tasks, td'[t].queue # <<>>, td'[t].unit # Nil
        PROVE  StartedFor(td[t].unit, Head(td[t].queue))'
    <3>1. td'[t] = td[t]
      BY <1>1, <2>4, EmptyList DEF MovesTo, Handles
    <3>2. td[t].unit \in Deploys
      BY <1>2, <2>4, <3>1 DEF Shapes, Teardown, Option
    <3> QED BY <1>1, <1>2, <2>4, <3>1, <3>2 DEF NameInv, StartedFor
  <2> QED BY <2>1, <2>2, <2>3, <2>4 DEF NameInv
<1> QED BY <1>4, <1>5, <1>6, <1>7 DEF BaseInv

\* A deploy that is accepted has not started anything.
LEMMA AcceptsBase ==
  ASSUME BaseInv, NEW d \in Deploys, NEW p \in Previews, HandlePreviewDeploy(d, p)
  PROVE  BaseInv'
<1>1. Accepts(d, p) /\ Shapes /\ LockInv /\ TaskInv /\ NameInv
  BY HandleMoves, KeptShapes DEF BaseInv
<1>2. PreviewTypeOK'
  BY OtherShapes
<1>3. \A u \in Deploys : \A q : StartedFor(u, q) => StartedFor(u, q)'
  BY <1>1 DEF StartedFor, Accepts, Unstarted
<1>4. ctx'[d].preview = p /\ ctx'[d].old = Nil
  BY <1>1 DEF Accepts, NewContext
<1>5. LockInv'
  <2>1. ASSUME NEW x \in Deploys, InFlight(x)'
        PROVE  up' /\ Target(x)' \in Previews /\ lock'[Target(x)'] = x
    <3>1. CASE x = d
      BY <1>1, <1>4, <3>1 DEF Accepts, Target
    <3>2. CASE x # d
      <4>1. InFlight(x) /\ Target(x)' = Target(x)
        BY <1>1, <2>1, <3>2 DEF Accepts, InFlight, Target
      <4>2. Target(x) \in Previews /\ lock[Target(x)] = x /\ x # Nil
        BY <1>1, <4>1, NilFresh DEF LockInv
      <4> QED BY <1>1, <4>1, <4>2 DEF Accepts
    <3> QED BY <3>1, <3>2
  <2>2. ASSUME NEW u \in Deploys, pc'[u] \in Unstarted
        PROVE  units'[u] = Nil
    BY <1>1, <2>2 DEF Accepts, LockInv, Unstarted
  <2> QED BY <1>1, <2>1, <2>2 DEF LockInv, Accepts
<1>6. TaskInv'
  BY <1>1 DEF TaskInv, Accepts
<1>7. NameInv'
  <2>1. ASSUME NEW q \in Previews, entry[q] # Nil, entry[q].unit # Nil
        PROVE  StartedFor(entry[q].unit, q) /\ entry[q].unit \in Deploys
    BY <1>1, <2>1 DEF NameInv, Shapes, Option, Entry
  <2>2. ASSUME NEW q \in Previews, file[q] # Nil, file[q].unit # Nil
        PROVE  StartedFor(file[q].unit, q) /\ file[q].unit \in Deploys
    BY <1>1, <2>2 DEF NameInv, Shapes, Option, Entry
  <2>3. ASSUME NEW x \in Deploys, InFlight(x)', ctx'[x].old # Nil
        PROVE  StartedFor(ctx[x].old, Target(x))'
    <3>1. x # d
      BY <1>4, <2>3
    <3>2. InFlight(x) /\ ctx'[x] = ctx[x] /\ Target(x)' = Target(x) /\ ctx[x] \in Context
      BY <1>1, <2>3, <3>1 DEF Accepts, InFlight, Target, Shapes
    <3>3. ctx[x].old \in Deploys /\ StartedFor(ctx[x].old, Target(x))
      BY <1>1, <2>3, <3>2 DEF NameInv, Context, Option
    <3> QED BY <1>3, <3>2, <3>3 DEF StartedFor
  <2>4. ASSUME NEW t \in Tasks, td[t].queue # <<>>, td[t].unit # Nil
        PROVE  StartedFor(td[t].unit, Head(td[t].queue)) /\ td[t].unit \in Deploys
    BY <1>1, <2>4 DEF NameInv, Shapes, Option, Teardown
  <2> QED BY <1>1, <1>3, <2>1, <2>2, <2>3, <2>4 DEF NameInv, StartedFor, Accepts
<1> QED BY <1>2, <1>5, <1>6, <1>7 DEF BaseInv

\* Steps that start nothing and deploy nothing: what is known by name stays so, if what
\* is newly known was known before.
LEMMA QuietBase ==
  ASSUME BaseInv, PreviewTypeOK', UNCHANGED <<lock, pc, ctx>>, TaskInv',
         up' = up \/ (~up /\ up'),
         \A u \in Deploys : units'[u] \in {units[u], Nil},
         ~up' => \A p \in Previews : entry'[p] = Nil,
         \A p \in Previews : entry'[p] # Nil /\ entry'[p].unit # Nil =>
           \/ entry[p] # Nil /\ entry'[p].unit = entry[p].unit
           \/ file[p] # Nil /\ entry'[p].unit = file[p].unit,
         \A p \in Previews : file'[p] # Nil /\ file'[p].unit # Nil =>
           file[p] # Nil /\ file'[p].unit = file[p].unit,
         \A t \in Tasks : td'[t].queue # <<>> /\ td'[t].unit # Nil =>
           LET p == Head(td'[t].queue) IN
           \/ td[t].queue # <<>> /\ p = Head(td[t].queue) /\ td'[t].unit = td[t].unit
           \/ p \in Previews /\ entry[p] # Nil /\ td'[t].unit = entry[p].unit
  PROVE  BaseInv'
<1>1. LockInv /\ NameInv
  BY DEF BaseInv
<1>2. \A u, q : StartedFor(u, q) <=> StartedFor(u, q)'
  BY DEF StartedFor
<1>3. LockInv'
  BY <1>1 DEF LockInv, InFlight, Target
<1>4. NameInv'
  BY <1>1, <1>2 DEF NameInv, StartedFor, InFlight, Target
<1> QED BY <1>3, <1>4 DEF BaseInv

\* Every step of a teardown keeps the basic invariant.
LEMMA TeardownBase ==
  ASSUME BaseInv, NEW t \in Tasks, TeardownTask(t)
  PROVE  BaseInv'
<1>1. /\ TaskInv /\ td[t].queue # <<>> /\ Head(td[t].queue) \in Previews /\ td[t] \in Teardown
      /\ up /\ td[t].unit \in Deploys \cup {Nil} /\ td \in [Tasks -> Teardown]
  BY TearingHas DEF TeardownTask, TeardownRead, TeardownStop, TeardownUnroute, TeardownRemove,
                    BaseInv, PreviewTypeOK
<1>2. PreviewTypeOK'
  BY OtherShapes
<1> DEFINE e == entry[Head(td[t].queue)]
<1>3. /\ OnlyTask(t)
      /\ \A u \in Deploys : units'[u] \in {units[u], Nil}
      /\ \A p \in Previews : entry'[p] \in {entry[p], Nil} /\ file'[p] \in {file[p], Nil}
      /\ \/ td'[t] = Asked(Tail(td[t].queue))
         \/ e # Nil /\ td'[t] = [step |-> "stop", queue |-> td[t].queue,
                                 unit |-> e.unit, routed |-> e.domain]
         \/ \E s \in {"unroute", "remove"} : GoesOn(t, s)
  <2>1. CASE TeardownRead(t)
    <3>1. OnlyTask(t) /\ Still /\ entry' = entry /\ file' = file
      BY <2>1, TeardownReadMoves
    <3>2. \/ td'[t] = Asked(Tail(td[t].queue))
          \/ e # Nil /\ td'[t] = [step |-> "stop", queue |-> td[t].queue,
                                  unit |-> e.unit, routed |-> e.domain]
      BY <2>1, TeardownReadMoves DEF Dropped, Asked
    <3> QED BY <3>1, <3>2 DEF Still
  <2>2. CASE TeardownStop(t)
    <3>1. Halts(td[t].unit) \/ Still
      BY <2>2, TeardownStopMoves
    <3>2. \A u \in Deploys : units'[u] \in {units[u], Nil}
      BY <1>1, <3>1 DEF Still, Halts, OnlyUnit
    <3> QED BY <2>2, <3>2, TeardownStopMoves
  <2>3. CASE TeardownUnroute(t)
    BY <2>3, TeardownUnrouteMoves DEF Still
  <2>4. CASE TeardownRemove(t)
    BY <2>4, TeardownRemoveMoves DEF Still, Dropped, Asked
  <2> QED BY <2>1, <2>2, <2>3, <2>4 DEF TeardownTask
<1>4. /\ td'[t].queue = <<>> => td'[t] = NoTeardown
      /\ td'[t].queue # <<>> /\ td'[t].unit # Nil =>
           /\ Head(td'[t].queue) = Head(td[t].queue)
           /\ td'[t].unit = td[t].unit \/ (e # Nil /\ td'[t].unit = e.unit)
  <2>1. CASE td'[t] = Asked(Tail(td[t].queue))
    BY <2>1, EmptyList
  <2>2. CASE e # Nil /\ td'[t] = [step |-> "stop", queue |-> td[t].queue,
                                  unit |-> e.unit, routed |-> e.domain]
    BY <1>1, <2>2
  <2>3. CASE \E s \in {"unroute", "remove"} : GoesOn(t, s)
    BY <1>1, <2>3 DEF GoesOn, Teardown
  <2> QED BY <1>3, <2>1, <2>2, <2>3
<1>5. \A d \in Deploys : pc[d] # "evicting" => d # t
  BY <1>1, EmptyList DEF TaskInv
<1>6. TaskInv'
  BY <1>1, <1>3, <1>4, <1>5 DEF TaskInv, OnlyTask, Tasks
<1>7. \A x \in Tasks : td'[x].queue # <<>> /\ td'[x].unit # Nil =>
        LET p == Head(td'[x].queue) IN
        \/ td[x].queue # <<>> /\ p = Head(td[x].queue) /\ td'[x].unit = td[x].unit
        \/ p \in Previews /\ entry[p] # Nil /\ td'[x].unit = entry[p].unit
  BY <1>1, <1>3, <1>4 DEF OnlyTask
<1> QED BY <1>1, <1>2, <1>3, <1>6, <1>7, QuietBase DEF OnlyTask

\* The lists that are taken on.
LEMMA ListedBase ==
  ASSUME BaseInv, NEW t \in {"api", "reaper"}, NEW S \in SUBSET Previews, Listed(t, S),
         PreviewTypeOK'
  PROVE  BaseInv'
<1>1. PICK q \in Seq(Previews) : td'[t] = Asked(q)
  BY DEF Listed, Asked
<1>2. TaskInv /\ t \notin Deploys /\ t \in Tasks
  BY PreviewAssumption DEF BaseInv, Tasks
<1>3. TaskInv'
  BY <1>1, <1>2, EmptyList DEF TaskInv, Listed, OnlyTask, Tasks
<1>4. \A x \in Tasks : td'[x].queue # <<>> /\ td'[x].unit # Nil => td'[x] = td[x]
  BY <1>1, EmptyList DEF Listed, OnlyTask
<1>5. ~up => \A p \in Previews : entry[p] = Nil
  BY DEF BaseInv, LockInv
<1> QED BY <1>3, <1>4, <1>5, QuietBase DEF Listed, OnlyTask, Still

\* So does time.
LEMMA ElapseBase ==
  ASSUME BaseInv, NEW n, Elapse(n), PreviewTypeOK'
  PROVE  BaseInv'
<1>1. ~up => \A p \in Previews : entry[p] = Nil
  BY DEF BaseInv, LockInv
<1>2. TaskInv'
  BY ElapseMoves DEF BaseInv, TaskInv
<1>3. \A p \in Previews : Ages(entry[p], entry'[p]) /\ Ages(file[p], file'[p])
  BY ElapseMoves
<1>4. UNCHANGED <<lock, pc, ctx, units, route, td, clock, up>>
  BY ElapseMoves
<1> QED BY <1>1, <1>2, <1>3, <1>4, QuietBase DEF Ages

\* So does a client that walks away.
LEMMA LeavesBase ==
  ASSUME BaseInv, Leaves, PreviewTypeOK'
  PROVE  BaseInv'
<1>1. ~up => \A p \in Previews : entry[p] = Nil
  BY DEF BaseInv, LockInv
<1>2. TaskInv'
  BY DEF Leaves, BaseInv, TaskInv, Tasks
<1>3. \A x \in Tasks : td'[x].queue # <<>> /\ td'[x].unit # Nil => td'[x] = td[x]
  BY EmptyList DEF Leaves
<1> QED BY <1>1, <1>2, <1>3, QuietBase DEF Leaves

\* So does a boot.
LEMMA ComesBase ==
  ASSUME BaseInv, Comes, PreviewTypeOK'
  PROVE  BaseInv'
<1>1. TaskInv'
  BY DEF Comes, BaseInv, TaskInv
<1>2. \A p \in Previews : entry'[p] # Nil /\ entry'[p].unit # Nil =>
        file[p] # Nil /\ entry'[p].unit = file[p].unit
  BY DEF Comes
<1> QED BY <1>1, <1>2, QuietBase DEF Comes

\* After a crash nothing is in flight, and what was starting may have been started.
LEMMA DiesBase ==
  ASSUME BaseInv, Dies, PreviewTypeOK'
  PROVE  BaseInv'
<1>1. LockInv /\ TaskInv /\ NameInv /\ Shapes
  BY KeptShapes DEF BaseInv
<1>2. \A d \in Deploys : ~InFlight(d)'
  BY DEF Dies, InFlight
<1>3. \A u \in Deploys : \A q : StartedFor(u, q) => StartedFor(u, q)'
  BY DEF StartedFor, Dies, InFlight, Unstarted
<1>4. ASSUME NEW u \in Deploys, pc'[u] \in Unstarted
      PROVE  units'[u] = Nil
  <2>1. pc[u] = "idle"
    BY <1>4 DEF Dies, InFlight, Unstarted
  <2> QED BY <1>1, <2>1 DEF Dies, LockInv, Still, Runs, OnlyUnit, Unstarted
<1>5. LockInv'
  BY <1>2, <1>4 DEF LockInv, Dies
<1>6. TaskInv'
  BY DEF TaskInv, Dies, Tasks
<1>7. ASSUME NEW p \in Previews, file[p] # Nil, file[p].unit # Nil
      PROVE  StartedFor(file[p].unit, p) /\ file[p].unit \in Deploys
  BY <1>1, <1>7 DEF NameInv, Shapes, Option, Entry
<1>8. \A p \in Previews : file[p] # Nil /\ file[p].unit # Nil => StartedFor(file[p].unit, p)'
  BY <1>3, <1>7 DEF StartedFor, Dies
<1>9. NameInv'
  BY <1>2, <1>8, EmptyList DEF NameInv, StartedFor, Dies
<1> QED BY <1>5, <1>6, <1>9 DEF BaseInv

-----------------------------------------------------------------------------
\* The basic invariant holds at the start.
LEMMA BaseInit ==
  ASSUME Init
  PROVE  BaseInv
<1>1. Shapes /\ Dated /\ Guarded
  <2>1. NewContext(Nil) \in Context /\ "idle" \in Steps /\ NoTeardown \in Teardown
    BY TeardownTypes DEF NewContext, Context, AllKinds, HostPorts, Option, Steps
  <2> QED BY <2>1 DEF Init, Shapes, Dated, Guarded, Option
<1>2. LockInv
  BY DEF Init, LockInv, InFlight
<1>3. TaskInv
  BY DEF Init, TaskInv, Tasks
<1>4. NameInv
  BY EmptyList DEF Init, NameInv, InFlight
<1> QED BY <1>1, <1>2, <1>3, <1>4 DEF BaseInv, Shapes, Dated, Guarded, PreviewTypeOK

\* The steps of Next.
LEMMA BaseNext ==
  ASSUME BaseInv, [Next]_vars
  PROVE  BaseInv'
<1>1. CASE \E d \in Deploys : DeployTask(d) \/ Timeout(d)
  BY <1>1, TaskBase
<1>2. CASE \E d \in Deploys, p \in Previews : HandlePreviewDeploy(d, p)
  BY <1>2, AcceptsBase
<1>3. CASE \E t \in Tasks : TeardownTask(t)
  BY <1>3, TeardownBase
<1>4. CASE (\E p \in Previews : HandlePreviewTeardown(p)) \/ HandlePreviewTeardownAll \/ ReapExpired
  <2>1. PreviewTypeOK'
    BY <1>4, OtherShapes
  <2> QED BY <1>4, <2>1, Collected, ListedBase
<1>5. CASE \E n \in 1 .. clock : Elapse(n)
  <2>1. PreviewTypeOK'
    BY <1>5, OtherShapes
  <2> QED BY <1>5, <2>1, ElapseBase
<1>6. CASE Disconnect
  BY <1>6, OtherShapes, DisconnectMoves, LeavesBase
<1>7. CASE Crash
  BY <1>7, OtherShapes, CrashMoves, DiesBase
<1>8. CASE Boot
  BY <1>8, OtherShapes, BootMoves, ComesBase
<1>9. CASE UNCHANGED vars
  BY <1>9 DEF vars, BaseInv, PreviewTypeOK, LockInv, TaskInv, NameInv, InFlight, StartedFor, Target
<1> QED BY <1>1, <1>2, <1>3, <1>4, <1>5, <1>6, <1>7, <1>8, <1>9 DEF Next

-----------------------------------------------------------------------------
(* Nothing is deployed and torn down at once.                              *)

\* A step of the task of d starts or stops no unit but its own and the one before.
LEMMA TaskTouches ==
  ASSUME BaseInv, NEW d \in Deploys, DeployTask(d) \/ Timeout(d)
  PROVE  \A u \in Deploys \ {d} : units'[u] # units[u] => pc[d] = "evicting" /\ u = ctx[d].old
<1>1. CASE Capture(d) \/ Pull(d) \/ Configure(d) \/ UnrouteOld(d) \/ Hooks(d) \/ Switch(d)
            \/ Complete(d)
  <2>1. Still
    BY <1>1, CaptureMoves, PullMoves, ConfigureMoves, UnrouteOldMoves, HooksMoves, SwitchMoves,
       CompleteMoves
  <2> QED BY <2>1 DEF Still
<1>2. CASE TearDownOld(d)
  BY <1>2, TearDownOldMoves DEF Still, Halts, OnlyUnit
<1>3. CASE Start(d)
  BY <1>3, StartMoves DEF Starts, Still, Runs, OnlyUnit
<1>4. CASE Health(d)
  BY <1>4, HealthMoves DEF Still, Halts, OnlyUnit
<1>5. CASE Discard(d)
  BY <1>5, DiscardMoves DEF Still, Halts, OnlyUnit
<1>6. CASE Timeout(d)
  BY <1>6, TimeoutMoves DEF Still, Runs, OnlyUnit
<1> QED BY <1>1, <1>2, <1>3, <1>4, <1>5, <1>6 DEF DeployTask

\* No unit but those started for its preview.
LEMMA TaskSpares ==
  ASSUME BaseInv, NEW d \in Deploys, DeployTask(d) \/ Timeout(d)
  PROVE  \A u \in Deploys : ctx[u].preview # Target(d) => units'[u] = units[u]
<1> SUFFICES ASSUME NEW u \in Deploys, units'[u] # units[u]
             PROVE  ctx[u].preview = Target(d)
  OBVIOUS
<1>1. CASE u = d
  BY <1>1 DEF Target
<1>2. CASE u # d
  <2>1. InFlight(d) /\ ctx[d].old = u /\ u # Nil
    BY <1>2, TaskTouches, TaskMoves, NilFresh
  <2> QED BY <2>1 DEF BaseInv, NameInv, StartedFor
<1> QED BY <1>1, <1>2

\* Two deploys in flight are of two previews.
LEMMA InFlightApart ==
  ASSUME BaseInv, NEW d \in Deploys, NEW x \in Deploys \ {d}, InFlight(d), InFlight(x)
  PROVE  Target(x) # Target(d) /\ Target(x) \in Previews
  BY DEF BaseInv, LockInv

\* The parts of EntryAt.
LEMMA EntryAtParts ==
  ASSUME NEW d \in Deploys, EntryAt(d), entry[Target(d)] # Nil
  PROVE  LET e == entry[Target(d)] IN
         /\ e.status \in {"deploying", "failed"} /\ e.status # "running"
         /\ pc[d] \in Unstarted => e.unit = Nil
         /\ pc[d] \notin Unconfigured => e.domain = ~IsWorker(d)
         /\ pc[d] \in Named => e.unit = d /\ e.port = ctx[d].port
         /\ ~TearingDown(Target(d)) =>
              /\ pc[d] \in Named => units[d] = ctx[d].port
              /\ pc[d] = "completing" /\ ~IsWorker(d) => route[Target(d)] = ctx[d].port
  BY DEF EntryAt

\* What the entry says after a step of the task of d.
LEMMA TaskEntry ==
  ASSUME BaseInv, NEW d \in Deploys, DeployTask(d) \/ Timeout(d), pc'[d] # "done",
         pc[d] # "accepted" => EntryAt(d),
         TearingDown(Target(d)) => TearingDown(Target(d))'
  PROVE  /\ EntryAt(d)'
         /\ pc[d] = "accepted" \/ entry[Target(d)] # Nil => entry'[Target(d)] # Nil
<1> DEFINE p == Target(d)
           e == entry[p]
           Goal == EntryAt(d)' /\ (pc[d] = "accepted" \/ e # Nil => entry'[p] # Nil)
<1>1. p' = p /\ InFlight(d)
  BY TaskMoves DEF MovesTo, Target
<1>2. TearingDown(p) => TearingDown(p)'
  OBVIOUS
<1>3. ASSUME ctx'[d] = ctx[d], Keeps(d), Still, pc[d] # "accepted",
             pc'[d] \in Unstarted => pc[d] \in Unstarted,
             pc'[d] \notin Unconfigured => pc[d] \notin Unconfigured,
             pc'[d] \in Named => pc[d] \in Named,
             pc'[d] = "completing" /\ ~IsWorker(d) => route'[p] = ctx[d].port
      PROVE  Goal
  BY <1>1, <1>2, <1>3, EntryAtParts DEF EntryAt, Keeps, Still, Target, IsWorker
<1>4. ASSUME Discards(d), pc[d] # "accepted", pc[d] \notin Unconfigured
      PROVE  Goal
  BY <1>1, <1>2, <1>4, EntryAtParts
     DEF EntryAt, Discards, MovesTo, Calmly, Marks, Named, Unstarted, IsWorker
<1>5. CASE Capture(d)
  BY <1>1, <1>2, <1>5, CaptureMoves, FreshEntry
     DEF Captures, GivesUp, MovesTo, EntryAt, Unconfigured, Named
<1>6. CASE Pull(d)
  BY <1>1, <1>3, <1>6, PullMoves
     DEF Passes, Calmly, GivesUp, MovesTo, Unstarted, Unconfigured, Named
<1>7. CASE Configure(d)
  <2>1. pc[d] = "configuring" /\ Configures(d)
    BY <1>7, ConfigureMoves DEF GivesUp, Passes, MovesTo
  <2>2. pc'[d] = "evicting"
    BY <2>1 DEF Configures, MovesTo
  <2> QED BY <1>1, <1>2, <2>1, <2>2, EntryAtParts DEF Configures, EntryAt, IsWorker, Named, Unstarted, Unconfigured
<1>8. CASE TearDownOld(d)
  <2>1. pc[d] = "evicting" /\ Passes(d, {"unrouting_old", "starting"})
    BY <1>8, TearDownOldMoves
  <2> QED BY <1>1, <1>2, <2>1, EntryAtParts
          DEF Passes, Calmly, Keeps, MovesTo, EntryAt, Unstarted, Unconfigured, Named, Target, IsWorker
<1>9. CASE UnrouteOld(d)
  BY <1>1, <1>3, <1>9, UnrouteOldMoves DEF Passes, Calmly, MovesTo, Unstarted, Unconfigured, Named
<1>10. CASE Start(d)
  <2>1. CASE Discards(d)
    BY <1>4, <1>10, <2>1, StartMoves DEF Unconfigured
  <2>2. CASE Starts(d)
    <3>1. pc[d] = "starting" /\ pc'[d] = "health"
      BY <1>10, <2>2, StartMoves DEF Starts, MovesTo
    <3> QED BY <1>1, <1>2, <2>2, <3>1, EntryAtParts DEF Starts, EntryAt, Unstarted, Unconfigured, IsWorker
  <2> QED BY <1>10, <2>1, <2>2, StartMoves DEF GivesUp, MovesTo
<1>11. CASE Health(d)
  <2>1. CASE Discards(d)
    BY <1>4, <1>11, <2>1, HealthMoves DEF Unconfigured
  <2>2. CASE Passes(d, {"switching", "hooks"}) /\ Still
    BY <1>1, <1>3, <1>11, <2>2, HealthMoves DEF Passes, Calmly, MovesTo, Unstarted, Unconfigured, Named
  <2> QED BY <1>11, <2>1, <2>2, HealthMoves DEF GivesUp, MovesTo
<1>12. CASE Hooks(d)
  <2>1. CASE Discards(d)
    BY <1>4, <1>12, <2>1, HooksMoves DEF Unconfigured
  <2>2. CASE (Passes(d, {"completing"}) /\ IsWorker(d)) \/ Passes(d, {"switching"})
    BY <1>1, <1>3, <1>12, <2>2, HooksMoves DEF Passes, Calmly, MovesTo, Unstarted, Unconfigured, Named
  <2> QED BY <1>12, <2>1, <2>2, HooksMoves
<1>13. CASE Switch(d)
  <2>1. CASE Discards(d)
    BY <1>4, <1>13, <2>1, SwitchMoves DEF Unconfigured
  <2>2. CASE Passes(d, {"completing"}) /\ route'[p] = ctx[d].port
    BY <1>1, <1>3, <1>13, <2>2, SwitchMoves DEF Passes, Calmly, MovesTo, Unstarted, Unconfigured, Named
  <2> QED BY <1>13, <2>1, <2>2, SwitchMoves
<1>14. CASE Complete(d) \/ Discard(d) \/ Timeout(d)
  BY <1>14, CompleteMoves, DiscardMoves, TimeoutMoves DEF Completes, Passes, MovesTo
<1> QED BY <1>5, <1>6, <1>7, <1>8, <1>9, <1>10, <1>11, <1>12, <1>13, <1>14 DEF DeployTask

\* What the entry says of d does not change if what it speaks of does not.
LEMMA EntryAtKept ==
  ASSUME NEW d \in Deploys, EntryAt(d), pc'[d] = pc[d], ctx'[d] = ctx[d],
         TearingDown(Target(d)) => TearingDown(Target(d))',
         LET e == entry[Target(d)]
             f == entry'[Target(d)]
         IN f # Nil => /\ e # Nil /\ f.status = e.status /\ f.unit = e.unit /\ f.port = e.port
                       /\ f.domain = e.domain
                       /\ ~TearingDown(Target(d))' =>
                            route'[Target(d)] = route[Target(d)] /\ units'[d] = units[d]
  PROVE  EntryAt(d)'
<1>1. Target(d)' = Target(d) /\ IsWorker(d)' = IsWorker(d)
  BY DEF Target, IsWorker
<1> DEFINE e == entry[Target(d)]
           f == entry'[Target(d)]
<1>2. SUFFICES ASSUME f # Nil
               PROVE  /\ f.status \in {"deploying", "failed"}
                      /\ pc'[d] \in Unstarted => f.unit = Nil
                      /\ pc'[d] \notin Unconfigured => f.domain = ~IsWorker(d)'
                      /\ pc'[d] \in Named => f.unit = d /\ f.port = ctx'[d].port
                      /\ ~TearingDown(Target(d))' =>
                           /\ pc'[d] \in Named => units'[d] = ctx'[d].port
                           /\ pc'[d] = "completing" /\ ~IsWorker(d)' =>
                                route'[Target(d)] = ctx'[d].port
  BY <1>1 DEF EntryAt
<1> QED BY <1>1, <1>2, EntryAtParts

\* What is on no list is not torn down, and a teardown in progress is one of the first
\* preview of a list.
LEMMA TearingFirst ==
  ASSUME BaseInv, NEW t \in Tasks, td[t].step # "read" \/ td[t].queue # <<>>
  PROVE  TearingDown(Head(td[t].queue))
  BY TearingHas, QueueParts DEF TearingDown

\* A task that is done with a preview has the rest of its list left.
LEMMA DroppedHas ==
  ASSUME NEW t
  PROVE  Dropped(t).queue = Tail(td[t].queue) /\ Dropped(t).step = "read" /\ Dropped(t).unit = Nil
<1>1. Dropped(t) = Asked(Tail(td[t].queue))
  BY DEF Dropped, Asked
<1> QED BY <1>1, EmptyList

\* A teardown that reads goes on with what it read, or with the rest of its list.
LEMMA ReadHas ==
  ASSUME BaseInv, NEW t \in Tasks, TeardownRead(t)
  PROVE  LET e == entry[Head(td[t].queue)] IN
         \/ td'[t] = Dropped(t) /\ e = Nil
         \/ /\ e # Nil /\ td'[t].step = "stop" /\ td'[t].queue = td[t].queue
            /\ td'[t].unit = e.unit /\ td'[t].routed = e.domain
<1> DEFINE e == entry[Head(td[t].queue)]
<1>1. CASE td'[t] = Dropped(t) /\ e = Nil
  BY <1>1
<1>2. CASE e # Nil /\ td'[t] = [step |-> "stop", queue |-> td[t].queue,
                                unit |-> e.unit, routed |-> e.domain]
  BY <1>2
<1> QED BY <1>1, <1>2, TeardownReadMoves

\* Before the first entry is written a deploy leaves the teardown alone that it meets,
\* or waits until there is none.
LEMMA TaskAlone ==
  ASSUME BaseInv, ApartInv, "overlap" \notin Events,
         NEW d \in Deploys, DeployTask(d) \/ Timeout(d)
  PROVE  ~TearingDown(Target(d))
<1>1. CASE pc[d] = "accepted"
  <2>1. Capture(d)
    <3>1. ~Timeout(d)
      BY <1>1, TimeoutMoves
    <3> QED BY <1>1, <3>1, PullMoves, ConfigureMoves, TearDownOldMoves, UnrouteOldMoves, StartMoves,
               HealthMoves, HooksMoves, SwitchMoves, CompleteMoves, DiscardMoves DEF DeployTask
  <2> QED BY <2>1, CaptureMoves
<1>2. CASE pc[d] # "accepted"
  BY <1>2, TaskMoves DEF ApartInv
<1> QED BY <1>1, <1>2

\* The lists after a step of the task of d: what is new on them is running.
LEMMA TaskLists ==
  ASSUME BaseInv, NEW d \in Deploys, DeployTask(d) \/ Timeout(d)
  PROVE  /\ \A q : TearingDown(q)' => TearingDown(q) \/ q \in RunningPreviews \ {Target(d)}
         /\ \A t \in Tasks : td'[t].step # "read" => td'[t] = td[t] /\ t # d
<1>1. /\ MovesTo(d, Steps \ {"idle"}) /\ Handles(d) /\ d \in Tasks
      /\ pc[d] # "evicting" => td[d] = NoTeardown
  BY TaskMoves, TaskHandles, InFlightHas
<1>2. ASSUME NEW q, Contains(td'[d].queue, q)
      PROVE  Contains(td[d].queue, q) \/ q \in RunningPreviews \ {Target(d)}
  <2>1. CASE Configures(d)
    <3>1. PICK r \in Seq(Previews) : /\ td'[d] = Asked(r)
                                     /\ \A x : Contains(r, x) => x \in RunningPreviews \ {Target(d)}
      BY <2>1 DEF Configures, Asked
    <3> QED BY <1>2, <3>1, EmptyList
  <2>2. CASE ~Configures(d)
    <3>1. td'[d] \in {td[d], NoTeardown}
      <4>1. CASE Capture(d)
        BY <4>1, CaptureMoves DEF Captures, GivesUp, Calmly
      <4>2. CASE Pull(d)
        BY <4>2, PullMoves DEF Passes, GivesUp, Calmly
      <4>3. CASE Configure(d)
        BY <2>2, <4>3, ConfigureMoves DEF Passes, GivesUp, Calmly
      <4>4. CASE TearDownOld(d) \/ UnrouteOld(d) \/ Discard(d)
        BY <4>4, TearDownOldMoves, UnrouteOldMoves, DiscardMoves DEF Passes, Calmly
      <4>5. CASE Start(d)
        BY <4>5, StartMoves DEF Starts, Discards, GivesUp, Calmly
      <4>6. CASE Health(d)
        BY <4>6, HealthMoves DEF Passes, Discards, GivesUp, Calmly
      <4>7. CASE Hooks(d) \/ Switch(d)
        BY <4>7, HooksMoves, SwitchMoves DEF Passes, Discards, Calmly
      <4>8. CASE Complete(d) \/ Timeout(d)
        BY <4>8, CompleteMoves, TimeoutMoves DEF Completes
      <4> QED BY <4>1, <4>2, <4>3, <4>4, <4>5, <4>6, <4>7, <4>8 DEF DeployTask
    <3>2. ~Contains(NoTeardown.queue, q)
      BY EmptyList DEF Contains
    <3> QED BY <1>2, <3>1, <3>2
  <2> QED BY <2>1, <2>2
<1>3. \A q : TearingDown(q)' => TearingDown(q) \/ q \in RunningPreviews \ {Target(d)}
  BY <1>1, <1>2 DEF TearingDown, MovesTo
<1>4. \A t \in Tasks : td'[t].step # "read" => td'[t] = td[t] /\ t # d
  <2>1. td'[d].step = "read"
    <3>1. td'[d] = td[d] /\ (pc[d] # "evicting" \/ td[d].queue = <<>>) => td'[d] = NoTeardown
      BY <1>1 DEF BaseInv, TaskInv
    <3> QED BY <1>1, <3>1, EmptyList DEF Handles
  <2> QED BY <1>1, <2>1 DEF MovesTo
<1> QED BY <1>3, <1>4

\* A deploy task keeps deploys and teardowns apart.
LEMMA TaskApart ==
  ASSUME BaseInv, ApartInv, "overlap" \notin Events,
         NEW d \in Deploys, DeployTask(d) \/ Timeout(d)
  PROVE  ApartInv'
<1> DEFINE p == Target(d)
<1>1. InFlight(d) /\ MovesTo(d, Steps \ {"idle"}) /\ ~TearingDown(p) /\ p' = p
  BY TaskMoves, TaskAlone DEF MovesTo, Target
<1>2. ASSUME NEW x \in Deploys, InFlight(x)', pc'[x] # "accepted"
      PROVE  EntryAt(x)' /\ entry'[Target(x)'] # Nil /\ ~TearingDown(Target(x))'
  <2>1. CASE x = d
    <3>1. EntryAt(d)' /\ entry'[p] # Nil
      <4>1. pc[d] # "accepted" => EntryAt(d) /\ entry[p] # Nil
        BY <1>1 DEF ApartInv, MeetInv
      <4> QED BY <1>1, <1>2, <2>1, <4>1, TaskEntry DEF InFlight
    <3> QED BY <1>1, <2>1, <3>1, TaskLists DEF MovesTo, Target, TearingDown
  <2>2. CASE x # d
    <3>1. InFlight(x) /\ pc'[x] = pc[x] /\ ctx'[x] = ctx[x] /\ pc[x] # "accepted"
      BY <1>1, <1>2, <2>2 DEF MovesTo, InFlight
    <3>2. EntryAt(x) /\ entry[Target(x)] # Nil /\ ~TearingDown(Target(x))
      BY <3>1 DEF ApartInv, MeetInv
    <3>3. Target(x) # p /\ Target(x) \in Previews
      BY <1>1, <2>2, <3>1, InFlightApart
    <3>4. units'[x] = units[x]
      BY <3>3, TaskSpares DEF Target
    <3>5. route'[Target(x)] = route[Target(x)] /\ entry'[Target(x)] = entry[Target(x)]
      BY <1>1, <3>3 DEF MovesTo
    <3>6. EntryAt(x)'
      BY <3>1, <3>2, <3>4, <3>5, EntryAtKept, EntryAtParts
    <3>7. Target(x) \notin RunningPreviews
      BY <3>2, EntryAtParts DEF RunningPreviews
    <3>8. ~TearingDown(Target(x))'
      BY <3>1, <3>2, <3>7, TaskLists DEF Target, TearingDown
    <3> QED BY <3>1, <3>2, <3>5, <3>6, <3>8 DEF Target
  <2> QED BY <2>1, <2>2
<1>3. ASSUME NEW t \in Tasks, td'[t].step # "read", entry'[Head(td'[t].queue)] # Nil
      PROVE  /\ td'[t].unit = entry'[Head(td'[t].queue)].unit
             /\ td'[t].routed = entry'[Head(td'[t].queue)].domain
  <2>1. td'[t] = td[t]
    BY <1>3, TaskLists
  <2>2. Head(td[t].queue) \in Previews /\ Head(td[t].queue) # p
    BY <1>1, <1>3, <2>1, TearingHas, TearingFirst
  <2>3. entry'[Head(td[t].queue)] = entry[Head(td[t].queue)]
    BY <1>1, <2>2 DEF MovesTo
  <2> QED BY <1>3, <2>1, <2>3 DEF ApartInv
<1> QED BY <1>2, <1>3 DEF ApartInv, MeetInv

\* A step of a teardown touches only the preview that it tears down.
TearsOnly(t) ==
  LET q == Head(td[t].queue) IN
  /\ OnlyTask(t) /\ q \in Previews /\ TearingDown(q)
  /\ \A x : TearingDown(x)' => TearingDown(x)
  /\ \A x \in Previews \ {q} : /\ entry'[x] = entry[x] /\ file'[x] = file[x]
                               /\ route'[x] = route[x]
  /\ \A u \in Deploys : ctx[u].preview # q => units'[u] = units[u]

\* A step of a teardown makes no list longer and changes its preview only.
LEMMA TeardownTears ==
  ASSUME BaseInv, NEW t \in Tasks, TeardownTask(t)
  PROVE  TearsOnly(t)
<1> DEFINE q == Head(td[t].queue)
<1>1. td[t].step # "read" \/ td[t].queue # <<>>
  BY DEF TeardownTask, TeardownRead, TeardownStop, TeardownUnroute, TeardownRemove
<1>2. q \in Previews /\ TearingDown(q) /\ td[t].queue \in Seq(Previews) /\ td[t].queue # <<>>
      /\ td[t].unit \in Deploys \cup {Nil} /\ td[t] \in Teardown
  BY <1>1, TearingHas, TearingFirst
<1>3. OnlyTask(t)
  BY TeardownReadMoves, TeardownStopMoves, TeardownUnrouteMoves, TeardownRemoveMoves
     DEF TeardownTask
<1>4. \A x : Contains(td'[t].queue, x) => Contains(td[t].queue, x)
  <2>1. td'[t].queue \in {td[t].queue, Tail(td[t].queue)}
    <3>1. CASE TeardownRead(t)
      BY <3>1, ReadHas, DroppedHas
    <3>2. CASE TeardownStop(t)
      BY <1>2, <3>2, TeardownStopMoves DEF GoesOn, Teardown
    <3>3. CASE TeardownUnroute(t)
      BY <1>2, <3>3, TeardownUnrouteMoves DEF GoesOn, Teardown
    <3>4. CASE TeardownRemove(t)
      BY <3>4, TeardownRemoveMoves, DroppedHas
    <3> QED BY <3>1, <3>2, <3>3, <3>4 DEF TeardownTask
  <2> QED BY <1>2, <2>1, QueueParts
<1>5. \A x : TearingDown(x)' => TearingDown(x)
  BY <1>3, <1>4 DEF TearingDown, OnlyTask
<1>6. \A x \in Previews \ {q} : /\ entry'[x] = entry[x] /\ file'[x] = file[x]
                                /\ route'[x] = route[x]
  BY TeardownReadMoves, TeardownStopMoves, TeardownUnrouteMoves, TeardownRemoveMoves
     DEF TeardownTask
<1>7. ASSUME NEW u \in Deploys, ctx[u].preview # q
      PROVE  units'[u] = units[u]
  <2>1. td[t].unit # u
    BY <1>2, <1>7, NilFresh DEF BaseInv, NameInv, StartedFor
  <2>2. CASE TeardownStop(t)
    BY <2>1, <2>2, TeardownStopMoves DEF Still, Halts, OnlyUnit
  <2>3. CASE ~TeardownStop(t)
    BY <2>3, TeardownReadMoves, TeardownUnrouteMoves, TeardownRemoveMoves DEF Still, TeardownTask
  <2> QED BY <2>2, <2>3
<1> QED BY <1>2, <1>3, <1>5, <1>6, <1>7 DEF TearsOnly

\* A teardown keeps deploys and teardowns apart.
LEMMA TeardownApart ==
  ASSUME BaseInv, ApartInv, NEW t \in Tasks, TeardownTask(t)
  PROVE  ApartInv'
<1> DEFINE q == Head(td[t].queue)
<1>1. TearsOnly(t) /\ OnlyTask(t) /\ td[t] \in Teardown
  BY TeardownTears DEF TearsOnly, BaseInv, PreviewTypeOK
<1>2. ASSUME NEW x \in Deploys, InFlight(x)', pc'[x] # "accepted"
      PROVE  EntryAt(x)' /\ entry'[Target(x)'] # Nil /\ ~TearingDown(Target(x))'
  <2>1. InFlight(x) /\ pc'[x] = pc[x] /\ ctx'[x] = ctx[x] /\ pc[x] # "accepted"
    BY <1>1, <1>2 DEF OnlyTask, InFlight
  <2>2. EntryAt(x) /\ entry[Target(x)] # Nil /\ ~TearingDown(Target(x)) /\ Target(x) \in Previews
    BY <2>1, InFlightHas DEF ApartInv, MeetInv
  <2>3. Target(x) # q
    BY <1>1, <2>2 DEF TearsOnly
  <2>4. units'[x] = units[x] /\ route'[Target(x)] = route[Target(x)]
        /\ entry'[Target(x)] = entry[Target(x)]
    BY <1>1, <2>2, <2>3 DEF TearsOnly, Target
  <2>5. EntryAt(x)'
    BY <2>1, <2>2, <2>4, EntryAtKept, EntryAtParts
  <2>6. ~TearingDown(Target(x))'
    BY <1>1, <2>1, <2>2 DEF TearsOnly, Target, TearingDown
  <2> QED BY <2>1, <2>2, <2>4, <2>5, <2>6 DEF Target
<1>3. ASSUME NEW s \in Tasks, td'[s].step # "read", entry'[Head(td'[s].queue)] # Nil
      PROVE  /\ td'[s].unit = entry'[Head(td'[s].queue)].unit
             /\ td'[s].routed = entry'[Head(td'[s].queue)].domain
  <2>1. CASE s # t
    <3>1. td'[s] = td[s] /\ Head(td[s].queue) \in Previews
      BY <1>1, <1>3, <2>1, TearingHas DEF OnlyTask
    <3>2. entry'[Head(td[s].queue)] = entry[Head(td[s].queue)]
      <4>1. entry' = entry \/ entry'[q] = Nil
        BY TeardownReadMoves, TeardownStopMoves, TeardownUnrouteMoves, TeardownRemoveMoves
           DEF TeardownTask
      <4> QED BY <1>1, <1>3, <3>1, <4>1 DEF TearsOnly
    <3> QED BY <1>3, <3>1, <3>2 DEF ApartInv
  <2>2. CASE s = t
    <3>1. CASE TeardownRead(t)
      <4>1. entry' = entry /\ td'[t].step # "read"
        BY <1>3, <2>2, <3>1, TeardownReadMoves
      <4>2. td'[t] # Dropped(t)
        BY <4>1, DroppedHas
      <4>3. /\ td'[t].queue = td[t].queue
            /\ td'[t].unit = entry[Head(td[t].queue)].unit
            /\ td'[t].routed = entry[Head(td[t].queue)].domain
        BY <3>1, <4>2, ReadHas
      <4> QED BY <2>2, <4>1, <4>3
    <3>2. CASE TeardownStop(t) \/ TeardownUnroute(t)
      <4>1. td[t].step # "read" /\ entry' = entry
            /\ (GoesOn(t, "unroute") \/ GoesOn(t, "remove"))
        BY <3>2, TeardownStopMoves, TeardownUnrouteMoves
      <4>2. td'[t].queue = td[t].queue /\ td'[t].unit = td[t].unit /\ td'[t].routed = td[t].routed
        BY <1>1, <4>1 DEF GoesOn, Teardown
      <4> QED BY <1>3, <2>2, <4>1, <4>2 DEF ApartInv
    <3>3. CASE TeardownRemove(t)
      BY <1>3, <2>2, <3>3, TeardownRemoveMoves, DroppedHas
    <3> QED BY <3>1, <3>2, <3>3 DEF TeardownTask
  <2> QED BY <2>1, <2>2
<1> QED BY <1>2, <1>3 DEF ApartInv, MeetInv

\* So does a deploy that is accepted.
LEMMA AcceptsApart ==
  ASSUME BaseInv, ApartInv, NEW d \in Deploys, NEW p \in Previews, Accepts(d, p)
  PROVE  ApartInv'
<1>1. ASSUME NEW x \in Deploys, InFlight(x)', pc'[x] # "accepted"
      PROVE  EntryAt(x)' /\ entry'[Target(x)'] # Nil /\ ~TearingDown(Target(x))'
  <2>1. InFlight(x) /\ pc'[x] = pc[x] /\ ctx'[x] = ctx[x] /\ pc[x] # "accepted"
    BY <1>1 DEF Accepts, InFlight
  <2>2. EntryAt(x) /\ entry[Target(x)] # Nil /\ ~TearingDown(Target(x))
    BY <2>1 DEF ApartInv, MeetInv
  <2> QED BY <2>1, <2>2, EntryAtKept DEF Accepts, Target, TearingDown
<1> QED BY <1>1 DEF ApartInv, MeetInv, Accepts

\* Who lists a preview does so while it is not deployed.
LEMMA ListedApart ==
  ASSUME BaseInv, ApartInv, "overlap" \notin Events, NEW t \in Tasks, NEW S \in SUBSET Previews, Listed(t, S)
  PROVE  /\ ApartInv'
         /\ \A x : TearingDown(x)' => TearingDown(x) \/ (x \in S /\ ~Deploying(x))
<1>1. PICK q \in Seq(Previews) : td'[t] = Asked(q) /\ \A x : Contains(q, x) => x \in S
  BY DEF Listed, Asked
<1>2. \A x : TearingDown(x)' => TearingDown(x) \/ (x \in S /\ ~Deploying(x))
  BY <1>1, EmptyList DEF TearingDown, Listed, OnlyTask
<1>3. ASSUME NEW x \in Deploys, InFlight(x)', pc'[x] # "accepted"
      PROVE  EntryAt(x)' /\ entry'[Target(x)'] # Nil /\ ~TearingDown(Target(x))'
  <2>1. InFlight(x) /\ pc'[x] = pc[x] /\ ctx'[x] = ctx[x] /\ pc[x] # "accepted"
    BY <1>3 DEF Listed, OnlyTask, InFlight
  <2>2. EntryAt(x) /\ entry[Target(x)] # Nil /\ ~TearingDown(Target(x)) /\ Deploying(Target(x))
    BY <2>1 DEF ApartInv, MeetInv, Deploying
  <2>3. EntryAt(x)'
    <3>1. units'[x] = units[x] /\ route' = route /\ entry' = entry
      BY DEF Listed, Still
    <3> QED BY <2>1, <2>2, <3>1, EntryAtKept
  <2> QED BY <1>2, <2>1, <2>2, <2>3 DEF Target, TearingDown, Listed
<1>4. \A s \in Tasks : td'[s].step # "read" => td'[s] = td[s]
  BY <1>1, EmptyList DEF Listed, OnlyTask
<1> QED BY <1>2, <1>3, <1>4 DEF ApartInv, MeetInv, Listed

\* So does time.
LEMMA ElapseApart ==
  ASSUME BaseInv, ApartInv, NEW n, Elapse(n)
  PROVE  ApartInv'
<1>1. UNCHANGED <<lock, pc, ctx, units, route, td, clock, up>>
      /\ \A p \in Previews : Ages(entry[p], entry'[p])
  BY ElapseMoves
<1>2. ASSUME NEW x \in Deploys, InFlight(x)', pc'[x] # "accepted"
      PROVE  EntryAt(x)' /\ entry'[Target(x)'] # Nil /\ ~TearingDown(Target(x))'
  <2>1. InFlight(x) /\ EntryAt(x) /\ entry[Target(x)] # Nil /\ ~TearingDown(Target(x)) /\ Target(x) \in Previews
    BY <1>1, <1>2, InFlightHas DEF InFlight, ApartInv, MeetInv
  <2>2. EntryAt(x)'
    <3>1. Ages(entry[Target(x)], entry'[Target(x)])
      BY <1>1, <2>1
    <3> QED BY <1>1, <2>1, <3>1, EntryAtKept DEF Ages
  <2> QED BY <1>1, <2>1, <2>2 DEF Target, TearingDown, Ages
<1>3. ASSUME NEW t \in Tasks, td'[t].step # "read", entry'[Head(td'[t].queue)] # Nil
      PROVE  /\ td'[t].unit = entry'[Head(td'[t].queue)].unit
             /\ td'[t].routed = entry'[Head(td'[t].queue)].domain
  <2>1. Head(td[t].queue) \in Previews /\ td[t].step # "read"
    BY <1>1, <1>3, TearingHas
  <2> QED BY <1>1, <1>3, <2>1 DEF ApartInv, Ages
<1> QED BY <1>2, <1>3 DEF ApartInv, MeetInv

\* So does a client that walks away.
LEMMA LeavesApart ==
  ASSUME BaseInv, ApartInv, Leaves
  PROVE  ApartInv' /\ \A x : TearingDown(x)' => TearingDown(x)
<1>1. \A x : TearingDown(x)' => TearingDown(x)
  BY EmptyList DEF TearingDown, Leaves, Contains
<1>2. ASSUME NEW x \in Deploys, InFlight(x)', pc'[x] # "accepted"
      PROVE  EntryAt(x)' /\ entry'[Target(x)'] # Nil /\ ~TearingDown(Target(x))'
  <2>1. InFlight(x) /\ EntryAt(x) /\ entry[Target(x)] # Nil /\ ~TearingDown(Target(x)) /\ Target(x) \in Previews
    BY <1>2, InFlightHas DEF InFlight, ApartInv, MeetInv, Leaves
  <2>2. EntryAt(x)'
    BY <2>1, EntryAtKept DEF Leaves
  <2> QED BY <1>1, <2>1, <2>2 DEF Target, TearingDown, Leaves
<1>3. \A t \in Tasks : td'[t].step # "read" => td'[t] = td[t]
  BY EmptyList DEF Leaves
<1> QED BY <1>1, <1>2, <1>3 DEF ApartInv, MeetInv, Leaves

\* While slipd is down, or when it goes down, nothing is under way.
LEMMA DownApart ==
  ASSUME BaseInv, Dies \/ Comes
  PROVE  /\ ApartInv' /\ \A x : ~TearingDown(x)'
         /\ \A d \in Deploys : ~InFlight(d)'
<1>1. \A t \in Tasks : td'[t] = NoTeardown
  BY DEF Dies, Comes, BaseInv, TaskInv
<1>2. \A d \in Deploys : ~InFlight(d)'
  BY DEF Dies, Comes, BaseInv, LockInv, InFlight
<1>3. \A x : ~TearingDown(x)'
  BY <1>1, EmptyList DEF TearingDown, Contains
<1> QED BY <1>1, <1>2, <1>3, EmptyList DEF ApartInv, MeetInv

\* Every step keeps deploys and teardowns apart.
LEMMA ApartNext ==
  ASSUME BaseInv, ApartInv, "overlap" \notin Events, [Next]_vars
  PROVE  ApartInv'
<1>1. CASE \E d \in Deploys : DeployTask(d) \/ Timeout(d)
  BY <1>1, TaskApart
<1>2. CASE \E d \in Deploys, p \in Previews : HandlePreviewDeploy(d, p)
  BY <1>2, HandleMoves, AcceptsApart
<1>3. CASE \E t \in Tasks : TeardownTask(t)
  BY <1>3, TeardownApart
<1>4. CASE (\E p \in Previews : HandlePreviewTeardown(p)) \/ HandlePreviewTeardownAll \/ ReapExpired
  <2>1. PICK t \in {"api", "reaper"}, S \in SUBSET Previews : Listed(t, S)
    BY <1>4, Collected
  <2> QED BY <2>1, ListedApart DEF Tasks
<1>5. CASE \E n \in 1 .. clock : Elapse(n)
  BY <1>5, ElapseApart
<1>6. CASE Disconnect
  BY <1>6, DisconnectMoves, LeavesApart
<1>7. CASE Crash \/ Boot
  BY <1>7, CrashMoves, BootMoves, DownApart
<1>8. CASE UNCHANGED vars
  BY <1>8 DEF vars, ApartInv, MeetInv, InFlight, EntryAt, Target, IsWorker, TearingDown
<1> QED BY <1>1, <1>2, <1>3, <1>4, <1>5, <1>6, <1>7, <1>8 DEF Next

\* They are apart at the start.
LEMMA ApartInit ==
  ASSUME Init
  PROVE  ApartInv
  BY EmptyList DEF Init, ApartInv, MeetInv, InFlight

-----------------------------------------------------------------------------
(* What a deploy leaves behind.                                            *)

\* A step of the task of d leaves no list behind that it was working on.
LEMMA TaskFree ==
  ASSUME BaseInv, "evicting" \notin DeadlineSteps, NEW d \in Deploys, DeployTask(d) \/ Timeout(d)
  PROVE  td[d] = NoTeardown /\ \A q : TearingDown(q) => TearingDown(q)'
<1>1. td[d] = NoTeardown
  <2>1. CASE pc[d] = "evicting"
    <3>1. TearDownOld(d)
      <4>1. ~Timeout(d)
        BY <2>1, TimeoutMoves
      <4> QED BY <2>1, <4>1, CaptureMoves, PullMoves, ConfigureMoves, UnrouteOldMoves, StartMoves,
                 HealthMoves, HooksMoves, SwitchMoves, CompleteMoves, DiscardMoves DEF DeployTask
    <3> QED BY <3>1, TearDownOldMoves DEF BaseInv, TaskInv, Tasks
  <2>2. CASE pc[d] # "evicting"
    BY <2>2 DEF BaseInv, TaskInv
  <2> QED BY <2>1, <2>2
<1>2. ~\E q : Contains(td[d].queue, q)
  BY <1>1, EmptyList DEF Contains
<1>3. \A t \in Tasks \ {d} : td'[t] = td[t]
  BY TaskMoves DEF MovesTo
<1> QED BY <1>1, <1>2, <1>3 DEF TearingDown

\* A preview is running after a step of its task only if that was the last step of the deploy.
LEMMA TaskEnds ==
  ASSUME BaseInv, MeetInv, NEW d \in Deploys, DeployTask(d) \/ Timeout(d),
         TearingDown(Target(d)) => TearingDown(Target(d))'
  PROVE  LET p == Target(d)
             e == entry[p]
             f == entry'[p]
         IN /\ f = Nil => e = Nil /\ file'[p] = file[p]
            /\ f # Nil /\ f.status = "running" => Complete(d)
            /\ ~Complete(d) => file'[p] = file[p]
<1> DEFINE p == Target(d)
           e == entry[p]
           f == entry'[p]
<1>1. InFlight(d) /\ (pc[d] # "accepted" => EntryAt(d)) /\ MovesTo(d, Steps \ {"idle"}) /\ p' = p
  BY TaskMoves DEF MeetInv, MovesTo, Target
<1>2. pc[d] # "accepted" /\ e # Nil => e.status # "running"
  BY <1>1, EntryAtParts
<1>3. pc'[d] # "done" => /\ f = Nil => e = Nil
                         /\ f # Nil => f.status # "running"
  <2>1. pc'[d] # "done" => EntryAt(d)' /\ (e # Nil => f # Nil)
    BY <1>1, TaskEntry
  <2> QED BY <1>1, <2>1 DEF EntryAt
<1>4. CASE Complete(d)
  BY <1>2, <1>4, CompleteMoves DEF Completes
<1>5. CASE ~Complete(d)
  <2>1. file'[p] = file[p]
    <3>1. CASE Capture(d)
      BY <3>1, CaptureMoves DEF Captures, GivesUp, Calmly
    <3>2. CASE Pull(d)
      BY <3>2, PullMoves DEF Passes, GivesUp, Calmly
    <3>3. CASE Configure(d)
      BY <3>3, ConfigureMoves DEF Configures, Passes, GivesUp, Calmly
    <3>4. CASE TearDownOld(d) \/ UnrouteOld(d) \/ Discard(d)
      BY <3>4, TearDownOldMoves, UnrouteOldMoves, DiscardMoves DEF Passes, Calmly
    <3>5. CASE Start(d)
      BY <3>5, StartMoves DEF Starts, Discards, GivesUp, Calmly
    <3>6. CASE Health(d)
      BY <3>6, HealthMoves DEF Passes, Discards, GivesUp, Calmly
    <3>7. CASE Hooks(d) \/ Switch(d)
      BY <3>7, HooksMoves, SwitchMoves DEF Passes, Discards, Calmly
    <3>8. CASE Timeout(d)
      BY <3>8, TimeoutMoves
    <3> QED BY <1>5, <3>1, <3>2, <3>3, <3>4, <3>5, <3>6, <3>7, <3>8 DEF DeployTask
  <2>2. CASE pc'[d] # "done"
    BY <1>3, <1>5, <2>1, <2>2
  <2>3. CASE pc'[d] = "done"
    <3>1. Marks(d) \/ (pc[d] # "accepted" /\ Keeps(d))
      <4>1. CASE Capture(d)
        BY <2>3, <4>1, CaptureMoves DEF Captures, GivesUp, MovesTo
      <4>2. CASE Pull(d)
        BY <2>3, <4>2, PullMoves DEF Passes, GivesUp, MovesTo
      <4>3. CASE Configure(d)
        BY <2>3, <4>3, ConfigureMoves DEF Configures, Passes, GivesUp, MovesTo
      <4>4. CASE TearDownOld(d) \/ UnrouteOld(d) \/ Discard(d)
        BY <2>3, <4>4, TearDownOldMoves, UnrouteOldMoves, DiscardMoves DEF Passes, MovesTo
      <4>5. CASE Start(d)
        BY <2>3, <4>5, StartMoves DEF Starts, Discards, GivesUp, MovesTo
      <4>6. CASE Health(d)
        BY <2>3, <4>6, HealthMoves DEF Passes, Discards, GivesUp, MovesTo
      <4>7. CASE Hooks(d) \/ Switch(d)
        BY <2>3, <4>7, HooksMoves, SwitchMoves DEF Passes, Discards, MovesTo
      <4>8. CASE Timeout(d)
        BY <4>8, TimeoutMoves
      <4> QED BY <1>5, <4>1, <4>2, <4>3, <4>4, <4>5, <4>6, <4>7, <4>8 DEF DeployTask
    <3>2. CASE Marks(d)
      BY <1>5, <2>1, <3>2 DEF Marks
    <3>3. CASE pc[d] # "accepted" /\ Keeps(d)
      BY <1>2, <1>5, <2>1, <3>3 DEF Keeps
    <3> QED BY <3>1, <3>2, <3>3
  <2> QED BY <2>2, <2>3
<1> QED BY <1>4, <1>5

\* What the entry of a preview names was started for it.
LEMMA NamesOwn ==
  ASSUME BaseInv, NEW p \in Previews
  PROVE  /\ entry[p] # Nil /\ entry[p].unit # Nil =>
              entry[p].unit \in Deploys /\ StartedFor(entry[p].unit, p) /\ ctx[entry[p].unit].preview = p
         /\ file[p] # Nil /\ file[p].unit # Nil =>
              file[p].unit \in Deploys /\ StartedFor(file[p].unit, p) /\ ctx[file[p].unit].preview = p
  BY DEF BaseInv, NameInv, StartedFor, PreviewTypeOK, Option, Entry

\* Every step keeps the files as the entries say.
LEMMA SavedNext ==
  ASSUME BaseInv, MeetInv, SavedInv, Undisturbed, [Next]_vars
  PROVE  SavedInv'
<1>1. ASSUME UNCHANGED <<entry, file>>
      PROVE  SavedInv'
  BY <1>1 DEF SavedInv, RunningPreviews
<1>2. ASSUME NEW d \in Deploys, DeployTask(d) \/ Timeout(d)
      PROVE  SavedInv'
  <2>1. \A q \in Previews \ {Target(d)} : entry'[q] = entry[q] /\ file'[q] = file[q]
    BY <1>2, TaskMoves DEF MovesTo
  <2>2. Complete(d) => pc[d] = "completing" /\ Completes(d)
    BY CompleteMoves
  <2>3. Complete(d) =>
          \/ entry'[Target(d)] = Nil /\ file'[Target(d)] = file[Target(d)]
          \/ /\ file'[Target(d)] = entry'[Target(d)] /\ file'[Target(d)] # Nil
             /\ file'[Target(d)].status = "running"
    BY <2>2 DEF Completes, Fails, Undisturbed
  <2>4. TearingDown(Target(d)) => TearingDown(Target(d))'
    BY <1>2, TaskFree, TaskMoves DEF Undisturbed, MovesTo, Target
  <2> QED BY <1>2, <2>1, <2>3, <2>4, TaskEnds DEF SavedInv, RunningPreviews
<1>3. ASSUME NEW t \in Tasks, TeardownTask(t)
      PROVE  SavedInv'
  <2>1. CASE TeardownRemove(t)
    <3>1. \A q \in Previews : \/ entry'[q] = entry[q] /\ file'[q] = file[q]
                              \/ entry'[q] = Nil /\ file'[q] \in {file[q], Nil}
      BY <2>1, TeardownRemoveMoves
    <3> QED BY <3>1 DEF SavedInv, RunningPreviews
  <2>2. CASE ~TeardownRemove(t)
    BY <1>1, <1>3, <2>2, TeardownReadMoves, TeardownStopMoves, TeardownUnrouteMoves DEF TeardownTask
  <2> QED BY <2>1, <2>2
<1>4. ASSUME NEW n, Elapse(n)
      PROVE  SavedInv'
  BY <1>4, ElapseMoves DEF SavedInv, RunningPreviews, Ages
<1>5. CASE Crash
  BY <1>5, CrashMoves DEF Dies, SavedInv, RunningPreviews
<1>6. CASE Boot
  BY <1>6, BootMoves DEF Comes, SavedInv, RunningPreviews
<1>7. CASE \E d \in Deploys, p \in Previews : HandlePreviewDeploy(d, p)
  BY <1>1, <1>7 DEF HandlePreviewDeploy
<1>8. CASE (\E p \in Previews : HandlePreviewTeardown(p)) \/ HandlePreviewTeardownAll \/ ReapExpired
            \/ Disconnect
  BY <1>1, <1>8 DEF HandlePreviewTeardown, HandlePreviewTeardownAll, ReapExpired, Collect, Disconnect
<1>9. CASE UNCHANGED vars
  BY <1>1, <1>9 DEF vars
<1> QED BY <1>2, <1>3, <1>4, <1>5, <1>6, <1>7, <1>8, <1>9 DEF Next

\* Who takes on a list had none.
LEMMA ListedKeeps ==
  ASSUME BaseInv, NEW t \in Tasks, NEW S, Listed(t, S)
  PROVE  \A q : TearingDown(q) => TearingDown(q)'
<1>1. \A q : ~Contains(td[t].queue, q)
  BY EmptyList DEF Listed, Contains
<1> QED BY <1>1 DEF TearingDown, Listed, OnlyTask

\* A teardown leaves a preview on the list until its entry is gone.
LEMMA TeardownKeeps ==
  ASSUME BaseInv, NEW t \in Tasks, TeardownTask(t)
  PROVE  LET q == Head(td[t].queue) IN
         /\ \A x : TearingDown(x) => TearingDown(x)' \/ x = q
         /\ \/ entry'[q] = Nil
            \/ entry'[q] = entry[q] /\ \E s \in Tasks : Contains(td'[s].queue, q)
         /\ \/ entry'[q] = entry[q] /\ file'[q] = file[q]
            \/ file'[q] = Nil \/ Fails("delete")
<1> DEFINE q == Head(td[t].queue)
<1>1. /\ TearsOnly(t) /\ OnlyTask(t) /\ q \in Previews
      /\ td[t].queue \in Seq(Previews) /\ td[t].queue # <<>> /\ td[t] \in Teardown
  BY TeardownTears, TearingHas
     DEF TearsOnly, TeardownTask, TeardownRead, TeardownStop, TeardownUnroute, TeardownRemove
<1>2. \/ entry' = entry /\ file' = file /\ td'[t].queue = td[t].queue
      \/ entry[q] = Nil /\ entry' = entry /\ file' = file /\ td'[t].queue = Tail(td[t].queue)
      \/ entry'[q] = Nil /\ td'[t].queue = Tail(td[t].queue) /\ (file'[q] = Nil \/ Fails("delete"))
  <2>1. CASE TeardownRead(t)
    BY <2>1, ReadHas, TeardownReadMoves, DroppedHas
  <2>2. CASE TeardownStop(t) \/ TeardownUnroute(t)
    BY <1>1, <2>2, TeardownStopMoves, TeardownUnrouteMoves DEF GoesOn, Teardown
  <2>3. CASE TeardownRemove(t)
    BY <2>3, TeardownRemoveMoves, DroppedHas
  <2> QED BY <2>1, <2>2, <2>3 DEF TeardownTask
<1>3. \A x : TearingDown(x) => TearingDown(x)' \/ x = q
  <2>1. \A x : Contains(td[t].queue, x) => Contains(td'[t].queue, x) \/ x = q
    BY <1>1, <1>2, QueueParts
  <2> QED BY <1>1, <2>1 DEF TearingDown, OnlyTask
<1>4. \/ entry'[q] = Nil
      \/ entry'[q] = entry[q] /\ \E s \in Tasks : Contains(td'[s].queue, q)
  <2>1. CASE td'[t].queue = td[t].queue
    BY <1>1, <1>2, <2>1, QueueParts
  <2> QED BY <1>2, <2>1
<1> QED BY <1>2, <1>3, <1>4

-----------------------------------------------------------------------------
(* What a deploy and a teardown that meet leave alone.                     *)

\* A deploy task keeps what the entries of deploys under way say.
LEMMA TaskMeets ==
  ASSUME BaseInv, MeetInv, "evicting" \notin DeadlineSteps,
         NEW d \in Deploys, DeployTask(d) \/ Timeout(d)
  PROVE  MeetInv'
<1>1. InFlight(d) /\ MovesTo(d, Steps \ {"idle"}) /\ Target(d)' = Target(d)
  BY TaskMoves DEF MovesTo, Target
<1>2. \A q : TearingDown(q) => TearingDown(q)'
  BY TaskFree
<1>3. ASSUME NEW x \in Deploys, InFlight(x)', pc'[x] # "accepted"
      PROVE  EntryAt(x)'
  <2>1. CASE x = d
    BY <1>1, <1>2, <1>3, <2>1, TaskEntry DEF MeetInv, InFlight
  <2>2. CASE x # d
    <3>1. InFlight(x) /\ pc'[x] = pc[x] /\ ctx'[x] = ctx[x] /\ EntryAt(x) /\ Target(x)' = Target(x)
      BY <1>1, <1>3, <2>2 DEF MovesTo, InFlight, Target, MeetInv
    <3>2. Target(x) # Target(d) /\ Target(x) \in Previews
      BY <1>1, <2>2, <3>1, InFlightApart
    <3>3. units'[x] = units[x]
      BY <3>2, TaskSpares DEF Target
    <3>4. route'[Target(x)] = route[Target(x)] /\ entry'[Target(x)] = entry[Target(x)]
      BY <1>1, <3>2 DEF MovesTo
    <3>5. TearingDown(Target(x)) => TearingDown(Target(x))'
      BY <1>2, <3>1 DEF Target, TearingDown
    <3> QED BY <3>1, <3>3, <3>4, <3>5, EntryAtKept
  <2> QED BY <2>1, <2>2
<1> QED BY <1>3 DEF MeetInv

\* So does a teardown, which may meet a deploy of its preview.
LEMMA TeardownMeets ==
  ASSUME BaseInv, MeetInv, NEW t \in Tasks, TeardownTask(t)
  PROVE  MeetInv'
<1> DEFINE q == Head(td[t].queue)
<1>1. TearsOnly(t) /\ OnlyTask(t)
  BY TeardownTears DEF TearsOnly
<1>2. ASSUME NEW x \in Deploys, InFlight(x)', pc'[x] # "accepted"
      PROVE  EntryAt(x)'
  <2>1. InFlight(x) /\ pc'[x] = pc[x] /\ ctx'[x] = ctx[x] /\ EntryAt(x) /\ Target(x)' = Target(x)
    BY <1>1, <1>2 DEF OnlyTask, InFlight, Target, MeetInv
  <2>2. Target(x) \in Previews
    BY <2>1, InFlightHas
  <2>3. CASE Target(x) # q
    <3>1. units'[x] = units[x] /\ route'[Target(x)] = route[Target(x)]
          /\ entry'[Target(x)] = entry[Target(x)]
      BY <1>1, <2>2, <2>3 DEF TearsOnly, Target
    <3>2. TearingDown(Target(x)) => TearingDown(Target(x))'
      BY <2>1, <2>3, TeardownKeeps DEF Target, TearingDown
    <3> QED BY <2>1, <3>1, <3>2, EntryAtKept
  <2>4. CASE Target(x) = q
    <3>1. CASE entry'[q] = Nil
      BY <2>1, <2>4, <3>1 DEF EntryAt
    <3>2. CASE entry'[q] # Nil
      <4>1. entry'[q] = entry[q] /\ \E s \in Tasks : Contains(td'[s].queue, q)
        BY <3>2, TeardownKeeps
      <4>2. TearingDown(Target(x))'
        BY <2>1, <2>4, <4>1 DEF Target, TearingDown
      <4> QED BY <2>1, <2>4, <3>2, <4>1, <4>2, EntryAtKept
    <3> QED BY <3>1, <3>2
  <2> QED BY <2>3, <2>4
<1> QED BY <1>2 DEF MeetInv

\* Steps that leave a deploy and its preview alone.
LEMMA IdleMeets ==
  ASSUME BaseInv, MeetInv, UNCHANGED <<units, route>>,
         \A q : TearingDown(q) => TearingDown(q)',
         \A d \in Deploys : InFlight(d)' /\ pc'[d] # "accepted" =>
           pc'[d] = pc[d] /\ ctx'[d] = ctx[d],
         \A q \in Previews : Ages(entry[q], entry'[q])
  PROVE  MeetInv'
<1>1. ASSUME NEW x \in Deploys, InFlight(x)', pc'[x] # "accepted"
      PROVE  EntryAt(x)'
  <2>1. InFlight(x) /\ pc'[x] = pc[x] /\ ctx'[x] = ctx[x] /\ EntryAt(x) /\ Target(x)' = Target(x)
    BY <1>1 DEF InFlight, Target, MeetInv
  <2>2. Ages(entry[Target(x)], entry'[Target(x)])
    BY <2>1, InFlightHas
  <2>3. TearingDown(Target(x)) => TearingDown(Target(x))'
    BY <2>1 DEF Target, TearingDown
  <2> QED BY <2>1, <2>2, <2>3, EntryAtKept DEF Ages
<1> QED BY <1>1 DEF MeetInv

\* So does every step.
LEMMA MeetNext ==
  ASSUME BaseInv, MeetInv, "evicting" \notin DeadlineSteps, "disconnect" \notin Events, [Next]_vars
  PROVE  MeetInv'
<1>1. \A e : Ages(e, e)
  BY DEF Ages
<1>2. CASE \E d \in Deploys : DeployTask(d) \/ Timeout(d)
  BY <1>2, TaskMeets
<1>3. CASE \E t \in Tasks : TeardownTask(t)
  BY <1>3, TeardownMeets
<1>4. CASE \E d \in Deploys, p \in Previews : HandlePreviewDeploy(d, p)
  <2>1. PICK d \in Deploys, p \in Previews : Accepts(d, p)
    BY <1>4, HandleMoves
  <2> QED BY <1>1, <2>1, IdleMeets DEF Accepts, TearingDown
<1>5. CASE (\E p \in Previews : HandlePreviewTeardown(p)) \/ HandlePreviewTeardownAll \/ ReapExpired
  <2>1. PICK t \in {"api", "reaper"}, S \in SUBSET Previews : Listed(t, S)
    BY <1>5, Collected
  <2>2. \A q : TearingDown(q) => TearingDown(q)'
    BY <2>1, ListedKeeps DEF Tasks
  <2> QED BY <1>1, <2>1, <2>2, IdleMeets DEF Listed, OnlyTask, Still
<1>6. CASE \E n \in 1 .. clock : Elapse(n)
  BY <1>6, ElapseMoves, IdleMeets DEF TearingDown
<1>7. CASE Disconnect
  BY <1>7 DEF Disconnect
<1>8. CASE Crash \/ Boot
  BY <1>8, CrashMoves, BootMoves, DownApart DEF ApartInv
<1>9. CASE UNCHANGED vars
  BY <1>1, <1>9, IdleMeets DEF vars, TearingDown
<1> QED BY <1>2, <1>3, <1>4, <1>5, <1>6, <1>7, <1>8, <1>9 DEF Next

-----------------------------------------------------------------------------
(* What runs is served.                                                    *)

\* What e names stays up if nothing of its preview changes.
LEMMA LiveKept ==
  ASSUME BaseInv, NEW p \in Previews, NEW e, Live(e, p), e.unit \in Deploys,
         ctx[e.unit].preview = p, units'[e.unit] = units[e.unit],
         ctx'[e.unit].preview = ctx[e.unit].preview, route'[p] = route[p]
  PROVE  /\ units'[e.unit] = e.port /\ e.unit # Nil
         /\ e.domain => route'[p] = e.port /\ ctx'[e.unit].preview = p
  BY DEF Live

\* A deploy task keeps what runs served.
LEMMA TaskServe ==
  ASSUME BaseInv, MeetInv, ServeInv, Finishes, NEW d \in Deploys, DeployTask(d) \/ Timeout(d)
  PROVE  ServeInv'
<1> DEFINE p == Target(d)
<1>1. /\ InFlight(d) /\ MovesTo(d, Steps \ {"idle"}) /\ up /\ p \in Previews
      /\ \A q : TearingDown(q) => TearingDown(q)'
      /\ TearingDown(p) => TearingDown(p)'
  BY TaskMoves, InFlightHas, TaskFree DEF Finishes, Undisturbed, MovesTo, Target
<1>2. ASSUME NEW q \in RunningPreviews', ~TearingDown(q)'
      PROVE  Live(entry[q], q)'
  <2>1. CASE q # p
    <3>1. entry'[q] = entry[q] /\ route'[q] = route[q] /\ q \in Previews
      BY <1>1, <1>2, <2>1 DEF MovesTo, RunningPreviews
    <3>2. Live(entry[q], q) /\ entry[q] # Nil /\ entry[q].unit # Nil
      BY <1>1, <1>2, <3>1 DEF ServeInv, RunningPreviews, Live
    <3>3. entry[q].unit \in Deploys /\ ctx[entry[q].unit].preview = q
      BY <3>1, <3>2, NamesOwn
    <3>4. units'[entry[q].unit] = units[entry[q].unit]
      BY <2>1, <3>3, TaskSpares
    <3>5. ctx'[entry[q].unit].preview = ctx[entry[q].unit].preview
      BY <1>1, <3>3 DEF MovesTo
    <3> QED BY <3>1, <3>2, <3>3, <3>4, <3>5, LiveKept DEF Live
  <2>2. CASE q = p
    <3>1. Complete(d)
      BY <1>1, <1>2, <2>2, TaskEnds DEF RunningPreviews
    <3>2. pc[d] = "completing" /\ Completes(d) /\ Still /\ SameRoute(d)
      BY <3>1, CompleteMoves
    <3>3. EntryAt(d) /\ ~TearingDown(p) /\ entry[p] # Nil
      BY <1>1, <1>2, <2>2, <3>2 DEF MeetInv, Completes, RunningPreviews
    <3>4. LET e == entry[p] IN
          /\ e # Nil /\ e.unit = d /\ units[d] = ctx[d].port
          /\ e.domain => route[p] = ctx[d].port
      BY <3>2, <3>3, EntryAtParts DEF Named, Unconfigured
    <3> QED BY <2>2, <3>2, <3>4, NilFresh DEF Completes, Live, Still, SameRoute, Target
  <2> QED BY <2>1, <2>2
<1>3. ASSUME NEW q \in Previews, entry'[q] = Nil
      PROVE  file'[q] = Nil
  BY <1>1, <1>3, TaskEnds DEF ServeInv, MovesTo
<1> QED BY <1>1, <1>2, <1>3 DEF ServeInv, MovesTo

\* A teardown takes down its own preview only.
LEMMA TeardownServe ==
  ASSUME BaseInv, ServeInv, Finishes, NEW t \in Tasks, TeardownTask(t)
  PROVE  ServeInv'
<1> DEFINE q == Head(td[t].queue)
<1>1. TearsOnly(t) /\ OnlyTask(t) /\ q \in Previews /\ up
  BY TeardownTears, TearingHas
     DEF TearsOnly, TeardownTask, TeardownRead, TeardownStop, TeardownUnroute, TeardownRemove
<1>2. \/ entry'[q] = entry[q] /\ file'[q] = file[q]
      \/ file'[q] = Nil
  BY TeardownKeeps DEF Finishes, Fails
<1>3. \A x : TearingDown(x) => TearingDown(x)' \/ x = q
  BY TeardownKeeps
<1>4. entry'[q] = Nil \/ \E s \in Tasks : Contains(td'[s].queue, q)
  BY TeardownKeeps
<1>5. ASSUME NEW x \in RunningPreviews', ~TearingDown(x)'
      PROVE  Live(entry[x], x)'
  <2>1. x # q /\ x \in Previews /\ ~TearingDown(x)
    BY <1>3, <1>4, <1>5 DEF RunningPreviews, TearingDown
  <2>2. entry'[x] = entry[x] /\ route'[x] = route[x]
    BY <1>1, <2>1 DEF TearsOnly
  <2>3. Live(entry[x], x) /\ entry[x] # Nil /\ entry[x].unit # Nil
    BY <1>5, <2>1, <2>2 DEF ServeInv, RunningPreviews, Live
  <2>4. entry[x].unit \in Deploys /\ ctx[entry[x].unit].preview = x
    BY <2>1, <2>3, NamesOwn
  <2>5. units'[entry[x].unit] = units[entry[x].unit] /\ ctx' = ctx
    BY <1>1, <2>1, <2>4 DEF TearsOnly, OnlyTask
  <2> QED BY <2>1, <2>2, <2>3, <2>4, <2>5, LiveKept DEF Live
<1>6. ASSUME NEW x \in Previews, entry'[x] = Nil
      PROVE  file'[x] = Nil
  BY <1>1, <1>2, <1>6 DEF ServeInv, TearsOnly
<1> QED BY <1>1, <1>5, <1>6 DEF ServeInv, OnlyTask

\* Steps that leave the preview, its unit and its route alone.
LEMMA IdleServe ==
  ASSUME BaseInv, ServeInv, UNCHANGED <<units, route, up>>,
         \A q : TearingDown(q) => TearingDown(q)',
         \A u \in Deploys : pc[u] \notin Unstarted => ctx'[u] = ctx[u],
         \A q \in Previews : Ages(entry[q], entry'[q]) /\ Ages(file[q], file'[q])
  PROVE  ServeInv'
<1>1. ASSUME NEW q \in Previews, entry'[q] # Nil, entry'[q].status = "running", ~TearingDown(q)'
      PROVE  Live(entry[q], q)'
  <2>1. /\ entry[q] # Nil /\ entry[q].status = "running" /\ entry[q].unit = entry'[q].unit
        /\ entry[q].port = entry'[q].port /\ entry[q].domain = entry'[q].domain
    BY <1>1 DEF Ages
  <2>2. Live(entry[q], q)
    BY <1>1, <2>1 DEF ServeInv, RunningPreviews
  <2>3. ctx'[entry[q].unit] = ctx[entry[q].unit]
    BY <2>1, <2>2, NamesOwn DEF Live, StartedFor
  <2> QED BY <2>1, <2>2, <2>3 DEF Live
<1>2. ASSUME NEW q \in Previews, ~up, file'[q] # Nil
      PROVE  Live(file[q], q)'
  <2>1. /\ file[q] # Nil /\ file[q].unit = file'[q].unit
        /\ file[q].port = file'[q].port /\ file[q].domain = file'[q].domain
    BY <1>2 DEF Ages
  <2>2. Live(file[q], q)
    BY <1>2, <2>1 DEF ServeInv
  <2>3. ctx'[file[q].unit] = ctx[file[q].unit]
    BY <2>1, <2>2, NamesOwn DEF Live, StartedFor
  <2> QED BY <2>1, <2>2, <2>3 DEF Live
<1>3. ASSUME NEW q \in Previews, up, entry'[q] = Nil
      PROVE  file'[q] = Nil
  BY <1>3 DEF ServeInv, Ages
<1> QED BY <1>1, <1>2, <1>3 DEF ServeInv, RunningPreviews

\* A crash when nothing is under way leaves all that runs in the files.
LEMMA DiesServe ==
  ASSUME BaseInv, SavedInv, ServeInv, Dies, "crash" \notin Events
  PROVE  ServeInv'
<1>1. Still /\ Calm
  BY DEF Dies, Calm, InFlight
<1>2. ASSUME NEW p \in Previews, file[p] # Nil
      PROVE  Live(file[p], p)
  <2>1. entry[p] # Nil
    BY <1>2 DEF ServeInv, Dies
  <2>2. p \in RunningPreviews
    BY <1>1, <2>1 DEF Calm, RunningPreviews
  <2>3. ~TearingDown(p)
    BY <1>1 DEF Calm, TearingDown, Contains
  <2> QED BY <2>2, <2>3 DEF ServeInv, SavedInv
<1> QED BY <1>1, <1>2 DEF ServeInv, Dies, RunningPreviews, Live, Still

\* A boot finds what the files name still up.
LEMMA ComesServe ==
  ASSUME BaseInv, ServeInv, Comes
  PROVE  ServeInv'
<1>1. ASSUME NEW p \in Previews, file[p] # Nil
      PROVE  Live(entry[p], p)'
  <2>1. Live(file[p], p)
    BY <1>1 DEF ServeInv, Comes
  <2>2. /\ entry'[p].unit = file[p].unit /\ entry'[p].port = file[p].port
        /\ entry'[p].domain = file[p].domain /\ route'[p] \in {route[p], file[p].port}
        /\ units' = units /\ ctx' = ctx
    BY <1>1 DEF Comes
  <2> QED BY <2>1, <2>2 DEF Live
<1>2. \A p \in Previews : entry'[p] # Nil <=> file[p] # Nil
  BY DEF Comes
<1> QED BY <1>1, <1>2 DEF ServeInv, RunningPreviews, Comes

\* Every step keeps what runs served.
LEMMA ServeNext ==
  ASSUME BaseInv, MeetInv, SavedInv, ServeInv, Finishes, [Next]_vars
  PROVE  ServeInv'
<1>1. \A e : Ages(e, e)
  BY DEF Ages
<1>2. CASE \E d \in Deploys : DeployTask(d) \/ Timeout(d)
  BY <1>2, TaskServe
<1>3. CASE \E t \in Tasks : TeardownTask(t)
  BY <1>3, TeardownServe
<1>4. CASE \E d \in Deploys, p \in Previews : HandlePreviewDeploy(d, p)
  <2>1. PICK d \in Deploys, p \in Previews : Accepts(d, p)
    BY <1>4, HandleMoves
  <2>2. \A u \in Deploys : pc[u] \notin Unstarted => ctx'[u] = ctx[u]
    BY <2>1 DEF Accepts, Unstarted
  <2> QED BY <1>1, <2>1, <2>2, IdleServe DEF Accepts, TearingDown
<1>5. CASE (\E p \in Previews : HandlePreviewTeardown(p)) \/ HandlePreviewTeardownAll \/ ReapExpired
  <2>1. PICK t \in {"api", "reaper"}, S \in SUBSET Previews : Listed(t, S)
    BY <1>5, Collected
  <2>3. \A q : TearingDown(q) => TearingDown(q)'
    BY <2>1, ListedKeeps DEF Tasks
  <2> QED BY <1>1, <2>1, <2>3, IdleServe DEF Listed, OnlyTask, Still
<1>6. CASE \E n \in 1 .. clock : Elapse(n)
  BY <1>6, ElapseMoves, IdleServe DEF TearingDown
<1>7. CASE Disconnect
  BY <1>7 DEF Finishes, Disconnect
<1>8. CASE Crash
  BY <1>8, CrashMoves, DiesServe DEF Finishes, Undisturbed
<1>9. CASE Boot
  BY <1>9, BootMoves, ComesServe
<1>10. CASE UNCHANGED vars
  BY <1>1, <1>10, IdleServe DEF vars, TearingDown
<1> QED BY <1>2, <1>3, <1>4, <1>5, <1>6, <1>7, <1>8, <1>9, <1>10 DEF Next

\* At the start there is nothing to serve.
LEMMA ServeInit ==
  ASSUME Init
  PROVE  SavedInv /\ ServeInv
  BY DEF Init, SavedInv, ServeInv, RunningPreviews

\* The URL of a preview shown as running leads to what its entry names, from the end of
\* its deploy until it is torn down or deployed again, through other deploys, deploys and
\* teardowns of one preview that meet, failures, evictions and calm restarts: where slipd
\* crashes only when nothing is under way, files are written and removed as asked, and no
\* deadline and no client cuts a teardown short.
THEOREM RunningServesHolds ==
  ASSUME Finishes
  PROVE  Spec => []RunningServes
<1> DEFINE Inv == BaseInv /\ MeetInv /\ SavedInv /\ ServeInv
<1>1. Init => Inv
  BY BaseInit, ApartInit, ServeInit DEF ApartInv
<1>2. Inv /\ [Next]_vars => Inv'
  BY BaseNext, MeetNext, SavedNext, ServeNext DEF Finishes, Undisturbed
<1>3. Inv => RunningServes
  BY DEF ServeInv, Live, RunningServes
<1> QED BY <1>1, <1>2, <1>3, PTL DEF Spec

-----------------------------------------------------------------------------
(* Nothing runs unowned.                                                   *)

\* A deploy that ends has removed its unit, or its entry names it, and has stopped the
\* one before.
LEMMA TaskOwns ==
  ASSUME BaseInv, ApartInv, Tidy, NEW d \in Deploys, DeployTask(d) \/ Timeout(d)
  PROVE  LET p == Target(d) IN
         /\ pc'[d] = "done" => \/ units'[d] = Nil
                               \/ entry'[p] # Nil /\ entry'[p].unit = d
         /\ pc[d] \in Redeploying =>
              /\ ctx'[d].old = ctx[d].old
              /\ pc'[d] \in Redeploying \/ ctx[d].old = Nil \/ units'[ctx[d].old] = Nil
         /\ entry[p] # Nil /\ entry[p].unit # Nil =>
              \/ entry'[p] # Nil /\ entry'[p].unit = entry[p].unit
              \/ pc'[d] \in Redeploying /\ ctx'[d].old = entry[p].unit
<1> DEFINE p == Target(d)
<1>1. /\ InFlight(d) /\ MovesTo(d, Steps \ {"idle"})
      /\ pc[d] # "accepted" => EntryAt(d) /\ entry[p] # Nil
      /\ pc[d] \in Unstarted => units[d] = Nil
  BY TaskMoves DEF ApartInv, MeetInv, BaseInv, LockInv
<1>2. pc[d] \in Named => entry[p] # Nil /\ entry[p].unit = d
  BY <1>1, EntryAtParts DEF Named
<1>3. pc[d] \in Unstarted /\ pc[d] # "accepted" => entry[p].unit = Nil
  BY <1>1, EntryAtParts
<1> DEFINE Goal1 == pc'[d] = "done" => units'[d] = Nil \/ (entry'[p] # Nil /\ entry'[p].unit = d)
           Goal2 == pc[d] \in Redeploying =>
                      /\ ctx'[d].old = ctx[d].old
                      /\ pc'[d] \in Redeploying \/ ctx[d].old = Nil \/ units'[ctx[d].old] = Nil
           Goal3 == entry[p] # Nil /\ entry[p].unit # Nil =>
                      \/ entry'[p] # Nil /\ entry'[p].unit = entry[p].unit
                      \/ pc'[d] \in Redeploying /\ ctx'[d].old = entry[p].unit
<1>4. /\ ~Fails("pull") /\ ~Fails("config") /\ ~Fails("domain") /\ ~Fails("stop") /\ ~Fails("inspect")
      /\ DeadlineSteps \cap {"pulling", "configuring", "evicting", "starting", "discarding"} = {}
  BY DEF Tidy, Undisturbed, Fails
<1>5. CASE Capture(d)
  <2>1. pc[d] = "accepted" /\ Still /\ (Captures(d) \/ GivesUp(d))
    BY <1>5, CaptureMoves
  <2>2. units'[d] = Nil
    BY <1>1, <2>1 DEF Still, Unstarted
  <2> QED BY <2>1, <2>2 DEF Captures, GivesUp, Marks, MovesTo, Redeploying
<1>6. CASE Pull(d)
  BY <1>4, <1>6, PullMoves DEF Passes, Calmly, Keeps, MovesTo, Redeploying
<1>7. CASE Configure(d)
  BY <1>4, <1>7, ConfigureMoves DEF Configures, MovesTo, Redeploying
<1>8. CASE TearDownOld(d)
  <2>1. Passes(d, {"unrouting_old", "starting"}) /\ Halts(ctx[d].old)
    BY <1>4, <1>8, TearDownOldMoves
  <2> QED BY <2>1 DEF Passes, Calmly, Keeps, MovesTo, Halts
<1>9. CASE UnrouteOld(d)
  BY <1>9, UnrouteOldMoves DEF Passes, Calmly, Keeps, MovesTo, Redeploying
<1>10. CASE Start(d)
  <2>1. pc[d] = "starting"
    BY <1>10, StartMoves
  <2>2. entry[p].unit = Nil /\ units[d] = Nil
    BY <1>1, <1>3, <2>1 DEF Unstarted
  <2> QED BY <1>4, <1>10, <2>1, <2>2, StartMoves
          DEF Starts, GivesUp, Discards, MovesTo, Redeploying, Still
<1>11. CASE Health(d)
  BY <1>4, <1>11, HealthMoves DEF Passes, Keeps, Discards, Marks, MovesTo, Redeploying
<1>12. CASE Hooks(d)
  BY <1>12, HooksMoves DEF Passes, Keeps, Discards, Marks, MovesTo, Redeploying
<1>13. CASE Switch(d)
  BY <1>13, SwitchMoves DEF Passes, Keeps, Discards, Marks, MovesTo, Redeploying
<1>14. CASE Complete(d)
  <2>1. pc[d] = "completing" /\ Completes(d)
    BY <1>14, CompleteMoves
  <2> QED BY <1>2, <2>1 DEF Completes, Redeploying, Named
<1>15. CASE Discard(d)
  BY <1>4, <1>15, DiscardMoves, NilFresh DEF Passes, Keeps, Redeploying, Halts
<1>16. CASE Timeout(d)
  <2>1. pc[d] \in DeadlineSteps
    BY <1>16, TimeoutMoves
  <2>2. pc[d] \in Named \/ pc[d] = "unrouting_old"
    BY <1>4, <2>1, PreviewAssumption DEF TimedSteps, Named
  <2>3. pc[d] = "unrouting_old" => units'[d] = Nil
    BY <1>1, <1>16, TimeoutMoves DEF Still, Unstarted
  <2> QED BY <1>2, <1>16, <2>2, <2>3, TimeoutMoves DEF Marks, Named, Redeploying
<1> QED BY <1>5, <1>6, <1>7, <1>8, <1>9, <1>10, <1>11, <1>12, <1>13, <1>14, <1>15, <1>16
        DEF DeployTask

\* A deploy task keeps every unit owned.
LEMMA TaskOwn ==
  ASSUME BaseInv, ApartInv, OwnInv, Tidy, NEW d \in Deploys, DeployTask(d) \/ Timeout(d)
  PROVE  OwnInv'
<1> DEFINE p == Target(d)
<1>1. InFlight(d) /\ MovesTo(d, Steps \ {"idle"}) /\ up /\ p \in Previews /\ Handles(d)
  BY TaskMoves, InFlightHas, TaskHandles
<1>2. ASSUME NEW u \in Deploys, units'[u] # Nil
      PROVE  Owned(u)'
  <2>1. CASE u = d
    <3>1. CASE pc'[d] = "done"
      BY <1>1, <1>2, <2>1, <3>1, TaskOwns DEF Owned
    <3>2. CASE pc'[d] # "done"
      BY <1>1, <2>1, <3>2 DEF Owned, InFlight, MovesTo
    <3> QED BY <3>1, <3>2
  <2>2. CASE u # d
    <3>1. units[u] # Nil
      BY <1>1, <1>2, <2>2 DEF Handles
    <3>2. Owned(u)
      BY <1>1, <3>1 DEF OwnInv
    <3>3. CASE \E q \in Previews : entry[q] # Nil /\ entry[q].unit = u
      <4>1. PICK q \in Previews : entry[q] # Nil /\ entry[q].unit = u
        BY <3>3
      <4>2. CASE q # p
        BY <1>1, <4>1, <4>2 DEF MovesTo, Owned
      <4>3. CASE q = p
        BY <1>1, <4>1, <4>3, TaskOwns, NilFresh DEF Owned
      <4> QED BY <4>2, <4>3
    <3>4. CASE InFlight(u)
      BY <1>1, <2>2, <3>4 DEF InFlight, Owned, MovesTo
    <3>5. CASE \E x \in Deploys : pc[x] \in Redeploying /\ ctx[x].old = u
      <4>1. PICK x \in Deploys : pc[x] \in Redeploying /\ ctx[x].old = u
        BY <3>5
      <4>2. CASE x # d
        BY <1>1, <4>1, <4>2 DEF MovesTo, Owned
      <4>3. CASE x = d
        BY <1>2, <4>1, <4>3, TaskOwns, NilFresh DEF Owned
      <4> QED BY <4>2, <4>3
    <3> QED BY <3>2, <3>3, <3>4, <3>5 DEF Owned
  <2> QED BY <2>1, <2>2
<1>3. ASSUME NEW t \in Tasks, td'[t].step \in {"unroute", "remove"}, td'[t].unit # Nil
      PROVE  units'[td'[t].unit] = Nil
  <2>1. td'[t] = td[t]
    BY <1>3, TaskLists
  <2> DEFINE u == td[t].unit
  <2>2. u \in Deploys /\ pc[u] \notin Unstarted /\ units[u] = Nil
    BY <1>3, <2>1, TearingHas DEF OwnInv, BaseInv, NameInv, StartedFor
  <2>3. CASE u # d
    BY <1>1, <2>1, <2>2, <2>3 DEF Handles
  <2>4. CASE u = d
    <3>1. \/ Still \/ Halts(d)
      <4>1. ~Start(d) /\ ~TearDownOld(d) /\ pc[d] # "starting"
        BY <2>2, <2>4, StartMoves, TearDownOldMoves DEF Unstarted
      <4> QED BY <4>1, CaptureMoves, PullMoves, ConfigureMoves, UnrouteOldMoves, HealthMoves, HooksMoves,
                 SwitchMoves, CompleteMoves, DiscardMoves, TimeoutMoves DEF DeployTask
    <3> QED BY <2>1, <2>2, <2>4, <3>1, NilFresh DEF Still, Halts
  <2> QED BY <2>3, <2>4
<1> QED BY <1>1, <1>2, <1>3 DEF OwnInv, MovesTo

\* A teardown stops the unit before it forgets it.
LEMMA TeardownOwn ==
  ASSUME BaseInv, ApartInv, OwnInv, Tidy, NEW t \in Tasks, TeardownTask(t)
  PROVE  OwnInv'
<1> DEFINE q == Head(td[t].queue)
<1>1. /\ TearsOnly(t) /\ OnlyTask(t) /\ q \in Previews /\ up /\ td[t] \in Teardown
      /\ td[t].unit \in Deploys \cup {Nil}
  BY TeardownTears, TearingHas
     DEF TearsOnly, TeardownTask, TeardownRead, TeardownStop, TeardownUnroute, TeardownRemove
<1>2. \A u \in Deploys : units'[u] \in {units[u], Nil}
  <2>1. CASE TeardownStop(t)
    BY <2>1, TeardownStopMoves DEF Still, Halts, OnlyUnit
  <2>2. CASE ~TeardownStop(t)
    BY <2>2, TeardownReadMoves, TeardownUnrouteMoves, TeardownRemoveMoves DEF TeardownTask, Still
  <2> QED BY <2>1, <2>2
<1>3. ASSUME NEW u \in Deploys, units'[u] # Nil
      PROVE  Owned(u)'
  <2>1. units[u] # Nil /\ Owned(u)
    BY <1>1, <1>2, <1>3 DEF OwnInv
  <2>2. CASE \E x \in Previews : entry[x] # Nil /\ entry[x].unit = u
    <3>1. PICK x \in Previews : entry[x] # Nil /\ entry[x].unit = u
      BY <2>2
    <3>2. CASE TeardownRemove(t) /\ x = q
      <4>1. td[t].step = "remove" /\ td[t].unit = u
        BY <3>1, <3>2, TeardownRemoveMoves DEF ApartInv
      <4>2. units[u] = Nil
        BY <4>1, NilFresh DEF OwnInv
      <4> QED BY <2>1, <4>2
    <3>3. CASE ~(TeardownRemove(t) /\ x = q)
      <4>1. entry'[x] = entry[x]
        BY <3>3, TeardownReadMoves, TeardownStopMoves, TeardownUnrouteMoves, TeardownRemoveMoves
           DEF TeardownTask
      <4> QED BY <3>1, <4>1 DEF Owned
    <3> QED BY <3>2, <3>3
  <2>3. CASE ~\E x \in Previews : entry[x] # Nil /\ entry[x].unit = u
    BY <1>1, <2>1, <2>3 DEF Owned, OnlyTask, InFlight
  <2> QED BY <2>2, <2>3
<1>4. ASSUME NEW s \in Tasks, td'[s].step \in {"unroute", "remove"}, td'[s].unit # Nil
      PROVE  units'[td'[s].unit] = Nil
  <2>1. CASE s # t
    <3>1. td'[s] = td[s] /\ units[td[s].unit] = Nil /\ td[s].unit \in Deploys
      BY <1>1, <1>4, <2>1, TearingHas DEF OnlyTask, OwnInv
    <3> QED BY <1>2, <3>1
  <2>2. CASE s = t
    <3>1. CASE TeardownRead(t)
      BY <1>4, <2>2, <3>1, ReadHas, DroppedHas
    <3>2. CASE TeardownStop(t)
      <4>1. Halts(td[t].unit)
        BY <3>2, TeardownStopMoves DEF Tidy, Fails
      <4>2. td'[t].unit = td[t].unit
        BY <1>1, <3>2, TeardownStopMoves DEF GoesOn, Teardown
      <4> QED BY <1>4, <2>2, <4>1, <4>2 DEF Halts
    <3>3. CASE TeardownUnroute(t)
      <4>1. td'[t].unit = td[t].unit /\ Still /\ td[t].step = "unroute"
        BY <1>1, <3>3, TeardownUnrouteMoves DEF GoesOn, Teardown
      <4> QED BY <1>4, <2>2, <4>1 DEF Still, OwnInv
    <3>4. CASE TeardownRemove(t)
      BY <1>4, <2>2, <3>4, TeardownRemoveMoves, DroppedHas
    <3> QED BY <3>1, <3>2, <3>3, <3>4 DEF TeardownTask
  <2> QED BY <2>1, <2>2
<1> QED BY <1>1, <1>3, <1>4 DEF OwnInv, OnlyTask

\* Steps that start and stop nothing, and leave the entries and the deploys as they are.
LEMMA IdleOwn ==
  ASSUME BaseInv, OwnInv, UNCHANGED <<units, up>>,
         \A q \in Previews : Ages(entry[q], entry'[q]) /\ Ages(file[q], file'[q]),
         \A u \in Deploys : InFlight(u) => InFlight(u)',
         \A d \in Deploys : pc[d] \in Redeploying => pc'[d] \in Redeploying /\ ctx'[d].old = ctx[d].old,
         \A t \in Tasks : td'[t] = td[t] \/ td'[t].step = "read"
  PROVE  OwnInv'
<1>1. \A u \in Deploys : Owned(u) => Owned(u)'
  BY DEF Owned, Ages
<1> QED BY <1>1 DEF OwnInv, Ages

\* A calm crash leaves every unit named in a file.
LEMMA DiesOwn ==
  ASSUME BaseInv, SavedInv, OwnInv, Dies, "crash" \notin Events
  PROVE  OwnInv'
<1>1. Still /\ Calm /\ up
  BY DEF Dies, Calm, InFlight
<1>2. ASSUME NEW u \in Deploys, units[u] # Nil
      PROVE  \E p \in Previews : file[p] # Nil /\ file[p].unit = u
  <2>1. PICK p \in Previews : entry[p] # Nil /\ entry[p].unit = u
    BY <1>1, <1>2 DEF OwnInv, Owned, Calm, InFlight, Redeploying
  <2>2. file[p] = entry[p]
    BY <1>1, <2>1 DEF Calm, SavedInv, RunningPreviews
  <2> QED BY <2>1, <2>2
<1> QED BY <1>1, <1>2, EmptyList DEF OwnInv, Dies, Still

\* A boot names again what the files name.
LEMMA ComesOwn ==
  ASSUME BaseInv, OwnInv, Comes
  PROVE  OwnInv'
<1>1. ASSUME NEW u \in Deploys, units[u] # Nil
      PROVE  Owned(u)'
  <2>1. PICK p \in Previews : file[p] # Nil /\ file[p].unit = u
    BY <1>1 DEF OwnInv, Comes
  <2>2. entry'[p] # Nil /\ entry'[p].unit = u
    BY <2>1 DEF Comes
  <2> QED BY <2>2 DEF Owned
<1> QED BY <1>1 DEF OwnInv, Comes

\* Every step keeps every unit owned.
LEMMA OwnNext ==
  ASSUME BaseInv, ApartInv, SavedInv, OwnInv, Tidy, [Next]_vars
  PROVE  OwnInv'
<1>1. \A e : Ages(e, e)
  BY DEF Ages
<1>2. CASE \E d \in Deploys : DeployTask(d) \/ Timeout(d)
  BY <1>2, TaskOwn
<1>3. CASE \E t \in Tasks : TeardownTask(t)
  BY <1>3, TeardownOwn
<1>4. CASE \E d \in Deploys, p \in Previews : HandlePreviewDeploy(d, p)
  <2>1. PICK d \in Deploys, p \in Previews : Accepts(d, p)
    BY <1>4, HandleMoves
  <2>2. /\ \A u \in Deploys : InFlight(u) => InFlight(u)'
        /\ \A x \in Deploys : pc[x] \in Redeploying => pc'[x] \in Redeploying /\ ctx'[x].old = ctx[x].old
    BY <2>1 DEF Accepts, Redeploying, InFlight
  <2> QED BY <1>1, <2>1, <2>2, IdleOwn DEF Accepts
<1>5. CASE (\E p \in Previews : HandlePreviewTeardown(p)) \/ HandlePreviewTeardownAll \/ ReapExpired
  <2>1. PICK t \in {"api", "reaper"}, S \in SUBSET Previews : Listed(t, S)
    BY <1>5, Collected
  <2>2. \A x \in Tasks : td'[x] = td[x] \/ td'[x].step = "read"
    <3>1. \E q : td'[t] = Asked(q)
      BY <2>1 DEF Listed, Asked
    <3> QED BY <2>1, <3>1, EmptyList DEF Listed, OnlyTask
  <2> QED BY <1>1, <2>1, <2>2, IdleOwn DEF Listed, OnlyTask, Still, InFlight
<1>6. CASE \E n \in 1 .. clock : Elapse(n)
  BY <1>6, ElapseMoves, IdleOwn DEF InFlight
<1>7. CASE Disconnect
  <2>1. \A x \in Tasks : td'[x] = td[x] \/ td'[x].step = "read"
    BY <1>7, DisconnectMoves, EmptyList DEF Leaves
  <2> QED BY <1>1, <1>7, <2>1, DisconnectMoves, IdleOwn DEF Leaves, InFlight
<1>8. CASE Crash
  BY <1>8, CrashMoves, DiesOwn DEF Tidy, Undisturbed
<1>9. CASE Boot
  BY <1>9, BootMoves, ComesOwn
<1>10. CASE UNCHANGED vars
  BY <1>1, <1>10, IdleOwn DEF vars, InFlight
<1> QED BY <1>2, <1>3, <1>4, <1>5, <1>6, <1>7, <1>8, <1>9, <1>10 DEF Next

\* At the start nothing runs.
LEMMA OwnInit ==
  ASSUME Init
  PROVE  OwnInv
  BY EmptyList DEF Init, OwnInv

\* What is owned is named by an entry or a deploy in flight.
LEMMA OwnedHas ==
  ASSUME BaseInv, OwnInv
  PROVE  UnitsOwned
  BY DEF OwnInv, Owned, UnitsOwned, InFlight, Redeploying

\* Nothing runs unowned: what a preview runs is named by its entry or by a deploy under
\* way, through failures after the start, deploys that time out, teardowns that a client
\* walks away from and calm restarts: where stops succeed, no deploy fails before it has
\* taken over from the one before, and none is cut short while a create call is out.
THEOREM UnitsOwnedHolds ==
  ASSUME Tidy
  PROVE  Spec => []UnitsOwned
<1> DEFINE Inv == BaseInv /\ ApartInv /\ SavedInv /\ OwnInv
<1>1. Init => Inv
  BY BaseInit, ApartInit, ServeInit, OwnInit
<1>2. Inv /\ [Next]_vars => Inv'
  BY BaseNext, ApartNext, SavedNext, OwnNext DEF ApartInv, Tidy
<1>3. Inv => UnitsOwned
  BY OwnedHas
<1> QED BY <1>1, <1>2, <1>3, PTL DEF Spec

-----------------------------------------------------------------------------
(* Nothing is left behind.                                                 *)

\* A step of the task of d keeps the route of its preview within what the entry says.
LEMMA TaskRoutes ==
  ASSUME BaseInv, ApartInv, RouteInv, Unroutes, NEW d \in Deploys, DeployTask(d) \/ Timeout(d)
  PROVE  LET p == Target(d) IN
         /\ ~IsWorker(d)'
         /\ route'[p] # Nil => \/ entry'[p] # Nil /\ entry'[p].domain
                               \/ pc'[d] \in Unconfigured
<1> DEFINE p == Target(d)
           e == entry[p]
           f == entry'[p]
<1>1. /\ InFlight(d) /\ up /\ p \in Previews /\ ~IsWorker(d)
      /\ pc[d] # "accepted" => EntryAt(d) /\ entry[p] # Nil
  BY TaskMoves, InFlightHas DEF ApartInv, MeetInv, RouteInv
<1>2. pc[d] \notin Unconfigured /\ pc[d] # "accepted" => e # Nil /\ e.domain
  BY <1>1, EntryAtParts
<1>3. ~Fails("pull") /\ ~Fails("config") /\ ~Fails("domain") /\ "worker" \notin Kinds
      /\ DeadlineSteps \cap {"pulling", "configuring"} = {}
  BY DEF Unroutes, Tidy, Fails
<1>4. ASSUME ctx'[d] = ctx[d], Marks(d) \/ Keeps(d), pc[d] \notin Unconfigured, pc[d] # "accepted"
      PROVE  ~IsWorker(d)' /\ f # Nil /\ f.domain
  BY <1>1, <1>2, <1>4 DEF Marks, Keeps, IsWorker
<1>5. CASE Capture(d)
  <2>1. pc[d] = "accepted" /\ SameRoute(d) /\ (Captures(d) \/ GivesUp(d))
    BY <1>5, CaptureMoves
  <2>2. CASE Captures(d)
    BY <1>1, <2>2 DEF Captures, MovesTo, Unconfigured, IsWorker
  <2>3. CASE GivesUp(d)
    <3>1. route[p] # Nil => e # Nil /\ e.domain
      <4>1. ~\E x \in Deploys : pc[x] \in Unconfigured /\ Target(x) = p
        <5> SUFFICES ASSUME NEW x \in Deploys, pc[x] \in Unconfigured, Target(x) = p
                     PROVE  FALSE
          OBVIOUS
        <5>1. InFlight(x) /\ x # d
          BY <2>1 DEF InFlight, Unconfigured
        <5> QED BY <1>1, <5>1, InFlightApart
      <4> QED BY <1>1, <4>1 DEF RouteInv
    <3> QED BY <1>1, <2>1, <2>3, <3>1 DEF GivesUp, Calmly, Marks, SameRoute, IsWorker
  <2> QED BY <2>1, <2>2, <2>3
<1>6. CASE Pull(d)
  BY <1>1, <1>3, <1>6, PullMoves DEF Passes, Calmly, MovesTo, Unconfigured, IsWorker
<1>7. CASE Configure(d)
  <2>1. Configures(d) /\ pc[d] = "configuring"
    BY <1>3, <1>7, ConfigureMoves
  <2>2. e # Nil
    BY <1>1, <2>1, EntryAtParts
  <2> QED BY <1>3, <2>1, <2>2 DEF Configures, IsWorker
<1>8. CASE TearDownOld(d) \/ UnrouteOld(d) \/ Discard(d)
  BY <1>4, <1>8, TearDownOldMoves, UnrouteOldMoves, DiscardMoves DEF Passes, Calmly, Unconfigured
<1>9. CASE Start(d)
  <2>1. pc[d] = "starting"
    BY <1>9, StartMoves
  <2>2. CASE Starts(d)
    BY <1>1, <1>2, <2>1, <2>2 DEF Starts, Unconfigured, IsWorker
  <2> QED BY <1>4, <1>9, <2>1, <2>2, StartMoves DEF GivesUp, Discards, Calmly, Unconfigured
<1>10. CASE Health(d)
  BY <1>4, <1>10, HealthMoves DEF Passes, GivesUp, Discards, Calmly, Unconfigured
<1>11. CASE Hooks(d)
  BY <1>4, <1>11, HooksMoves DEF Passes, Discards, Calmly, Unconfigured
<1>12. CASE Switch(d)
  BY <1>4, <1>12, SwitchMoves DEF Passes, Discards, Calmly, Unconfigured
<1>13. CASE Complete(d)
  BY <1>1, <1>2, <1>13, CompleteMoves DEF Completes, Unconfigured, IsWorker
<1>14. CASE Timeout(d)
  <2>1. pc[d] \notin Unconfigured
    BY <1>3, <1>14, TimeoutMoves DEF Unconfigured
  <2> QED BY <1>4, <1>14, <2>1, TimeoutMoves
<1> QED BY <1>5, <1>6, <1>7, <1>8, <1>9, <1>10, <1>11, <1>12, <1>13, <1>14 DEF DeployTask

\* A deploy task keeps every route one of an entry.
LEMMA TaskRoute ==
  ASSUME BaseInv, ApartInv, RouteInv, Unroutes, NEW d \in Deploys, DeployTask(d) \/ Timeout(d)
  PROVE  RouteInv'
<1> DEFINE p == Target(d)
<1>1. /\ InFlight(d) /\ MovesTo(d, Steps \ {"idle"}) /\ up /\ up' /\ p \in Previews /\ p' = p
      /\ ~TearingDown(p)
  BY TaskMoves, InFlightHas, TaskAlone DEF MovesTo, Target, Unroutes, Tidy
<1>2. ASSUME NEW x \in Deploys
      PROVE  ~IsWorker(x)'
  BY <1>1, TaskRoutes DEF MovesTo, RouteInv, IsWorker
<1>3. ASSUME NEW q \in Previews, route'[q] # Nil
      PROVE  \/ entry'[q] # Nil /\ entry'[q].domain
             \/ \E x \in Deploys : pc'[x] \in Unconfigured /\ Target(x)' = q
  <2>1. CASE q = p
    BY <1>1, <1>3, <2>1, TaskRoutes
  <2>2. CASE q # p
    <3>1. route[q] # Nil /\ entry'[q] = entry[q]
      BY <1>1, <1>3, <2>2 DEF MovesTo
    <3>2. ASSUME NEW x \in Deploys, pc[x] \in Unconfigured, Target(x) = q
          PROVE  pc'[x] \in Unconfigured /\ Target(x)' = q
      BY <1>1, <2>2, <3>2 DEF MovesTo, Target
    <3> QED BY <1>1, <3>1, <3>2 DEF RouteInv
  <2> QED BY <2>1, <2>2
<1>4. ASSUME NEW t \in Tasks, td'[t].step = "remove"
      PROVE  route'[Head(td'[t].queue)] = Nil
  <2>1. td'[t] = td[t] /\ td[t].step = "remove"
    BY <1>4, TaskLists
  <2>2. Head(td[t].queue) \in Previews /\ Head(td[t].queue) # p
    BY <1>1, <2>1, TearingHas, TearingFirst
  <2> QED BY <1>1, <2>1, <2>2 DEF MovesTo, RouteInv
<1> QED BY <1>1, <1>2, <1>3, <1>4 DEF RouteInv

\* A teardown removes the route before it forgets the entry.
LEMMA TeardownRoute ==
  ASSUME BaseInv, ApartInv, RouteInv, Unroutes, NEW t \in Tasks, TeardownTask(t)
  PROVE  RouteInv'
<1> DEFINE q == Head(td[t].queue)
<1>1. /\ TearsOnly(t) /\ OnlyTask(t) /\ q \in Previews /\ up /\ td[t] \in Teardown /\ TearingDown(q)
  BY TeardownTears, TearingHas
     DEF TearsOnly, TeardownTask, TeardownRead, TeardownStop, TeardownUnroute, TeardownRemove
<1>2. \A x \in Previews : route'[x] \in {route[x], Nil}
  <2>1. CASE TeardownUnroute(t)
    BY <2>1, TeardownUnrouteMoves
  <2>2. CASE ~TeardownUnroute(t)
    BY <2>2, TeardownReadMoves, TeardownStopMoves, TeardownRemoveMoves DEF TeardownTask
  <2> QED BY <2>1, <2>2
<1>3. ASSUME NEW x \in Previews, route'[x] # Nil
      PROVE  \/ entry'[x] # Nil /\ entry'[x].domain
             \/ \E y \in Deploys : pc'[y] \in Unconfigured /\ Target(y)' = x
  <2>1. route[x] # Nil
    BY <1>2, <1>3
  <2>2. entry'[x] = entry[x]
    <3>1. CASE TeardownRemove(t)
      <4>1. route[q] = Nil
        BY <3>1, TeardownRemoveMoves DEF RouteInv
      <4> QED BY <2>1, <3>1, <4>1, TeardownRemoveMoves
    <3>2. CASE ~TeardownRemove(t)
      BY <3>2, TeardownReadMoves, TeardownStopMoves, TeardownUnrouteMoves DEF TeardownTask
    <3> QED BY <3>1, <3>2
  <2> QED BY <1>1, <2>1, <2>2 DEF RouteInv, OnlyTask, Target
<1>4. ASSUME NEW s \in Tasks, td'[s].step = "remove"
      PROVE  route'[Head(td'[s].queue)] = Nil
  <2>1. CASE s # t
    <3>1. td'[s] = td[s] /\ td[s].step = "remove"
      BY <1>1, <1>4, <2>1 DEF OnlyTask
    <3>2. Head(td[s].queue) \in Previews /\ route[Head(td[s].queue)] = Nil
      BY <3>1, TearingHas DEF RouteInv
    <3> QED BY <1>2, <3>1, <3>2
  <2>2. CASE s = t
    <3>1. CASE TeardownRead(t)
      BY <1>4, <2>2, <3>1, ReadHas, DroppedHas
    <3>2. CASE TeardownStop(t)
      <4>1. ~td[t].routed /\ td[t].step = "stop" /\ route' = route /\ td'[t].queue = td[t].queue
        BY <1>1, <1>4, <2>2, <3>2, TeardownStopMoves DEF GoesOn, Teardown
      <4>2. entry[q] # Nil => ~entry[q].domain
        BY <4>1 DEF ApartInv
      <4>3. ~\E y \in Deploys : pc[y] \in Unconfigured /\ Target(y) = q
        BY <1>1 DEF ApartInv, InFlight, Unconfigured
      <4>4. route[q] = Nil
        BY <1>1, <4>2, <4>3 DEF RouteInv
      <4> QED BY <2>2, <4>1, <4>4
    <3>3. CASE TeardownUnroute(t)
      <4>1. route'[q] = Nil
        BY <3>3, TeardownUnrouteMoves DEF Unroutes, Fails
      <4>2. td'[t].queue = td[t].queue
        BY <1>1, <3>3, TeardownUnrouteMoves DEF GoesOn, Teardown
      <4> QED BY <2>2, <4>1, <4>2
    <3>4. CASE TeardownRemove(t)
      BY <1>4, <2>2, <3>4, TeardownRemoveMoves, DroppedHas
    <3> QED BY <3>1, <3>2, <3>3, <3>4 DEF TeardownTask
  <2> QED BY <2>1, <2>2
<1> QED BY <1>1, <1>3, <1>4 DEF RouteInv, OnlyTask, IsWorker

\* Steps that leave the routes, the entries and the deploys as they are.
LEMMA IdleRoute ==
  ASSUME BaseInv, RouteInv, UNCHANGED <<route, up>>,
         \A q \in Previews : Ages(entry[q], entry'[q]) /\ Ages(file[q], file'[q]),
         \A d \in Deploys : ctx'[d].kind = ctx[d].kind \/ ctx'[d].kind = "http",
         \A d \in Deploys : pc[d] \in Unconfigured => pc'[d] \in Unconfigured /\ ctx'[d] = ctx[d],
         \A t \in Tasks : td'[t] = td[t] \/ td'[t].step = "read"
  PROVE  RouteInv'
<1>1. \A d \in Deploys : ~IsWorker(d)'
  BY DEF RouteInv, IsWorker
<1>2. \A t \in Tasks : td'[t].step = "remove" => route'[Head(td'[t].queue)] = Nil
  BY DEF RouteInv
<1>3. ASSUME NEW p \in Previews, route'[p] # Nil
      PROVE  \/ up' /\ entry'[p] # Nil /\ entry'[p].domain
             \/ ~up' /\ file'[p] # Nil /\ file'[p].domain
             \/ \E d \in Deploys : pc'[d] \in Unconfigured /\ Target(d)' = p
  BY <1>3 DEF RouteInv, Ages, Target
<1> QED BY <1>1, <1>2, <1>3 DEF RouteInv

\* A calm crash leaves every route named in a file.
LEMMA DiesRoute ==
  ASSUME BaseInv, SavedInv, RouteInv, Dies, "crash" \notin Events
  PROVE  RouteInv'
<1>1. Calm /\ up
  BY DEF Dies, Calm
<1>2. ASSUME NEW p \in Previews, route[p] # Nil
      PROVE  file[p] # Nil /\ file[p].domain
  <2>1. entry[p] # Nil /\ entry[p].domain
    BY <1>1, <1>2 DEF RouteInv, Calm, InFlight, Unconfigured
  <2>2. file[p] = entry[p]
    BY <1>1, <2>1 DEF Calm, SavedInv, RunningPreviews
  <2> QED BY <2>1, <2>2
<1>3. \A d \in Deploys : ~IsWorker(d)'
  BY DEF Dies, RouteInv, IsWorker
<1> QED BY <1>2, <1>3, EmptyList DEF RouteInv, Dies

\* A boot names again what the files route.
LEMMA ComesRoute ==
  ASSUME BaseInv, RouteInv, Comes
  PROVE  RouteInv'
<1>1. ASSUME NEW p \in Previews, route'[p] # Nil
      PROVE  entry'[p] # Nil /\ entry'[p].domain
  <2>1. file[p] # Nil /\ file[p].domain
    <3>1. CASE route'[p] = route[p]
      BY <1>1, <3>1 DEF RouteInv, Comes, BaseInv, LockInv, InFlight, Unconfigured
    <3>2. CASE route'[p] # route[p]
      BY <3>2, NamesOwn DEF Comes, BaseInv, PreviewTypeOK, Option, Entry
    <3> QED BY <3>1, <3>2
  <2> QED BY <2>1 DEF Comes
<1>2. \A d \in Deploys : ~IsWorker(d)'
  BY DEF Comes, RouteInv, IsWorker
<1>3. \A t \in Tasks : td'[t].step = "read"
  BY EmptyList DEF Comes, BaseInv, TaskInv
<1> QED BY <1>1, <1>2, <1>3 DEF RouteInv, Comes

\* Every step keeps every route one of an entry.
LEMMA RouteNext ==
  ASSUME BaseInv, ApartInv, SavedInv, RouteInv, Unroutes, [Next]_vars
  PROVE  RouteInv'
<1>1. \A e : Ages(e, e)
  BY DEF Ages
<1>2. CASE \E d \in Deploys : DeployTask(d) \/ Timeout(d)
  BY <1>2, TaskRoute
<1>3. CASE \E t \in Tasks : TeardownTask(t)
  BY <1>3, TeardownRoute
<1>4. CASE \E d \in Deploys, p \in Previews : HandlePreviewDeploy(d, p)
  <2>1. PICK d \in Deploys, p \in Previews : Accepts(d, p)
    BY <1>4, HandleMoves
  <2>2. \A x \in Deploys : /\ ctx'[x].kind = ctx[x].kind \/ ctx'[x].kind = "http"
                           /\ pc[x] \in Unconfigured => pc'[x] \in Unconfigured /\ ctx'[x] = ctx[x]
    BY <2>1 DEF Accepts, Unconfigured, NewContext
  <2> QED BY <1>1, <2>1, <2>2, IdleRoute DEF Accepts
<1>5. CASE (\E p \in Previews : HandlePreviewTeardown(p)) \/ HandlePreviewTeardownAll \/ ReapExpired
  <2>1. PICK t \in {"api", "reaper"}, S \in SUBSET Previews : Listed(t, S)
    BY <1>5, Collected
  <2>2. \A x \in Tasks : td'[x] = td[x] \/ td'[x].step = "read"
    <3>1. \E q : td'[t] = Asked(q)
      BY <2>1 DEF Listed, Asked
    <3> QED BY <2>1, <3>1, EmptyList DEF Listed, OnlyTask
  <2> QED BY <1>1, <2>1, <2>2, IdleRoute DEF Listed, OnlyTask
<1>6. CASE \E n \in 1 .. clock : Elapse(n)
  BY <1>6, ElapseMoves, IdleRoute
<1>7. CASE Disconnect
  <2>1. \A x \in Tasks : td'[x] = td[x] \/ td'[x].step = "read"
    BY <1>7, DisconnectMoves, EmptyList DEF Leaves
  <2> QED BY <1>1, <1>7, <2>1, DisconnectMoves, IdleRoute DEF Leaves
<1>8. CASE Crash
  BY <1>8, CrashMoves, DiesRoute DEF Unroutes, Tidy, Undisturbed
<1>9. CASE Boot
  BY <1>9, BootMoves, ComesRoute
<1>10. CASE UNCHANGED vars
  BY <1>1, <1>10, IdleRoute DEF vars
<1> QED BY <1>2, <1>3, <1>4, <1>5, <1>6, <1>7, <1>8, <1>9, <1>10 DEF Next

\* At the start there is no route.
LEMMA RouteInit ==
  ASSUME Init
  PROVE  RouteInv
  BY EmptyList DEF Init, RouteInv, IsWorker, NewContext

\* A preview that is gone has no route, and what runs is not its.
LEMMA GoneHas ==
  ASSUME BaseInv, OwnInv, RouteInv
  PROVE  TornDownIsGone
<1> SUFFICES ASSUME NEW p \in Previews, up, entry[p] = Nil, ~Deploying(p)
             PROVE  route[p] = Nil /\ \A u \in Deploys : Target(u) = p => units[u] = Nil
  BY DEF TornDownIsGone
<1>1. route[p] = Nil
  BY DEF RouteInv, Deploying, InFlight, Unconfigured
<1>2. ASSUME NEW u \in Deploys, Target(u) = p, units[u] # Nil
      PROVE  FALSE
  <2>1. Owned(u) /\ pc[u] \notin Unstarted
    BY <1>2 DEF OwnInv, BaseInv, LockInv
  <2>2. CASE \E x \in Previews : entry[x] # Nil /\ entry[x].unit = u
    BY <1>2, <2>2, NamesOwn, NilFresh DEF Target
  <2>3. CASE InFlight(u)
    BY <1>2, <2>1, <2>3 DEF Deploying, Unstarted
  <2>4. CASE \E d \in Deploys : pc[d] \in Redeploying /\ ctx[d].old = u
    <3>1. PICK d \in Deploys : pc[d] \in Redeploying /\ ctx[d].old = u
      BY <2>4
    <3>2. InFlight(d) /\ pc[d] # "accepted"
      BY <3>1 DEF InFlight, Redeploying
    <3>3. StartedFor(u, Target(d))
      BY <3>1, <3>2, NilFresh DEF BaseInv, NameInv
    <3> QED BY <1>2, <3>2, <3>3 DEF StartedFor, Deploying, Target
  <2> QED BY <2>1, <2>2, <2>3, <2>4 DEF Owned
<1> QED BY <1>1, <1>2

\* When a preview is gone, so is everything it ran, and its route, whoever tore it down
\* and whatever was deployed for it before: where moreover routes are removed as asked
\* and every preview has one.
THEOREM TornDownIsGoneHolds ==
  ASSUME Unroutes
  PROVE  Spec => []TornDownIsGone
<1> DEFINE Inv == BaseInv /\ ApartInv /\ SavedInv /\ OwnInv /\ RouteInv
<1>1. Init => Inv
  BY BaseInit, ApartInit, ServeInit, OwnInit, RouteInit
<1>2. Inv /\ [Next]_vars => Inv'
  BY BaseNext, ApartNext, SavedNext, OwnNext, RouteNext DEF ApartInv, Unroutes, Tidy
<1>3. Inv => TornDownIsGone
  BY GoneHas
<1> QED BY <1>1, <1>2, <1>3, PTL DEF Spec
=============================================================================
