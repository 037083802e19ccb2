---------------------------- MODULE OperatorProofs ----------------------------
(***************************************************************************)
(* Proofs about Operator: a rollback without a tag goes to a version that  *)
(* was deployed, for any number of operators, deploys and tags, and with   *)
(* crashes, deletes, disconnects, failing writes and late rows in any      *)
(* combination.                                                            *)
(***************************************************************************)
EXTENDS Operator, FiniteSetTheorems, WellFoundedInduction, TLAPS

\* Where a deploy is once its version has been in the state of the app; a crash
\* then leaves it "lost".
After == {"switched", "draining", "completed", "lost"}

\* Among the deploys D, one deployed version t.
Works(D, t) == \E e \in Deploys : D[e].tag = t /\ D[e].at \in After

\* A state of the app, in memory, in its file or in the hands of an apply, names
\* only versions that were deployed.
Known(D, m) ==
  /\ m = [f \in {"tag", "prev", "id", "applied"} |-> m[f]]
  /\ m.tag # None => Works(D, m.tag)
  /\ m.prev # None => Works(D, m.prev)

OpFields == {"at", "repo", "kind", "cfg", "snap", "gone", "told"}

\* An apply that is about to write the state file holds such a state.
OpKnows(D, r) ==
  /\ r = [f \in OpFields |-> r[f]]
  /\ r.at = "save" => Known(D, r.snap)

DepFields == {"at", "seq", "tag", "image", "back", "after", "repo", "cfg", "late", "wait", "polls"}

DepShape(r) ==
  /\ r = [f \in DepFields |-> r[f]]
  /\ r.seq \in 0..(MaxDeploys + 1)
  /\ r.back \in BOOLEAN /\ (r.at = "none" => r.back = FALSE)
  /\ r.late \in BOOLEAN /\ (r.at = "none" => r.late = FALSE)

\* A rollback d that was received goes to a version of another deploy.
BackWorks(D, d) ==
  D[d].back = TRUE /\ D[d].at # "none"
    => \E e \in Deploys : e # d /\ D[e].tag = D[d].tag /\ D[e].at \in After

OpsInv == op = [o \in Operators |-> op[o]] /\ \A o \in Operators : OpKnows(dep, op[o])

StatesInv == Known(dep, mem) /\ (disk = None \/ Known(dep, disk))

DepsInv ==
  /\ dep = [d \in Deploys |-> dep[d]] /\ db = [d \in Deploys |-> db[d]]
  /\ \A d \in Deploys : /\ DepShape(dep[d])
                        /\ db[d] = "completed" => dep[d].at = "completed"
                        /\ BackWorks(dep, d)

RollbackInv == OpsInv /\ StatesInv /\ DepsInv

-----------------------------------------------------------------------------
(* Lemmas.                                                                 *)

\* A set of numbers below n that is not empty has a largest one.
LEMMA Largest ==
  ASSUME NEW n \in Nat, NEW T, T \subseteq 0..n, T # {}
  PROVE  \E x \in T : \A y \in T : y <= x
<1> DEFINE U == {n - x : x \in T}
<1>1. U \subseteq Nat /\ U # {}
  <2>1. \A x \in T : n - x \in Nat
    OBVIOUS
  <2>2. PICK x \in T : TRUE
    OBVIOUS
  <2>3. n - x \in U
    BY <2>2
  <2> QED BY <2>1, <2>3
<1>2. PICK u \in U : \A v \in U : ~(<<v, u>> \in OpToRel(<, Nat))
  <2> HIDE DEF U
  <2> QED BY <1>1, WFMin, NatLessThanWellFounded
<1>3. \A v \in U : ~(v < u)
  BY <1>1, <1>2 DEF OpToRel
<1>4. PICK x \in T : u = n - x
  BY <1>2
<1>5. \A y \in T : y <= x
  <2>1. TAKE y \in T
  <2>2. n - y \in U
    OBVIOUS
  <2>3. ~(n - y < n - x)
    BY <1>3, <1>4, <2>2
  <2> QED BY <2>3
<1> QED BY <1>5

\* The deploy that the rollback picks is one of those it picks from.
LEMMA TargetIsPrevious ==
  ASSUME DepsInv, NEW S, S \subseteq Deploys, S # {}
  PROVE  (CHOOSE d \in S : \A e \in S : dep[e].seq <= dep[d].seq) \in S
<1> DEFINE T == {dep[d].seq : d \in S}
<1>1. \A d \in S : dep[d].seq \in 0..(MaxDeploys + 1)
  BY DEF DepsInv, DepShape
<1>2. T \subseteq 0..(MaxDeploys + 1) /\ T # {}
  BY <1>1
<1>3. \E x \in T : \A y \in T : y <= x
  <2>1. MaxDeploys + 1 \in Nat
    BY OperatorAssumption
  <2> HIDE DEF T
  <2> QED BY <1>2, <2>1, Largest
<1>4. PICK x \in T : \A y \in T : y <= x
  BY <1>3
<1>5. PICK d \in S : x = dep[d].seq
  OBVIOUS
<1>6. \A e \in S : dep[e].seq <= dep[d].seq
  BY <1>4, <1>5
<1> QED BY <1>6

\* A rollback that has a target goes to a version that was deployed.
LEMMA TargetWorks ==
  ASSUME RollbackInv, RollbackTarget # None
  PROVE  Works(dep, RollbackTarget)
<1> DEFINE S == PreviousDeploys(mem.id)
<1>1. S \subseteq Deploys /\ \A d \in S : db[d] = "completed"
  BY DEF PreviousDeploys
<1>2. CASE S = {}
  <2>1. RollbackTarget = mem.prev
    BY <1>2 DEF RollbackTarget
  <2> QED BY <2>1 DEF RollbackInv, StatesInv, Known
<1>3. CASE S # {}
  <2> DEFINE t == CHOOSE d \in S : \A e \in S : dep[e].seq <= dep[d].seq
  <2>1. t \in S
    <3> HIDE DEF S
    <3> QED BY <1>1, <1>3, TargetIsPrevious DEF RollbackInv
  <2>2. RollbackTarget = dep[t].tag
    BY <1>3 DEF RollbackTarget
  <2>3. t \in Deploys /\ dep[t].at = "completed"
    BY <1>1, <2>1 DEF RollbackInv, DepsInv
  <2> HIDE DEF t
  <2> QED BY <2>2, <2>3 DEF Works, After
<1> QED BY <1>2, <1>3

\* Deploys that keep their version and stay deployed.
Grows(D, E) ==
  \A e \in Deploys : D[e].at \in After => E[e].tag = D[e].tag /\ E[e].at \in After

\* What was known stays known.
LEMMA KnownStays ==
  ASSUME NEW D, NEW E, Grows(D, E), NEW m, Known(D, m)
  PROVE  Known(E, m)
<1>1. \A t : Works(D, t) => Works(E, t)
  BY DEF Works, Grows
<1> QED BY <1>1 DEF Known

\* The states and the applies, when only the deploys change.
LEMMA OthersStay ==
  ASSUME RollbackInv, Grows(dep, dep'), UNCHANGED <<op, mem, disk>>
  PROVE  OpsInv' /\ StatesInv'
<1>1. \A m : Known(dep, m) => Known(dep', m)
  BY KnownStays
<1>2. \A o \in Operators : OpKnows(dep', op[o])
  BY <1>1 DEF RollbackInv, OpsInv, OpKnows
<1>3. OpsInv'
  BY <1>2 DEF RollbackInv, OpsInv, OpKnows, Known, Works
<1>4. Known(dep', mem) /\ (disk = None \/ Known(dep', disk))
  BY <1>1 DEF RollbackInv, StatesInv
<1>5. StatesInv'
  BY <1>4 DEF StatesInv, Known, Works
<1> QED BY <1>3, <1>5

\* A step of deploy d that is not received anew.
LEMMA DeployMoves ==
  ASSUME RollbackInv, NEW d \in Deploys, NEW r, DepShape(r),
         dep' = [dep EXCEPT ![d] = r], r.tag = dep[d].tag, r.back = dep[d].back,
         dep[d].at \in After => r.at \in After, dep[d].at # "none",
         db' = [e \in Deploys |-> db'[e]], \A e \in Deploys : e # d => db'[e] = db[e],
         db'[d] = "completed" => r.at = "completed"
  PROVE  Grows(dep, dep') /\ DepsInv'
<1>1. /\ dep = [e \in Deploys |-> dep[e]]
      /\ \A e \in Deploys : /\ DepShape(dep[e]) /\ BackWorks(dep, e)
                            /\ db[e] = "completed" => dep[e].at = "completed"
  BY DEF RollbackInv, DepsInv
<1>2. dep'[d] = r /\ \A e \in Deploys : e # d => dep'[e] = dep[e]
  BY <1>1
<1>3. Grows(dep, dep')
  BY <1>2 DEF Grows
<1>4. \A e \in Deploys : BackWorks(dep', e)
  BY <1>1, <1>2, <1>3 DEF BackWorks, Grows
<1>5. DepsInv'
  <2>1. dep' = [e \in Deploys |-> dep'[e]]
    BY <1>1
  <2>2. \A e \in Deploys : DepShape(dep'[e]) /\ (db'[e] = "completed" => dep'[e].at = "completed")
    BY <1>1, <1>2
  <2> QED BY <1>4, <2>1, <2>2 DEF DepsInv, DepShape, BackWorks
<1> QED BY <1>3, <1>5

-----------------------------------------------------------------------------
(* The steps of a deploy.                                                  *)

\* The facts about deploys that every step starts from.
LEMMA DeployFacts ==
  ASSUME RollbackInv, NEW d \in Deploys
  PROVE  /\ dep = [e \in Deploys |-> dep[e]] /\ db = [e \in Deploys |-> db[e]]
         /\ dep[d] = [f \in DepFields |-> dep[d][f]]
         /\ dep[d].seq \in 0..(MaxDeploys + 1) /\ dep[d].back \in BOOLEAN
         /\ dep[d].at = "none" => dep[d].back = FALSE
         /\ dep[d].late \in BOOLEAN /\ (dep[d].at = "none" => dep[d].late = FALSE)
         /\ db[d] = "completed" => dep[d].at = "completed"
BY DEF RollbackInv, DepsInv, DepShape

\* The number of accepted deploys is bounded.
LEMMA SeqBounded == Cardinality(Accepted) + 1 \in 0..(MaxDeploys + 1)
<1>1. IsFiniteSet(1..MaxDeploys) /\ Cardinality(1..MaxDeploys) = MaxDeploys
  BY FS_Interval, OperatorAssumption
<1>2. Accepted \subseteq 1..MaxDeploys
  BY DEF Accepted, Deploys
<1>3. /\ IsFiniteSet(Accepted)
      /\ Cardinality(Accepted) <= Cardinality(1..MaxDeploys)
  BY <1>1, <1>2, FS_Subset
<1>4. Cardinality(Accepted) \in Nat
  BY <1>3, FS_CardinalityType
<1> QED BY <1>1, <1>3, <1>4, OperatorAssumption

\* A deploy goes on: its version stays its version.
LEMMA DeployGoesOn ==
  ASSUME RollbackInv, NEW d \in Deploys,
         Accept(d) \/ LateRow(d) \/ Pull(d) \/ Fail(d) \/ Switch(d) \/ SaveState(d) \/ Complete(d)
           \/ Poll(d)
  PROVE  Grows(dep, dep') /\ DepsInv'
<1>0. /\ dep = [e \in Deploys |-> dep[e]] /\ db = [e \in Deploys |-> db[e]]
      /\ dep[d] = [f \in DepFields |-> dep[d][f]]
      /\ dep[d].seq \in 0..(MaxDeploys + 1) /\ dep[d].back \in BOOLEAN
      /\ dep[d].at = "none" => dep[d].back = FALSE
      /\ dep[d].late \in BOOLEAN /\ (dep[d].at = "none" => dep[d].late = FALSE)
      /\ db[d] = "completed" => dep[d].at = "completed"
  BY DeployFacts
<1>1. SUFFICES /\ DepShape(dep'[d])
               /\ dep' = [dep EXCEPT ![d] = dep'[d]]
               /\ dep'[d].tag = dep[d].tag /\ dep'[d].back = dep[d].back
               /\ dep[d].at \in After => dep'[d].at \in After
               /\ dep[d].at # "none"
               /\ db' = [e \in Deploys |-> db'[e]]
               /\ \A e \in Deploys : e # d => db'[e] = db[e]
               /\ db'[d] = "completed" => dep'[d].at = "completed"
  BY DeployMoves
<1>2. CASE Accept(d)
  <2>1. CASE dep' = [dep EXCEPT ![d].at = "accepted", ![d].late = TRUE,
                                ![d].seq = Cardinality(Accepted) + 1]
    <3> DEFINE n == Cardinality(Accepted) + 1
    <3>1. n \in 0..(MaxDeploys + 1)
      BY SeqBounded
    <3> HIDE DEF n
    <3>2. dep' = [dep EXCEPT ![d].at = "accepted", ![d].late = TRUE, ![d].seq = n]
      BY <2>1 DEF n
    <3> QED BY <1>0, <1>2, <3>1, <3>2 DEF Accept, DepShape, DepFields, After
  <2>2. CASE dep' = [dep EXCEPT ![d].at = "refused", ![d].wait = None]
    BY <1>0, <1>2, <2>2 DEF Accept, DepShape, DepFields, After
  <2> QED BY <1>2, <2>1, <2>2 DEF Accept
<1>3. CASE LateRow(d)
  <2>1. dep[d].late = TRUE
    BY <1>0, <1>3 DEF LateRow
  <2>2. dep[d].at # "none"
    BY <1>0, <2>1
  <2> QED BY <1>0, <1>3, <2>2 DEF LateRow, DepShape, DepFields, After
<1>4. CASE Pull(d)
  <2>1. PICK r \in Opt(sc.repos) : dep' = [dep EXCEPT ![d].at = "pulling", ![d].repo = r]
    BY <1>4 DEF Pull
  <2> QED BY <1>0, <1>4, <2>1 DEF Pull, DepShape, DepFields, After
<1>5. CASE Fail(d)
  BY <1>0, <1>5 DEF Fail, DepShape, DepFields, After
<1>6. CASE Switch(d)
  <2>1. PICK x : dep' = [dep EXCEPT ![d].at = "switched", ![d].cfg = x, ![d].repo = None]
    BY <1>6 DEF Switch
  <2>2. db' = db /\ dep[d].at = "pulling"
    BY <1>6 DEF Switch
  <2> QED BY <1>0, <2>1, <2>2 DEF DepShape, DepFields, After
<1>7. CASE SaveState(d)
  BY <1>0, <1>7 DEF SaveState, DeployGoes, DepShape, DepFields, After
<1>8. CASE Complete(d)
  BY <1>0, <1>8 DEF Complete, DeployGoes, DepShape, DepFields, After
<1>9. CASE Poll(d)
  <2>1. db' = db /\ dep[d].at # "none"
    BY <1>9 DEF Poll
  <2>2. CASE dep' = [dep EXCEPT ![d].polls = @ + 1]
    BY <1>0, <2>1, <2>2 DEF DepShape, DepFields, After
  <2>3. CASE \E w : dep' = [dep EXCEPT ![d].wait = w]
    <3>1. PICK w : dep' = [dep EXCEPT ![d].wait = w]
      BY <2>3
    <3> QED BY <1>0, <2>1, <3>1 DEF DepShape, DepFields, After
  <2> QED BY <1>9, <2>2, <2>3 DEF Poll
<1> QED BY <1>2, <1>3, <1>4, <1>5, <1>6, <1>7, <1>8, <1>9

\* A deploy is received: a rollback takes the version of another one.
LEMMA ReceiveStep ==
  ASSUME RollbackInv, NEW d \in Deploys, Receive(d)
  PROVE  RollbackInv'
<1>0. /\ dep = [e \in Deploys |-> dep[e]] /\ db = [e \in Deploys |-> db[e]]
      /\ dep[d] = [f \in DepFields |-> dep[d][f]]
      /\ dep[d].seq \in 0..(MaxDeploys + 1) /\ dep[d].back \in BOOLEAN
      /\ dep[d].at = "none" => dep[d].back = FALSE
      /\ dep[d].late \in BOOLEAN /\ (dep[d].at = "none" => dep[d].late = FALSE)
      /\ db[d] = "completed" => dep[d].at = "completed"
  BY DeployFacts
<1>1. dep[d].at = "none" /\ UNCHANGED <<mem, disk, db, op>>
  BY DEF Receive
<1>2. /\ dep' = [dep EXCEPT ![d] = dep'[d]] /\ DepShape(dep'[d])
      /\ dep'[d].back = TRUE => Works(dep, dep'[d].tag)
  <2>1. CASE \E t \in Tags :
          dep' = [dep EXCEPT ![d] = [@ EXCEPT !.at = "read", !.tag = t, !.wait = "polling",
                                              !.image = live.image, !.after = Told]]
    <3>1. PICK t \in Tags :
          dep' = [dep EXCEPT ![d] = [@ EXCEPT !.at = "read", !.tag = t, !.wait = "polling",
                                              !.image = live.image, !.after = Told]]
      BY <2>1
    <3> QED BY <1>0, <1>1, <3>1 DEF DepShape, DepFields
  <2>2. CASE /\ RollbackTarget # None
             /\ dep' = [dep EXCEPT ![d] = [@ EXCEPT !.at = "read", !.tag = RollbackTarget,
                                               !.back = TRUE, !.image = live.image,
                                               !.after = Told]]
    <3>1. Works(dep, RollbackTarget)
      BY <2>2, TargetWorks
    <3> QED BY <1>0, <1>1, <2>2, <3>1 DEF DepShape, DepFields
  <2> QED BY <2>1, <2>2 DEF Receive
<1>3. /\ dep' = [e \in Deploys |-> dep'[e]]
      /\ \A e \in Deploys : e # d => dep'[e] = dep[e]
  BY <1>0, <1>2
<1>4. Grows(dep, dep')
  BY <1>1, <1>3 DEF Grows, After
<1>5. \A e \in Deploys : BackWorks(dep', e)
  <2>1. TAKE e \in Deploys
  <2>2. CASE e # d
    BY <1>3, <1>4, <2>2 DEF RollbackInv, DepsInv, BackWorks, Grows
  <2>3. CASE e = d
    <3>1. SUFFICES ASSUME dep'[d].back = TRUE
                   PROVE  \E c \in Deploys : c # d /\ dep'[c].tag = dep'[d].tag /\ dep'[c].at \in After
      BY <2>3 DEF BackWorks
    <3>2. PICK c \in Deploys : dep[c].tag = dep'[d].tag /\ dep[c].at \in After
      BY <1>2, <3>1 DEF Works
    <3>3. c # d
      BY <1>1, <3>2 DEF After
    <3> QED BY <1>3, <3>2, <3>3
  <2> QED BY <2>2, <2>3
<1>6. DepsInv'
  <2>1. \A e \in Deploys : DepShape(dep'[e]) /\ (db'[e] = "completed" => dep'[e].at = "completed")
    BY <1>0, <1>1, <1>2, <1>3 DEF RollbackInv, DepsInv
  <2> QED BY <1>0, <1>1, <1>3, <1>5, <2>1 DEF DepsInv, DepShape, BackWorks
<1> QED BY <1>1, <1>4, <1>6, OthersStay DEF RollbackInv

\* The steps of a deploy.
LEMMA DeployStep ==
  ASSUME RollbackInv, NEW d \in Deploys, DeployNext(d)
  PROVE  RollbackInv'
<1>1. CASE Receive(d)
  BY <1>1, ReceiveStep
<1>2. CASE Accept(d) \/ LateRow(d) \/ Pull(d) \/ Fail(d) \/ Complete(d) \/ Poll(d)
  <2>1. Grows(dep, dep') /\ DepsInv'
    BY <1>2, DeployGoesOn
  <2>2. UNCHANGED <<op, mem, disk>>
    BY <1>2 DEF Accept, LateRow, Pull, Fail, Complete, Poll
  <2> QED BY <2>1, <2>2, OthersStay DEF RollbackInv
<1>3. CASE Switch(d) \/ SaveState(d)
  <2>1. Grows(dep, dep') /\ DepsInv'
    BY <1>3, DeployGoesOn
  <2>2. op' = op
    BY <1>3 DEF Switch, SaveState
  <2>3. \A m : Known(dep, m) => Known(dep', m)
    BY <2>1, KnownStays
  <2>4. OpsInv'
    <3>1. \A o \in Operators : OpKnows(dep', op[o])
      BY <2>3 DEF RollbackInv, OpsInv, OpKnows
    <3> QED BY <2>2, <3>1 DEF RollbackInv, OpsInv, OpKnows, Known, Works
  <2>5. Known(dep', mem) /\ (disk = None \/ Known(dep', disk))
    BY <2>3 DEF RollbackInv, StatesInv
  <2>6. Known(dep', mem') /\ (disk' = None \/ Known(dep', disk'))
    <3>1. CASE Switch(d)
      <4>1. /\ mem' = [mem EXCEPT !.prev = mem.tag, !.tag = dep[d].tag, !.id = d]
            /\ disk' = disk
        BY <3>1 DEF Switch
      <4>2. Works(dep', dep[d].tag)
        <5>1. /\ dep = [e \in Deploys |-> dep[e]]
              /\ dep[d] = [f \in DepFields |-> dep[d][f]]
          BY DeployFacts
        <5>2. PICK x : dep' = [dep EXCEPT ![d].at = "switched", ![d].cfg = x, ![d].repo = None]
          BY <3>1 DEF Switch
        <5>3. dep'[d].at = "switched" /\ dep'[d].tag = dep[d].tag
          BY <5>1, <5>2 DEF DepFields
        <5> QED BY <5>3 DEF Works, After
      <4> QED BY <2>5, <4>1, <4>2 DEF Known
    <3>2. CASE SaveState(d)
      <4>1. mem' = mem /\ (disk' = [mem EXCEPT !.id = None] \/ disk' \in {disk, None})
        BY <3>2 DEF SaveState, FailedWrite
      <4> QED BY <2>5, <4>1 DEF Known
    <3> QED BY <1>3, <3>1, <3>2
  <2>7. StatesInv'
    BY <2>6 DEF StatesInv, Known, Works
  <2> QED BY <2>1, <2>4, <2>7 DEF RollbackInv
<1> QED BY <1>1, <1>2, <1>3 DEF DeployNext

-----------------------------------------------------------------------------
(* The steps of an apply, of slipd and of time.                            *)

\* An apply that leaves the state of the app alone.
LEMMA ApplyMoves ==
  ASSUME RollbackInv, NEW o \in Operators, NEW r, OpKnows(dep, r), op' = [op EXCEPT ![o] = r],
         UNCHANGED <<dep, db, mem>>, disk' = disk \/ Known(dep, disk') \/ disk' = None
  PROVE  RollbackInv'
<1>1. op' = [p \in Operators |-> op'[p]] /\ \A p \in Operators : OpKnows(dep, op'[p])
  BY DEF RollbackInv, OpsInv
<1>2. OpsInv'
  BY <1>1 DEF OpsInv, OpKnows, Known, Works
<1>3. Known(dep, mem) /\ (disk' = None \/ Known(dep, disk'))
  BY DEF RollbackInv, StatesInv
<1>4. StatesInv'
  BY <1>3 DEF StatesInv, Known, Works
<1>5. DepsInv'
  BY DEF RollbackInv, DepsInv, DepShape, BackWorks
<1> QED BY <1>2, <1>4, <1>5 DEF RollbackInv

\* An apply hands on the state that it read, whatever ran meanwhile.
LEMMA ApplyStep ==
  ASSUME RollbackInv, NEW o \in Operators, ApplyNext(o)
  PROVE  RollbackInv'
<1>0. /\ op = [p \in Operators |-> op[p]] /\ op[o] = [f \in OpFields |-> op[o][f]]
      /\ op[o].at = "save" => Known(dep, op[o].snap)
      /\ disk = None \/ Known(dep, disk)
  BY DEF RollbackInv, OpsInv, OpKnows, StatesInv
<1>1. \A r, w : OpKnows(dep, Ended(r, w))
  BY DEF OpKnows, Ended, NoOp, OpFields
<1>2. UNCHANGED <<dep, db, mem>>
  BY DEF ApplyNext, Apply, Get, Create, Patch, Bind, WriteConfig, ReadState, SaveLastApplied,
       Publish, Disconnect
<1>3. SUFFICES (\E r : OpKnows(dep, r) /\ op' = [op EXCEPT ![o] = r])
               /\ (disk' = disk \/ Known(dep, disk') \/ disk' = None)
  BY <1>2, ApplyMoves
<1>4. ASSUME NEW at, at # "save", Goes(o, at)
      PROVE  \E r : OpKnows(dep, r) /\ op' = [op EXCEPT ![o] = r]
  <2>1. op' = [op EXCEPT ![o] = [op[o] EXCEPT !.at = at]]
    BY <1>4 DEF Goes
  <2>2. OpKnows(dep, [op[o] EXCEPT !.at = at])
    BY <1>0, <1>4 DEF OpKnows, OpFields
  <2> QED BY <2>1, <2>2
<1>5. ASSUME NEW w, Tells(o, w)
      PROVE  \E r : OpKnows(dep, r) /\ op' = [op EXCEPT ![o] = r]
  <2>1. op' = [op EXCEPT ![o] = Ended(op[o], w)]
    BY <1>5 DEF Tells
  <2> QED BY <1>1, <2>1
<1>6. ASSUME NEW k, NEW c, Enter(o, k, c)
      PROVE  \E r : OpKnows(dep, r) /\ op' = [op EXCEPT ![o] = r]
  <2> DEFINE r == [op[o] EXCEPT !.at = "bind", !.kind = k, !.cfg = c]
  <2>1. op' = [op EXCEPT ![o] = r]
    BY <1>6 DEF Enter
  <2>2. OpKnows(dep, r)
    BY <1>0 DEF OpKnows, OpFields
  <2> HIDE DEF r
  <2> QED BY <2>1, <2>2
<1>7. CASE Apply(o)
  <2>1. PICK x, a, w : /\ op' = [op EXCEPT ![o] = [op[o] EXCEPT !.repo = x, !.at = a, !.told = w]]
                       /\ a \in {"get", "done"}
    BY <1>7 DEF Apply
  <2> DEFINE r == [op[o] EXCEPT !.repo = x, !.at = a, !.told = w]
  <2>2. OpKnows(dep, r)
    BY <1>0, <2>1 DEF OpKnows, OpFields
  <2>3. disk' = disk
    BY <1>7 DEF Apply
  <2> QED BY <2>1, <2>2, <2>3
<1>8. CASE Get(o)
  <2>1. disk' = disk /\ \/ \E w : Tells(o, w)
                        \/ Goes(o, "create") \/ Goes(o, "patch")
    BY <1>8 DEF Get
  <2> QED BY <1>4, <1>5, <2>1
<1>9. CASE Create(o) \/ Patch(o)
  <2>1. disk' = disk /\ \/ \E w : Tells(o, w)
                        \/ Goes(o, "reget")
                        \/ \E k, c : Enter(o, k, c)
    BY <1>9 DEF Create, Patch
  <2> QED BY <1>4, <1>5, <1>6, <2>1
<1>10. CASE Bind(o) \/ WriteConfig(o) \/ Publish(o)
  <2>1. disk' = disk /\ \/ \E w : Tells(o, w)
                        \/ Goes(o, "write") \/ Goes(o, "read")
    BY <1>10 DEF Bind, WriteConfig, Publish
  <2> QED BY <1>4, <1>5, <2>1
<1>11. CASE ReadState(o)
  <2> DEFINE m == IF disk = None THEN NoState ELSE disk
             r == [op[o] EXCEPT !.at = "save", !.snap = m]
  <2>1. Known(dep, m)
    BY <1>0 DEF Known, NoState
  <2> HIDE DEF m
  <2>2. op' = [op EXCEPT ![o] = r] /\ disk' = disk
    BY <1>0, <1>11 DEF ReadState, OpFields, m
  <2>3. OpKnows(dep, r)
    BY <1>0, <2>1 DEF OpKnows, OpFields
  <2> QED BY <2>2, <2>3
<1>12. CASE SaveLastApplied(o)
  <2>1. /\ Known(dep, op[o].snap)
        /\ disk' = [op[o].snap EXCEPT !.applied = op[o].cfg] \/ disk' \in {disk, None}
    BY <1>0, <1>12 DEF SaveLastApplied, FailedWrite
  <2>2. disk' = disk \/ Known(dep, disk') \/ disk' = None
    BY <2>1 DEF Known
  <2>3. Tells(o, "error") \/ Goes(o, "publish")
    BY <1>12 DEF SaveLastApplied
  <2> QED BY <1>4, <1>5, <2>2, <2>3
<1>13. CASE Disconnect(o)
  <2>1. disk' = disk
    BY <1>13 DEF Disconnect
  <2>2. CASE op' = [op EXCEPT ![o] = Ended(op[o], "error")]
    BY <1>1, <2>1, <2>2
  <2>3. CASE op' = [op EXCEPT ![o] = [op[o] EXCEPT !.gone = TRUE, !.told = "error"]]
    <3>1. OpKnows(dep, [op[o] EXCEPT !.gone = TRUE, !.told = "error"])
      BY <1>0 DEF OpKnows, OpFields
    <3> QED BY <2>1, <2>3, <3>1
  <2> QED BY <1>13, <2>2, <2>3 DEF Disconnect
<1> QED BY <1>7, <1>8, <1>9, <1>10, <1>11, <1>12, <1>13 DEF ApplyNext

\* A delete, and a start of slipd.
LEMMA ServerStep ==
  ASSUME RollbackInv, Delete \/ Restart
  PROVE  RollbackInv'
<1>1. UNCHANGED <<dep, db, op, disk>>
  BY DEF Delete, Restart
<1>2. Known(dep, NoState)
  BY DEF Known, NoState
<1>3. Known(dep, mem') /\ (disk = None \/ Known(dep, disk))
  BY <1>2 DEF Delete, Restart, RollbackInv, StatesInv
<1>4. StatesInv'
  BY <1>1, <1>3 DEF StatesInv, Known, Works
<1>5. OpsInv' /\ DepsInv'
  BY <1>1 DEF RollbackInv, OpsInv, DepsInv, OpKnows, Known, Works, DepShape, BackWorks
<1> QED BY <1>4, <1>5 DEF RollbackInv

\* A crash ends every deploy, and every apply with its copy of the state.
LEMMA CrashStep ==
  ASSUME RollbackInv, Crash
  PROVE  RollbackInv'
<1>1. /\ mem' = NoState /\ disk' = disk /\ db' = db
      /\ dep' = [d \in Deploys |-> dep'[d]] /\ op' = [o \in Operators |-> op'[o]]
  BY DEF Crash
<1>2. \A d \in Deploys :
        /\ DepShape(dep'[d]) /\ dep'[d].tag = dep[d].tag /\ dep'[d].back = dep[d].back
        /\ dep[d].at \in After => dep'[d].at \in After
        /\ dep[d].at = "completed" => dep'[d].at = "completed"
        /\ dep[d].at = "none" <=> dep'[d].at = "none"
  <2>1. TAKE d \in Deploys
  <2>2. /\ dep[d] = [f \in DepFields |-> dep[d][f]]
        /\ dep[d].seq \in 0..(MaxDeploys + 1) /\ dep[d].back \in BOOLEAN
        /\ dep[d].at = "none" => dep[d].back = FALSE
        /\ dep[d].late \in BOOLEAN /\ (dep[d].at = "none" => dep[d].late = FALSE)
    BY DeployFacts
  <2> DEFINE at == IF dep[d].at \in {"read", "accepted", "pulling"} THEN "dropped"
                   ELSE IF dep[d].at \in {"switched", "draining"} THEN "lost" ELSE dep[d].at
  <2>3. dep'[d] = [dep[d] EXCEPT !.late = FALSE, !.repo = None, !.at = at]
    BY DEF Crash
  <2>4. /\ dep[d].at \in After => at \in After
        /\ dep[d].at = "completed" => at = "completed"
        /\ dep[d].at = "none" <=> at = "none"
    BY DEF After
  <2> HIDE DEF at
  <2> QED BY <2>2, <2>3, <2>4, ZenonT(40) DEF DepShape, DepFields
<1>3. Grows(dep, dep')
  BY <1>2 DEF Grows, After
<1>4. \A d \in Deploys : BackWorks(dep', d)
  BY <1>2, <1>3 DEF RollbackInv, DepsInv, BackWorks, Grows
<1>5. DepsInv'
  BY <1>1, <1>2, <1>4 DEF RollbackInv, DepsInv, DepShape, BackWorks
<1>6. Known(dep', mem') /\ (disk' = None \/ Known(dep', disk'))
  BY <1>1, <1>3, KnownStays DEF RollbackInv, StatesInv, Known, NoState
<1>7. StatesInv'
  BY <1>6 DEF StatesInv, Known, Works
<1>8. \A o \in Operators : OpKnows(dep', op'[o])
  <2>1. TAKE o \in Operators
  <2>2. CASE op'[o] = Ended(op[o], "error")
    BY <2>2 DEF OpKnows, Ended, NoOp, OpFields
  <2>3. CASE op'[o] = op[o] /\ op[o].at # "save"
    BY <2>3 DEF RollbackInv, OpsInv, OpKnows
  <2> QED BY <2>2, <2>3 DEF Crash
<1>9. OpsInv'
  BY <1>1, <1>8 DEF OpsInv, OpKnows, Known, Works
<1> QED BY <1>5, <1>7, <1>9 DEF RollbackInv

-----------------------------------------------------------------------------
(* The theorem.                                                            *)

\* Every step keeps the invariant.
LEMMA NextRollback ==
  ASSUME RollbackInv, [Next]_vars
  PROVE  RollbackInv'
<1>1. CASE Next
  BY <1>1, ApplyStep, DeployStep, ServerStep, CrashStep DEF Next
<1>2. CASE UNCHANGED vars
  BY <1>2 DEF vars, RollbackInv, OpsInv, StatesInv, DepsInv, OpKnows, Known, Works, DepShape,
       BackWorks
<1> QED BY <1>1, <1>2

\* The initial state.
LEMMA InitRollback ==
  ASSUME Init
  PROVE  RollbackInv
<1>1. \A d \in Deploys : DepShape(dep[d]) /\ BackWorks(dep, d) /\ db[d] # "completed"
  <2>1. \A d \in Deploys : dep[d] = NoDeploy /\ db[d] = None
    BY DEF Init
  <2>2. DepShape(NoDeploy) /\ NoDeploy.at = "none"
    <3>1. NoDeploy = [f \in DepFields |-> NoDeploy[f]]
      BY DEF NoDeploy, DepFields
    <3>2. NoDeploy.seq = 0 /\ NoDeploy.at = "none"
      BY DEF NoDeploy
    <3>3. NoDeploy.back = FALSE
      BY DEF NoDeploy
    <3>4. NoDeploy.late = FALSE
      BY DEF NoDeploy
    <3>5. 0 \in 0..(MaxDeploys + 1)
      BY OperatorAssumption
    <3> QED BY <3>1, <3>2, <3>3, <3>4, <3>5 DEF DepShape
  <2> QED BY <2>1, <2>2, OperatorAssumption DEF BackWorks
<1>2. DepsInv
  BY <1>1 DEF Init, DepsInv
<1>3. StatesInv
  BY DEF Init, StatesInv, Known, NoState
<1>4. OpsInv
  BY DEF Init, OpsInv, OpKnows, NoOp, OpFields
<1> QED BY <1>2, <1>3, <1>4 DEF RollbackInv

\* A rollback without a tag goes to a version that was deployed, also after
\* failed deploys, late rows, deletes, disconnects, failing writes and restarts: the history
\* names only deploys that completed, and no copy of the state, in memory, in the
\* state file or in an apply that writes it back, names another version.
THEOREM RollbackGoesToDeployed == Spec => []RollbackTargetWorked
<1>1. RollbackInv => RollbackTargetWorked
  BY DEF RollbackInv, DepsInv, BackWorks, DepShape, RollbackTargetWorked, After
<1>2. Init => RollbackInv
  BY InitRollback
<1>3. RollbackInv /\ [Next]_vars => RollbackInv'
  BY NextRollback
<1> QED BY <1>1, <1>2, <1>3, PTL DEF Spec
=============================================================================
