------------------------------ MODULE CliProofs ------------------------------
(***************************************************************************)
(* Proofs about Cli and the handlers of Api, for any number of requests,   *)
(* apps and registrations, and with any commands at the same time: what a  *)
(* status answer shows is of the app it names, and what an exit code says  *)
(* of the effect is so.                                                    *)
(***************************************************************************)
EXTENDS Cli, WellFoundedInduction, TLAPS

ReqFields == {"kind", "app", "at", "inc", "shown", "code", "did", "won"}

\* The steps at which a handler, or the task it spawned, holds the app lock.
Holds(q) ==
  \/ q.kind \in {"create", "update"} /\ q.at \in {"apps", "lease", "service", "provision", "persist", "publish"}
  \/ q.kind = "delete" /\ q.at \in {"remove", "states", "stop", "count", "routes", "forget"}
  \/ q.kind = "task" /\ q.at \in {"apps", "mark", "work", "switch"}

\* A delete that has taken the app out of the apps map and not yet out of app_states.
Deleting(q) == q.kind = "delete" /\ q.at \in {"states", "stop", "count", "routes", "forget"}

\* A create or update that has looked the app up.
Writing(q, k) == q.kind = k /\ q.at \in {"lease", "service", "provision", "persist", "publish"}

\* A deploy task that has read the app.
Deploying(q) == q.kind = "task" /\ q.at \in {"mark", "work", "switch"}

\* What an answer shows, while its app is still asked about, against the registrations B
\* and the last deploys D.
Shows(q, B, D) ==
  q.kind = "appStatus" /\ q.at = "query" =>
    \A s \in q.shown : s[3] \in Nat /\ s[3] <= B[q.app] /\ (D[q.app] # 0 => s[3] <= D[q.app])

\* A request r, which is at q, against the apps map P, the registrations B, the last
\* deploys D, the app locks L and the apps C whose delete was cut short.
ReqOK(r, q, P, B, D, L, C) ==
  /\ q = [f \in ReqFields |-> q[f]] /\ q.did \in BOOLEAN /\ q.won \in BOOLEAN
  /\ q.at \notin {"idle", "end"} \/ q.kind # Nil \/ q.code # 0 => q.app \in Apps
  /\ q.at # "end" /\ q.kind # "task" => q.code = 0
  /\ Holds(q) => L[q.app] = r
  /\ Deleting(q) => P[q.app] = 0 /\ q.did = TRUE
  /\ Writing(q, "create") => P[q.app] = 0
  /\ Writing(q, "update") => P[q.app] # 0
  /\ Deploying(q) => P[q.app] # 0 /\ q.inc = P[q.app]
  /\ q.kind = "task" /\ Holds(q) => D[q.app] = B[q.app]
  /\ Shows(q, B, D)
  /\ q.kind = "appStatus" /\ q.at = "states" => q.inc <= B[q.app] /\ q.inc \in Nat
  /\ \A s \in q.shown : (s[1] \in C \/ s[3] >= s[2]) /\ (s[4] # 0 => s[4] >= s[3])

ReqsInv ==
  /\ req = [r \in Reqs |-> req[r]] /\ appLock = [a \in Apps |-> appLock[a]]
  /\ scene \in Scenes
  /\ \A r \in Reqs : ReqOK(r, req[r], apps, born, deploys, appLock, cut)

IsEntry(e) == e = [f \in {"inc", "status"} |-> e[f]]

\* App a: its entry in app_states is of the app that was registered last, and it
\* outlives the registration only while a delete is under way; its last deploy is not
\* from before the entry.
AppOK(a) ==
  /\ born[a] \in Nat /\ apps[a] \in {0, born[a]}
  /\ deploys[a] \in Nat /\ deploys[a] <= born[a]
  /\ states[a] = Nil \/ IsEntry(states[a])
  /\ states[a] # Nil => /\ states[a].inc \in Nat /\ states[a].inc <= born[a]
                        /\ deploys[a] # 0 => states[a].inc <= deploys[a]
  /\ states[a] = Nil \/ a \in cut \/ states[a].inc = born[a]
  /\ \/ apps[a] # 0 \/ states[a] = Nil \/ a \in cut
     \/ \E r \in Reqs : Deleting(req[r]) /\ req[r].app = a

AppsInv ==
  /\ apps = [a \in Apps |-> apps[a]] /\ born = [a \in Apps |-> born[a]]
  /\ states = [a \in Apps |-> states[a]] /\ deploys = [a \in Apps |-> deploys[a]]
  /\ \A a \in Apps : AppOK(a)

StatusInv == ReqsInv /\ AppsInv

-----------------------------------------------------------------------------
(* Lemmas.                                                                 *)

\* Of two requests that hold the lock of an app, they are one.
LEMMA OneHolder ==
  ASSUME StatusInv, NEW r \in Reqs, NEW p \in Reqs, Holds(req[r]), Holds(req[p]),
         req[r].app = req[p].app
  PROVE  r = p
BY DEF StatusInv, ReqsInv, ReqOK

\* The requests other than r, when r alone moves and the apps that they have
\* looked up stay.
LEMMA OthersStay ==
  ASSUME StatusInv, NEW r \in Reqs, NEW q,
         req' = [req EXCEPT ![r] = q], scene' = scene,
         appLock' = [a \in Apps |-> appLock'[a]], cut \subseteq cut',
         \A a \in Apps : appLock[a] \in Reqs \ {r} =>
            /\ appLock'[a] = appLock[a] /\ apps'[a] = apps[a]
            /\ born'[a] = born[a] /\ deploys'[a] = deploys[a],
         \A a \in Apps : born'[a] = born[a] \/ born'[a] = born[a] + 1,
         \A a \in Apps : deploys'[a] = deploys[a] \/ deploys'[a] = born[a],
         ReqOK(r, q, apps', born', deploys', appLock', cut')
  PROVE  ReqsInv'
<1>1. req' = [p \in Reqs |-> req'[p]] /\ req'[r] = q /\ \A p \in Reqs : p # r => req'[p] = req[p]
  BY DEF StatusInv, ReqsInv
<1>2. ASSUME NEW p \in Reqs, p # r
      PROVE  ReqOK(p, req[p], apps', born', deploys', appLock', cut')
  <2> DEFINE n == req[p].app
  <2>1. ReqOK(p, req[p], apps, born, deploys, appLock, cut)
    BY DEF StatusInv, ReqsInv
  <2>2. CASE Holds(req[p])
    <3>1. n \in Apps /\ appLock[n] = p
      BY <2>1, <2>2 DEF ReqOK, Holds
    <3>2. /\ appLock'[n] = p /\ apps'[n] = apps[n] /\ born'[n] = born[n]
          /\ deploys'[n] = deploys[n]
      BY <1>2, <3>1
    <3>3. req[p].kind # "appStatus"
      BY <2>2 DEF Holds
    <3> QED BY <2>1, <3>1, <3>2, <3>3 DEF ReqOK, Shows
  <2>3. CASE ~Holds(req[p])
    <3>1. ~Deleting(req[p]) /\ ~Writing(req[p], "create") /\ ~Writing(req[p], "update")
      BY <2>3 DEF Holds, Deleting, Writing
    <3>2. ~Deploying(req[p])
      BY <2>3 DEF Holds, Deploying
    <3>3. ASSUME req[p].kind = "appStatus", req[p].at \in {"states", "query"}
          PROVE  /\ req[p].at = "states" => req[p].inc <= born'[n] /\ req[p].inc \in Nat
                 /\ Shows(req[p], born', deploys')
      <4>1. n \in Apps /\ born[n] \in Nat /\ deploys[n] \in Nat
        BY <2>1, <3>3 DEF ReqOK, StatusInv, AppsInv, AppOK
      <4>2. born[n] <= born'[n] /\ (deploys'[n] = deploys[n] \/ deploys'[n] = born[n])
            /\ born'[n] \in Nat
        BY <4>1
      <4>3. req[p].at = "states" => req[p].inc <= born[n] /\ req[p].inc \in Nat
        BY <2>1, <3>3 DEF ReqOK
      <4>4. ASSUME req[p].at = "query", NEW s \in req[p].shown
            PROVE  /\ s[3] \in Nat /\ s[3] <= born'[n]
                   /\ deploys'[n] # 0 => s[3] <= deploys'[n]
        <5>1. s[3] \in Nat /\ s[3] <= born[n] /\ (deploys[n] # 0 => s[3] <= deploys[n])
          BY <2>1, <3>3, <4>4 DEF ReqOK, Shows
        <5> QED BY <4>1, <4>2, <5>1
      <4> QED BY <4>1, <4>2, <4>3, <4>4 DEF Shows
    <3>4. Shows(req[p], born', deploys')
      BY <3>3 DEF Shows
    <3> QED BY <2>1, <2>3, <3>1, <3>2, <3>3, <3>4 DEF ReqOK
  <2> QED BY <2>2, <2>3
<1>3. \A p \in Reqs : ReqOK(p, req'[p], apps', born', deploys', appLock', cut')
  BY <1>1, <1>2
<1> QED BY <1>1, <1>3 DEF StatusInv, ReqsInv, ReqOK, Shows

\* A step of r that leaves the apps map alone: the entries stay, go, or are of
\* the app that is registered.
LEMMA Moves ==
  ASSUME StatusInv, NEW r \in Reqs, NEW q,
         req' = [req EXCEPT ![r] = q], UNCHANGED <<apps, born, deploys, scene>>, cut \subseteq cut',
         appLock' = [a \in Apps |-> appLock'[a]],
         \A a \in Apps : appLock[a] \in Reqs \ {r} => appLock'[a] = appLock[a],
         ReqOK(r, q, apps, born, deploys, appLock', cut'),
         states' = [a \in Apps |-> states'[a]],
         \A a \in Apps : \/ states'[a] = states[a] \/ states'[a] = Nil
                         \/ /\ IsEntry(states'[a])
                            /\ \/ states[a] # Nil /\ states'[a].inc = states[a].inc
                               \/ apps[a] # 0 /\ states'[a].inc = apps[a] /\ deploys[a] = apps[a],
         Deleting(req[r]) => \/ Deleting(q) /\ q.app = req[r].app
                             \/ req[r].app \in cut' \/ states'[req[r].app] = Nil
  PROVE  StatusInv'
<1>0. \A a \in Apps : apps'[a] = apps[a] /\ born'[a] = born[a] /\ deploys'[a] = deploys[a]
  OBVIOUS
<1>1. ReqsInv'
  <2>1. \A a \in Apps : appLock[a] \in Reqs \ {r} =>
           /\ appLock'[a] = appLock[a] /\ apps'[a] = apps[a]
           /\ born'[a] = born[a] /\ deploys'[a] = deploys[a]
    BY <1>0
  <2>2. ReqOK(r, q, apps', born', deploys', appLock', cut')
    OBVIOUS
  <2> QED BY <1>0, <2>1, <2>2, OthersStay
<1>2. req'[r] = q /\ \A p \in Reqs : p # r => req'[p] = req[p]
  BY DEF StatusInv, ReqsInv
<1>3. ASSUME NEW a \in Apps
      PROVE  AppOK(a)'
  <2>1. AppOK(a)
    BY DEF StatusInv, AppsInv
  <2>2. states'[a] = Nil \/ IsEntry(states'[a])
    BY <2>1 DEF AppOK
  <2>3. states'[a] = Nil \/ a \in cut' \/ states'[a].inc = born[a]
    BY <2>1 DEF AppOK
  <2>5. states'[a] # Nil => /\ states'[a].inc \in Nat /\ states'[a].inc <= born[a]
                            /\ deploys[a] # 0 => states'[a].inc <= deploys[a]
    BY <2>1 DEF AppOK
  <2>4. \/ apps[a] # 0 \/ states'[a] = Nil \/ a \in cut'
        \/ \E p \in Reqs : Deleting(req'[p]) /\ req'[p].app = a
    <3>1. SUFFICES ASSUME apps[a] = 0, states'[a] # Nil, a \notin cut'
                   PROVE  \E p \in Reqs : Deleting(req'[p]) /\ req'[p].app = a
      OBVIOUS
    <3>2. states[a] # Nil
      BY <3>1
    <3>3. PICK p \in Reqs : Deleting(req[p]) /\ req[p].app = a
      BY <2>1, <3>1, <3>2 DEF AppOK
    <3> QED BY <1>2, <3>1, <3>3
  <2> QED BY <1>0, <2>1, <2>2, <2>3, <2>4, <2>5 DEF AppOK, Deleting, IsEntry
<1> QED BY <1>1, <1>3 DEF StatusInv, AppsInv

\* A step of r that leaves the entries alone, too.
LEMMA ReqMoves ==
  ASSUME StatusInv, NEW r \in Reqs, NEW q,
         req' = [req EXCEPT ![r] = q], UNCHANGED <<apps, born, deploys, states, cut, scene>>,
         appLock' = [a \in Apps |-> appLock'[a]],
         \A a \in Apps : appLock[a] \in Reqs \ {r} => appLock'[a] = appLock[a],
         ReqOK(r, q, apps, born, deploys, appLock', cut),
         Deleting(req[r]) => Deleting(q) /\ q.app = req[r].app
  PROVE  StatusInv'
<1>1. states' = [a \in Apps |-> states'[a]]
  BY DEF StatusInv, AppsInv
<1>2. \A a \in Apps : states'[a] = states[a]
  OBVIOUS
<1>3. ReqOK(r, q, apps, born, deploys, appLock', cut')
  OBVIOUS
<1> QED BY <1>1, <1>2, <1>3, Moves

\* A request that returns.
LEMMA Returns ==
  ASSUME StatusInv, NEW r \in Reqs, req[r].app \in Apps, ~Deleting(req[r]),
         NEW code, Answer(r, code), UNCHANGED data
  PROVE  StatusInv'
<1> DEFINE q == [req[r] EXCEPT !.at = "end", !.code = code]
<1>1. ReqOK(r, req[r], apps, born, deploys, appLock, cut) /\ req = [p \in Reqs |-> req[p]]
  BY DEF StatusInv, ReqsInv
<1>2. req' = [req EXCEPT ![r] = q]
  BY <1>1 DEF Answer, Answered, ReqOK, ReqFields
<1>3. ReqOK(r, q, apps, born, deploys, appLock', cut)
  BY <1>1 DEF ReqOK, Shows, ReqFields, Holds, Deleting, Writing, Deploying
<1>4. /\ appLock' = [a \in Apps |-> appLock'[a]]
      /\ \A a \in Apps : appLock[a] \in Reqs \ {r} => appLock'[a] = appLock[a]
  BY DEF Answer, Dropped, Unlocked
<1> HIDE DEF q
<1> QED BY <1>2, <1>3, <1>4, ReqMoves DEF data

\* A request that goes on, with the locks as they are.
LEMMA GoesOn ==
  ASSUME StatusInv, NEW r \in Reqs, NEW at, req' = To(r, at), UNCHANGED <<data, appLock>>,
         ReqOK(r, [req[r] EXCEPT !.at = at], apps, born, deploys, appLock, cut),
         Deleting(req[r]) => at \in {"states", "stop", "count", "routes", "forget"}
  PROVE  StatusInv'
<1> DEFINE q == [req[r] EXCEPT !.at = at]
<1>1. /\ ReqOK(r, req[r], apps, born, deploys, appLock, cut) /\ req = [p \in Reqs |-> req[p]]
      /\ appLock = [a \in Apps |-> appLock[a]]
  BY DEF StatusInv, ReqsInv
<1>2. req' = [req EXCEPT ![r] = q]
  BY <1>1 DEF To, ReqOK, ReqFields
<1>3. Deleting(req[r]) => Deleting(q) /\ q.app = req[r].app
  BY <1>1 DEF Deleting, ReqOK, ReqFields
<1>4. ReqOK(r, q, apps, born, deploys, appLock', cut)
  OBVIOUS
<1> HIDE DEF q
<1> QED BY <1>1, <1>2, <1>3, <1>4, ReqMoves DEF data

\* What is known of r and of the app locks.
LEMMA ReqFacts ==
  ASSUME StatusInv, NEW r \in Reqs
  PROVE  /\ ReqOK(r, req[r], apps, born, deploys, appLock, cut) /\ req = [p \in Reqs |-> req[p]]
         /\ req[r] = [f \in ReqFields |-> req[r][f]]
         /\ appLock = [a \in Apps |-> appLock[a]] /\ states = [a \in Apps |-> states[a]]
         /\ req[r].at \notin {"idle", "end"} \/ req[r].kind # Nil \/ req[r].code # 0
              => req[r].app \in Apps /\ AppOK(req[r].app)
BY DEF StatusInv, ReqsInv, AppsInv, ReqOK

-----------------------------------------------------------------------------
(* The handlers that only read.                                            *)

\* Every registered app is shown with its entry.
LEMMA StatusAppsStep ==
  ASSUME StatusInv, NEW r \in Reqs, StatusApps(r)
  PROVE  StatusInv'
<1> DEFINE S == {<<a, apps[a], states[a].inc, deploys[a]>> :
                    a \in {b \in Apps : apps[b] # 0 /\ states[b] # Nil}}
           q == [req[r] EXCEPT !.at = "end", !.code = 200, !.shown = S]
<1>0. /\ ReqOK(r, req[r], apps, born, deploys, appLock, cut) /\ req = [p \in Reqs |-> req[p]]
      /\ req[r] = [f \in ReqFields |-> req[r][f]] /\ req[r].app \in Apps
  BY ReqFacts DEF StatusApps, At
<1>1. \A s \in S : (s[1] \in cut \/ s[3] >= s[2]) /\ (s[4] # 0 => s[4] >= s[3])
  <2>1. TAKE s \in S
  <2>2. PICK a \in Apps : s = <<a, apps[a], states[a].inc, deploys[a]>> /\ apps[a] # 0 /\ states[a] # Nil
    OBVIOUS
  <2>3. AppOK(a)
    BY DEF StatusInv, AppsInv
  <2>4. a \in cut \/ states[a].inc = apps[a]
    BY <2>2, <2>3 DEF AppOK
  <2>5. /\ apps[a] \in Nat /\ deploys[a] \in Nat /\ states[a].inc \in Nat
        /\ deploys[a] # 0 => states[a].inc <= deploys[a]
    BY <2>2, <2>3 DEF AppOK
  <2> QED BY <2>2, <2>4, <2>5
<1> HIDE DEF S
<1>2. req' = [req EXCEPT ![r] = q]
  BY <1>0 DEF StatusApps, Answered, ReqFields, S
<1>3. ReqOK(r, q, apps, born, deploys, appLock', cut)
  BY <1>0, <1>1, ZenonT(40) DEF ReqOK, Shows, ReqFields, Holds, Deleting, Writing, Deploying
<1>4. /\ appLock' = [a \in Apps |-> appLock'[a]]
      /\ \A a \in Apps : appLock[a] \in Reqs \ {r} => appLock'[a] = appLock[a]
  BY DEF StatusApps, Dropped, Unlocked
<1>5. ~Deleting(req[r])
  BY DEF StatusApps, At, Deleting
<1>6. UNCHANGED <<apps, born, deploys, states, cut, scene>>
  BY DEF StatusApps, data
<1> HIDE DEF q
<1> QED BY <1>2, <1>3, <1>4, <1>5, <1>6, ReqMoves

\* The status of one app shows the entry as it is when the second map is read.
LEMMA AppStatusStep ==
  ASSUME StatusInv, NEW r \in Reqs, AppStatusStates(r)
  PROVE  StatusInv'
<1> DEFINE S == IF states[A(r)] = Nil THEN {} ELSE {<<A(r), req[r].inc, states[A(r)].inc, 0>>}
           q == [req[r] EXCEPT !.at = "query", !.shown = S]
<1>0. /\ ReqOK(r, req[r], apps, born, deploys, appLock, cut) /\ req = [p \in Reqs |-> req[p]]
      /\ req[r] = [f \in ReqFields |-> req[r][f]] /\ appLock = [a \in Apps |-> appLock[a]]
  BY ReqFacts
<1>1. req[r].kind = "appStatus" /\ req[r].at = "states"
  BY DEF AppStatusStates, At
<1>2. req[r].app \in Apps /\ AppOK(req[r].app)
  BY <1>1, ReqFacts
<1>3. \A s \in S : /\ s[1] \in cut \/ s[3] >= s[2]
                   /\ s[4] = 0 /\ s[3] \in Nat /\ s[3] <= born[A(r)]
                   /\ deploys[A(r)] # 0 => s[3] <= deploys[A(r)]
  <2>1. CASE states[A(r)] = Nil
    BY <2>1
  <2>2. CASE states[A(r)] # Nil
    <3>1. A(r) \in cut \/ states[A(r)].inc = born[A(r)]
      BY <1>2, <2>2 DEF AppOK, A
    <3>2. req[r].inc <= born[A(r)] /\ req[r].inc \in Nat
      BY <1>0, <1>1 DEF ReqOK, A
    <3>3. /\ born[A(r)] \in Nat /\ states[A(r)].inc \in Nat /\ states[A(r)].inc <= born[A(r)]
          /\ deploys[A(r)] # 0 => states[A(r)].inc <= deploys[A(r)]
      BY <1>2, <2>2 DEF AppOK, A
    <3> QED BY <2>2, <3>1, <3>2, <3>3
  <2> QED BY <2>1, <2>2
<1> HIDE DEF S
<1>4. req' = [req EXCEPT ![r] = q]
  BY <1>0 DEF AppStatusStates, ReqFields, S
<1>5. UNCHANGED <<apps, born, deploys, states, cut, scene, appLock>>
  BY DEF AppStatusStates, data
<1>6. ReqOK(r, q, apps, born, deploys, appLock', cut)
  BY <1>0, <1>1, <1>2, <1>3, <1>5 DEF ReqOK, Shows, ReqFields, Holds, Deleting, Writing, Deploying, A
<1>7. ~Deleting(req[r])
  BY <1>1 DEF Deleting
<1> HIDE DEF q
<1> QED BY <1>0, <1>4, <1>5, <1>6, <1>7, ReqMoves

\* The answer adds the last deploy, which is not from before the entry.
LEMMA AppStatusAnswers ==
  ASSUME StatusInv, NEW r \in Reqs, AppStatusQuery(r)
  PROVE  StatusInv'
<1> DEFINE S == {<<s[1], s[2], s[3], deploys[A(r)]>> : s \in req[r].shown}
           q == [req[r] EXCEPT !.at = "end", !.code = 200, !.shown = S]
<1>0. /\ ReqOK(r, req[r], apps, born, deploys, appLock, cut) /\ req = [p \in Reqs |-> req[p]]
      /\ req[r] = [f \in ReqFields |-> req[r][f]]
  BY ReqFacts
<1>1. req[r].kind = "appStatus" /\ req[r].at = "query" /\ ~Deleting(req[r]) /\ UNCHANGED data
  BY DEF AppStatusQuery, At, Deleting
<1>2. CASE Answer(r, 500)
  <2>1. req[r].app \in Apps
    BY <1>1, ReqFacts
  <2> QED BY <1>1, <1>2, <2>1, Returns
<1>3. CASE req' = [Answered(r, 200) EXCEPT ![r].shown = S] /\ Dropped(r)
  <2>1. deploys[A(r)] \in Nat
    BY <1>1, ReqFacts DEF AppOK, A
  <2>2. \A s \in S : (s[1] \in cut \/ s[3] >= s[2]) /\ (s[4] # 0 => s[4] >= s[3])
    <3>1. TAKE s \in S
    <3>2. PICK t \in req[r].shown : s = <<t[1], t[2], t[3], deploys[A(r)]>>
      OBVIOUS
    <3>3. /\ t[1] \in cut \/ t[3] >= t[2]
          /\ t[3] \in Nat /\ (deploys[A(r)] # 0 => t[3] <= deploys[A(r)])
      BY <1>0, <1>1, <3>2 DEF ReqOK, Shows, A
    <3>4. s[1] = t[1] /\ s[2] = t[2] /\ s[3] = t[3] /\ s[4] = deploys[A(r)]
      BY <3>2
    <3> QED BY <2>1, <3>3, <3>4
  <2> HIDE DEF S
  <2>3. req' = [req EXCEPT ![r] = q]
    BY <1>0, <1>3 DEF Answered, ReqFields
  <2>4. ReqOK(r, q, apps, born, deploys, appLock', cut)
    BY <1>0, <1>1, <2>2, ZenonT(40) DEF ReqOK, Shows, ReqFields, Holds, Deleting, Writing, Deploying
  <2>5. /\ appLock' = [a \in Apps |-> appLock'[a]]
        /\ \A a \in Apps : appLock[a] \in Reqs \ {r} => appLock'[a] = appLock[a]
    BY <1>3 DEF Dropped, Unlocked
  <2>6. UNCHANGED <<apps, born, deploys, states, cut, scene>>
    BY <1>1 DEF data
  <2> HIDE DEF q
  <2> QED BY <1>1, <2>3, <2>4, <2>5, <2>6, ReqMoves
<1> QED BY <1>2, <1>3 DEF AppStatusQuery

\* The other steps of the handlers that only read.
LEMMA ReadStep ==
  ASSUME StatusInv, NEW r \in Reqs,
         \/ StatusStates(r) \/ ReadApps(r) \/ LogsList(r) \/ LogsStates(r)
         \/ TickReads(r)
  PROVE  StatusInv'
<1>0. /\ ReqOK(r, req[r], apps, born, deploys, appLock, cut) /\ req = [p \in Reqs |-> req[p]]
      /\ req[r] = [f \in ReqFields |-> req[r][f]] /\ appLock = [a \in Apps |-> appLock[a]]
      /\ req[r].at \notin {"idle", "end"} \/ req[r].kind # Nil
           => req[r].app \in Apps /\ AppOK(req[r].app)
  BY ReqFacts
<1>1. /\ ~Deleting(req[r]) /\ UNCHANGED data
      /\ req[r].kind \in {"status", "get", "appStatus", "logs", "tick"}
      /\ req[r].at \in {"states", "apps", "list"}
  BY DEF StatusStates, ReadApps, LogsList, LogsStates, TickReads, At, Deleting
<1>2. CASE \E code : Answer(r, code)
  BY <1>0, <1>1, <1>2, Returns
<1>3. CASE /\ UNCHANGED appLock
           /\ \E at : req' = To(r, at) /\ ~(req[r].kind = "appStatus" /\ at \in {"states", "query"})
                      /\ at \notin {"idle", "end"}
  <2>1. PICK at : req' = To(r, at) /\ ~(req[r].kind = "appStatus" /\ at \in {"states", "query"})
                   /\ at \notin {"idle", "end"}
    BY <1>3
  <2>2. ReqOK(r, [req[r] EXCEPT !.at = at], apps, born, deploys, appLock, cut)
    BY <1>0, <1>1, <2>1 DEF ReqOK, Shows, ReqFields, Holds, Deleting, Writing, Deploying
  <2> QED BY <1>1, <1>3, <2>1, <2>2, GoesOn
<1>4. CASE /\ ReadApps(r) /\ UNCHANGED appLock
           /\ req' = [req EXCEPT ![r].at = IF req[r].kind = "logs" THEN "list" ELSE "states",
                                 ![r].inc = apps[A(r)]]
  <2> DEFINE at == IF req[r].kind = "logs" THEN "list" ELSE "states"
             q == [req[r] EXCEPT !.at = at, !.inc = apps[A(r)]]
  <2>1. req' = [req EXCEPT ![r] = q]
    BY <1>0, <1>4 DEF ReqFields
  <2>2. apps[A(r)] <= born[A(r)] /\ apps[A(r)] \in Nat
    BY <1>0, <1>1 DEF AppOK, A
  <2>3. ReqOK(r, q, apps, born, deploys, appLock', cut)
    BY <1>0, <1>1, <1>4, <2>2 DEF ReqOK, Shows, ReqFields, Holds, Deleting, Writing, Deploying, A
  <2>4. UNCHANGED <<apps, born, deploys, states, cut, scene>> /\ appLock' = appLock
    BY <1>1, <1>4 DEF data
  <2>5. appLock' = [a \in Apps |-> appLock'[a]]
    BY <1>0, <2>4
  <2> HIDE DEF q
  <2> QED BY <1>1, <2>1, <2>3, <2>4, <2>5, ReqMoves
<1>5. CASE StatusStates(r) \/ LogsStates(r) \/ TickReads(r)
  <2>1. CASE StatusStates(r)
    BY <1>3, <2>1 DEF StatusStates, At
  <2>2. CASE LogsStates(r)
    BY <1>2, <2>2 DEF LogsStates
  <2>3. CASE TickReads(r)
    BY <1>3, <2>3 DEF TickReads, At
  <2> QED BY <1>5, <2>1, <2>2, <2>3
<1>6. CASE ReadApps(r)
  BY <1>2, <1>4, <1>6 DEF ReadApps
<1>7. CASE LogsList(r)
  <2>1. CASE req' = To(r, "states") /\ UNCHANGED appLock
    BY <1>3, <1>7, <2>1 DEF LogsList, At
  <2> QED BY <1>2, <1>7, <2>1 DEF LogsList
<1> QED BY <1>5, <1>6, <1>7

-----------------------------------------------------------------------------
(* The handlers that change apps, and the deploy task.                     *)

\* An app lock that is taken.
LEMMA LockTaken ==
  ASSUME StatusInv, NEW r \in Reqs, NEW q, req' = [req EXCEPT ![r] = q], UNCHANGED data,
         req[r].app \in Apps, q.app = req[r].app, appLock[req[r].app] = Nil,
         appLock' = [appLock EXCEPT ![req[r].app] = r], ~Deleting(req[r]),
         ReqOK(r, q, apps, born, deploys, [appLock EXCEPT ![req[r].app] = r], cut)
  PROVE  StatusInv'
<1>1. appLock = [a \in Apps |-> appLock[a]]
  BY ReqFacts
<1>2. appLock' = [a \in Apps |-> appLock'[a]]
  BY <1>1
<1>3. \A a \in Apps : appLock[a] \in Reqs \ {r} => appLock'[a] = appLock[a]
  BY <1>1, ApiAssumption
<1>4. ReqOK(r, q, apps, born, deploys, appLock', cut)
  OBVIOUS
<1>5. UNCHANGED <<apps, born, deploys, states, cut, scene>>
  BY DEF data
<1> QED BY <1>2, <1>3, <1>4, <1>5, ReqMoves

\* The step by which a handler comes to hold the app lock.
LEMMA LockStep ==
  ASSUME StatusInv, NEW r \in Reqs, LockApp(r)
  PROVE  StatusInv'
<1>0. /\ ReqOK(r, req[r], apps, born, deploys, appLock, cut) /\ req = [p \in Reqs |-> req[p]]
      /\ req[r] = [f \in ReqFields |-> req[r][f]] /\ appLock = [a \in Apps |-> appLock[a]]
      /\ req[r].at \notin {"idle", "end"} \/ req[r].kind # Nil
           => req[r].app \in Apps /\ AppOK(req[r].app)
  BY ReqFacts
<1>1. ~Deleting(req[r]) /\ UNCHANGED data /\ req[r].app \in Apps
  BY <1>0 DEF LockApp, At, Deleting
<1>2. CASE \E code : Answer(r, code)
  BY <1>1, <1>2, Returns
<1>3. CASE /\ LockApp(r) /\ appLock[A(r)] = Nil
           /\ appLock' = [appLock EXCEPT ![A(r)] = r]
           /\ req' = To(r, IF req[r].kind = "delete" THEN "remove" ELSE "apps")
  <2> DEFINE at == IF req[r].kind = "delete" THEN "remove" ELSE "apps"
             q == [req[r] EXCEPT !.at = at]
  <2>1. req' = [req EXCEPT ![r] = q] /\ q.app = req[r].app
    BY <1>0, <1>3 DEF To, ReqFields
  <2>2. ReqOK(r, q, apps, born, deploys, [appLock EXCEPT ![req[r].app] = r], cut)
    BY <1>0, <1>1, <1>3 DEF ReqOK, Shows, ReqFields, Holds, Deleting, Writing, Deploying, LockApp, At
  <2>3. appLock[req[r].app] = Nil /\ appLock' = [appLock EXCEPT ![req[r].app] = r]
    BY <1>3 DEF A
  <2> HIDE DEF q
  <2> QED BY <1>1, <2>1, <2>2, <2>3, LockTaken
<1> QED BY <1>2, <1>3 DEF LockApp

\* A deploy is accepted: it is recorded as the last one of the app that is registered, or
\* was last, and its task holds the lock.
LEMMA AcceptStep ==
  ASSUME StatusInv, NEW r \in Reqs, Accept(r)
  PROVE  StatusInv'
<1> DEFINE n == req[r].app
<1>0. /\ ReqOK(r, req[r], apps, born, deploys, appLock, cut) /\ req = [p \in Reqs |-> req[p]]
      /\ req[r] = [f \in ReqFields |-> req[r][f]] /\ appLock = [a \in Apps |-> appLock[a]]
      /\ n \in Apps /\ req[r].kind \in {"deploy", "rollback"} /\ req[r].at = "trylock"
  BY ReqFacts DEF Accept, At
<1>1. UNCHANGED <<apps, born, states, up, cut, scene>> /\ ~Deleting(req[r])
  BY <1>0 DEF Accept, Deleting
<1>2. CASE Answer(r, 409) /\ UNCHANGED deploys
  BY <1>0, <1>1, <1>2, Returns DEF data
<1>3. CASE /\ appLock[A(r)] = Nil
           /\ appLock' = [appLock EXCEPT ![A(r)] = r]
           /\ req' = [req EXCEPT ![r].kind = "task", ![r].at = "apps",
                                 ![r].code = 202, ![r].did = TRUE]
           /\ deploys' = [deploys EXCEPT ![A(r)] = born[A(r)]]
  <2> DEFINE q == [req[r] EXCEPT !.kind = "task", !.at = "apps", !.code = 202, !.did = TRUE]
  <2>1. req' = [req EXCEPT ![r] = q]
    BY <1>0, <1>3 DEF ReqFields
  <2>2. deploys = [a \in Apps |-> deploys[a]] /\ states = [a \in Apps |-> states[a]]
    BY DEF StatusInv, AppsInv
  <2>3. /\ deploys' = [a \in Apps |-> deploys'[a]] /\ deploys'[n] = born[n]
        /\ \A a \in Apps : a # n => deploys'[a] = deploys[a]
    BY <1>0, <1>3, <2>2 DEF A
  <2>4. /\ appLock' = [a \in Apps |-> appLock'[a]] /\ appLock'[n] = r /\ appLock[n] = Nil
        /\ \A a \in Apps : a # n => appLock'[a] = appLock[a]
    BY <1>0, <1>3 DEF A
  <2>5. q.kind = "task" /\ q.at = "apps" /\ q.app = n /\ q.shown = req[r].shown
    BY <1>0 DEF ReqFields
  <2>6. q = [f \in ReqFields |-> q[f]] /\ q.did \in BOOLEAN
    BY <1>0 DEF ReqFields
  <2>7. q.won \in BOOLEAN
    BY <1>0 DEF ReqFields, ReqOK
  <2> HIDE DEF q
  <2>8. ReqOK(r, q, apps', born', deploys', appLock', cut')
    <3>1. ~Deleting(q) /\ ~Writing(q, "create") /\ ~Writing(q, "update") /\ ~Deploying(q)
      BY <2>5 DEF Deleting, Writing, Deploying
    <3>2. \A s \in q.shown : (s[1] \in cut' \/ s[3] >= s[2]) /\ (s[4] # 0 => s[4] >= s[3])
      BY <1>0, <1>1, <2>5 DEF ReqOK
    <3> QED BY <1>0, <1>1, <2>3, <2>4, <2>5, <2>6, <2>7, <3>1, <3>2 DEF ReqOK, Shows
  <2> HIDE DEF n
  <2>9. ReqsInv'
    <3>1. \A a \in Apps : appLock[a] \in Reqs \ {r} =>
             /\ appLock'[a] = appLock[a] /\ apps'[a] = apps[a]
             /\ born'[a] = born[a] /\ deploys'[a] = deploys[a]
      BY <1>1, <2>3, <2>4, ApiAssumption
    <3>2. \A a \in Apps : born'[a] = born[a]
      BY <1>1
    <3>3. \A a \in Apps : deploys'[a] = deploys[a] \/ deploys'[a] = born[a]
      BY <2>3
    <3>4. cut \subseteq cut' /\ scene' = scene
      BY <1>1
    <3> QED BY <2>1, <2>4, <2>8, <3>1, <3>2, <3>3, <3>4, OthersStay
  <2>10. ASSUME NEW a \in Apps
         PROVE  AppOK(a)'
    <3>1. AppOK(a) /\ \A p \in Reqs : p # r => req'[p] = req[p]
      BY <1>0, <2>1 DEF StatusInv, AppsInv
    <3>2. \/ apps[a] # 0 \/ states[a] = Nil \/ a \in cut
          \/ \E p \in Reqs : Deleting(req'[p]) /\ req'[p].app = a
      BY <1>1, <3>1 DEF AppOK
    <3>3. deploys'[a] = deploys[a] \/ deploys'[a] = born[a]
      BY <2>3
    <3> QED BY <1>1, <3>1, <3>2, <3>3 DEF AppOK, IsEntry, Deleting
  <2>11. AppsInv'
    BY <1>1, <2>2, <2>3, <2>10 DEF StatusInv, AppsInv
  <2> QED BY <2>9, <2>11 DEF StatusInv
<1> QED BY <1>2, <1>3 DEF Accept

\* The steps that change neither app nor entry.
LEMMA QuietStep ==
  ASSUME StatusInv, NEW r \in Reqs,
         \/ CheckApp(r) \/ Lease(r) \/ BindService(r) \/ Provision(r) \/ PersistApp(r)
         \/ DeleteStates(r) \/ DeleteStop(r) \/ DeleteRoutes(r) \/ DeployApps(r)
         \/ RollbackTarget(r) \/ RemoveServiceLocks(r) \/ RemoveServiceUsage(r)
         \/ EnsureService(r)
  PROVE  StatusInv'
<1>0. /\ ReqOK(r, req[r], apps, born, deploys, appLock, cut) /\ req = [p \in Reqs |-> req[p]]
      /\ req[r] = [f \in ReqFields |-> req[r][f]] /\ appLock = [a \in Apps |-> appLock[a]]
      /\ req[r].at \notin {"idle", "end"} \/ req[r].kind # Nil
           => req[r].app \in Apps /\ AppOK(req[r].app)
  BY ReqFacts
<1>1. ASSUME NEW code, Answer(r, code), ~Deleting(req[r]), UNCHANGED data, req[r].app \in Apps
      PROVE  StatusInv'
  BY <1>1, Returns
<1>2. ASSUME NEW at, req' = To(r, at), UNCHANGED <<apps, born, deploys, states, cut, scene, appLock>>,
             ReqOK(r, [req[r] EXCEPT !.at = at], apps, born, deploys, appLock, cut),
             Deleting(req[r]) => at \in {"states", "stop", "count", "routes", "forget"}
      PROVE  StatusInv'
  <2> DEFINE q == [req[r] EXCEPT !.at = at]
  <2>1. req' = [req EXCEPT ![r] = q]
    BY <1>0, <1>2 DEF To, ReqFields
  <2>2. Deleting(req[r]) => Deleting(q) /\ q.app = req[r].app
    BY <1>0, <1>2 DEF Deleting, ReqFields
  <2>3. ReqOK(r, q, apps, born, deploys, appLock', cut)
    BY <1>2
  <2>4. appLock' = [a \in Apps |-> appLock'[a]] /\ \A a \in Apps : appLock'[a] = appLock[a]
    BY <1>0, <1>2
  <2> HIDE DEF q
  <2> QED BY <1>2, <2>1, <2>2, <2>3, <2>4, ReqMoves
<1>3. CASE CheckApp(r)
  <2>1. ~Deleting(req[r]) /\ UNCHANGED data /\ req[r].app \in Apps
    BY <1>0, <1>3 DEF CheckApp, At, Deleting
  <2>2. CASE /\ (req[r].kind = "create") = (apps[A(r)] = 0)
             /\ req' = To(r, "lease") /\ UNCHANGED appLock
    <3>1. (req[r].kind = "create" => apps[A(r)] = 0) /\ (req[r].kind = "update" => apps[A(r)] # 0)
      BY <2>2
    <3>2. ReqOK(r, [req[r] EXCEPT !.at = "lease"], apps, born, deploys, appLock, cut)
      BY <1>0, <1>3, <3>1
      DEF ReqOK, Shows, ReqFields, Holds, Deleting, Writing, Deploying, CheckApp, At, A
    <3> QED BY <1>2, <2>1, <2>2, <3>2 DEF data
  <2> QED BY <1>1, <1>3, <2>1, <2>2 DEF CheckApp
<1>4. CASE Lease(r) \/ BindService(r) \/ Provision(r) \/ PersistApp(r)
  <2>1. /\ ~Deleting(req[r]) /\ UNCHANGED data /\ req[r].kind \in {"create", "update"}
        /\ req[r].at \in {"lease", "service", "provision", "persist"} /\ req[r].app \in Apps
    BY <1>0, <1>4 DEF Lease, BindService, Provision, PersistApp, At, Deleting
  <2>2. CASE \E at \in {"service", "provision", "persist", "publish"} :
               req' = To(r, at) /\ UNCHANGED appLock
    <3>1. PICK at \in {"service", "provision", "persist", "publish"} : req' = To(r, at)
      BY <2>2
    <3>2. ReqOK(r, [req[r] EXCEPT !.at = at], apps, born, deploys, appLock, cut)
      BY <1>0, <2>1, <3>1 DEF ReqOK, Shows, ReqFields, Holds, Deleting, Writing, Deploying
    <3> QED BY <1>2, <2>1, <2>2, <3>1, <3>2 DEF data
  <2> QED BY <1>1, <1>4, <2>1, <2>2 DEF Lease, BindService, Provision, PersistApp
<1>5. CASE DeleteStates(r) \/ DeleteStop(r) \/ DeleteRoutes(r)
  <2>1. /\ UNCHANGED <<apps, born, deploys, states, cut, scene, appLock>> /\ req[r].kind = "delete"
        /\ req[r].at \in {"states", "stop", "count", "routes"}
        /\ \E at \in {"stop", "count", "routes", "forget"} : req' = To(r, at)
    BY <1>5 DEF DeleteStates, DeleteStop, DeleteRoutes, At, data
  <2>2. PICK at \in {"stop", "count", "routes", "forget"} : req' = To(r, at)
    BY <2>1
  <2>3. ReqOK(r, [req[r] EXCEPT !.at = at], apps, born, deploys, appLock, cut)
    BY <1>0, <2>1, <2>2 DEF ReqOK, Shows, ReqFields, Holds, Deleting, Writing, Deploying
  <2> QED BY <1>2, <2>1, <2>2, <2>3
<1>6. CASE \/ DeployApps(r) \/ RollbackTarget(r)
           \/ RemoveServiceLocks(r) \/ RemoveServiceUsage(r) \/ EnsureService(r)
  <2>1. /\ UNCHANGED data
        /\ req[r].kind \in {"deploy", "rollback", "svcRemove", "svcAdd", "tick"}
        /\ req[r].at \notin {"idle", "end"}
    BY <1>6 DEF DeployApps, RollbackTarget, RemoveServiceLocks, RemoveServiceUsage,
         EnsureService, At
  <2>2. ~Deleting(req[r]) /\ req[r].app \in Apps
    BY <1>0, <2>1 DEF Deleting
  <2>3. CASE \E at \in {"trylock", "count", "previous", "service", "usage", "provider"} :
               req' = To(r, at) /\ UNCHANGED appLock
    <3>1. PICK at \in {"trylock", "count", "previous", "service", "usage", "provider"} : req' = To(r, at)
      BY <2>3
    <3>2. ReqOK(r, [req[r] EXCEPT !.at = at], apps, born, deploys, appLock, cut)
      BY <1>0, <2>1, <3>1 DEF ReqOK, Shows, ReqFields, Holds, Deleting, Writing, Deploying
    <3> QED BY <1>2, <2>1, <2>2, <2>3, <3>1, <3>2 DEF data
  <2>4. CASE DeployApps(r)
    BY <1>1, <2>1, <2>2, <2>3, <2>4 DEF DeployApps
  <2>5. CASE RollbackTarget(r) \/ RemoveServiceLocks(r) \/ RemoveServiceUsage(r)
    BY <1>1, <2>1, <2>2, <2>3, <2>5 DEF RollbackTarget, RemoveServiceLocks, RemoveServiceUsage
  <2>6. CASE EnsureService(r)
    BY <1>1, <2>1, <2>2, <2>3, <2>6 DEF EnsureService
  <2> QED BY <1>6, <2>4, <2>5, <2>6
<1> QED BY <1>3, <1>4, <1>5, <1>6

\* A request that returns with what it did.
LEMMA ProviderStep ==
  ASSUME StatusInv, NEW r \in Reqs, NEW q, req' = [req EXCEPT ![r] = q],
         q = [f \in ReqFields |-> q[f]], q.did \in BOOLEAN, q.at = "end",
         q.kind = req[r].kind, q.app = req[r].app, q.shown = req[r].shown, q.won \in BOOLEAN,
         req[r].at # "end",
         Dropped(r), UNCHANGED data, ~Deleting(req[r]), req[r].at # "idle"
  PROVE  StatusInv'
<1>1. /\ ReqOK(r, req[r], apps, born, deploys, appLock, cut)
      /\ req[r].at # "end" \/ req[r].kind # Nil => req[r].app \in Apps
  BY ReqFacts
<1>2. ReqOK(r, q, apps, born, deploys, appLock', cut)
  BY <1>1 DEF ReqOK, Shows, Holds, Deleting, Writing, Deploying
<1>3. /\ appLock' = [a \in Apps |-> appLock'[a]]
      /\ \A a \in Apps : appLock[a] \in Reqs \ {r} => appLock'[a] = appLock[a]
  BY DEF Dropped, Unlocked
<1>4. UNCHANGED <<apps, born, deploys, states, cut, scene>>
  BY DEF data
<1> QED BY <1>2, <1>3, <1>4, ReqMoves

\* An app is registered or changed.
LEMMA PublishStep ==
  ASSUME StatusInv, NEW r \in Reqs, Publish(r)
  PROVE  StatusInv'
<1> DEFINE n == req[r].app
           q == [req[r] EXCEPT !.at = "end", !.code = 200, !.did = TRUE]
<1>0. /\ ReqOK(r, req[r], apps, born, deploys, appLock, cut) /\ req = [p \in Reqs |-> req[p]]
      /\ req[r] = [f \in ReqFields |-> req[r][f]] /\ appLock = [a \in Apps |-> appLock[a]]
      /\ req[r].kind \in {"create", "update"} /\ req[r].at = "publish"
  BY ReqFacts DEF Publish, At
<1>1. n \in Apps /\ AppOK(n) /\ Holds(req[r]) /\ appLock[n] = r
  BY <1>0, ReqFacts DEF ReqOK, Holds
<1>2. apps = [a \in Apps |-> apps[a]] /\ born = [a \in Apps |-> born[a]] /\ born[n] \in Nat
  BY <1>1 DEF StatusInv, AppsInv, AppOK
<1>3. /\ req[r].kind = "create" => apps[n] = 0 /\ born' = [born EXCEPT ![n] = @ + 1]
      /\ req[r].kind = "update" => apps[n] # 0 /\ born' = born
      /\ apps' = [apps EXCEPT ![n] = born'[n]] /\ UNCHANGED <<states, deploys, cut, scene>>
  <2>1. Writing(req[r], req[r].kind)
    BY <1>0 DEF Writing
  <2>2. (req[r].kind = "create" => apps[n] = 0) /\ (req[r].kind = "update" => apps[n] # 0)
    BY <1>0, <2>1 DEF ReqOK
  <2> QED BY <2>2 DEF Publish, A
<1>4. /\ apps'[n] = born'[n] /\ (req[r].kind = "create" => born'[n] = born[n] + 1)
      /\ req[r].kind = "update" => born'[n] = born[n]
      /\ \A a \in Apps : a # n => apps'[a] = apps[a] /\ born'[a] = born[a]
      /\ apps' = [a \in Apps |-> apps'[a]] /\ born' = [a \in Apps |-> born'[a]]
  BY <1>0, <1>1, <1>2, <1>3
<1>5. req' = [req EXCEPT ![r] = q]
  BY <1>0 DEF Publish, Answered, ReqFields
<1>6. ReqOK(r, q, apps', born', deploys', appLock', cut')
  BY <1>0, <1>3, ZenonT(40) DEF ReqOK, Shows, ReqFields, Holds, Deleting, Writing, Deploying
<1>7. /\ appLock' = [a \in Apps |-> appLock'[a]]
      /\ \A a \in Apps : appLock[a] \in Reqs \ {r} => appLock'[a] = appLock[a]
  BY DEF Publish, Dropped, Unlocked
<1> HIDE DEF q, n
<1>8. ReqsInv'
  <2>1. \A a \in Apps : appLock[a] \in Reqs \ {r} =>
           /\ appLock'[a] = appLock[a] /\ apps'[a] = apps[a]
           /\ born'[a] = born[a] /\ deploys'[a] = deploys[a]
    BY <1>1, <1>3, <1>4, <1>7
  <2>2. \A a \in Apps : born'[a] = born[a] \/ born'[a] = born[a] + 1
    BY <1>0, <1>4
  <2>3. cut \subseteq cut' /\ scene' = scene /\ \A a \in Apps : deploys'[a] = deploys[a]
    BY <1>3
  <2> QED BY <1>5, <1>6, <1>7, <2>1, <2>2, <2>3, OthersStay
<1>9. \A p \in Reqs : Deleting(req[p]) => p # r /\ req[p].app # n
  <2>1. ASSUME NEW p \in Reqs, Deleting(req[p])
        PROVE  p # r /\ req[p].app # n
    <3>1. p # r
      BY <1>0, <2>1 DEF Deleting
    <3>2. Holds(req[p])
      BY <2>1 DEF Deleting, Holds
    <3> QED BY <1>1, <2>1, <3>1, <3>2, OneHolder DEF n
  <2> QED BY <2>1
<1>10. ASSUME NEW a \in Apps
       PROVE  AppOK(a)'
  <2>1. AppOK(a)
    BY DEF StatusInv, AppsInv
  <2>2. \A p \in Reqs : p # r => req'[p] = req[p]
    BY <1>0, <1>5
  <2>3. CASE a # n
    <3>1. \/ apps[a] # 0 \/ states[a] = Nil \/ a \in cut
          \/ \E p \in Reqs : Deleting(req'[p]) /\ req'[p].app = a
      BY <1>9, <2>1, <2>2 DEF AppOK
    <3> QED BY <1>3, <1>4, <2>1, <2>3, <3>1 DEF AppOK, IsEntry, Deleting
  <2>4. CASE a = n /\ req[r].kind = "update"
    <3>1. apps[n] # 0 /\ apps[n] = born[n]
      BY <1>3, <2>1, <2>4 DEF AppOK
    <3> QED BY <1>3, <1>4, <2>1, <2>4, <3>1 DEF AppOK, IsEntry
  <2>5. CASE a = n /\ req[r].kind = "create"
    <3>1. states[n] = Nil \/ n \in cut
      BY <1>3, <1>9, <2>1, <2>5 DEF AppOK
    <3>2. born'[n] \in Nat /\ apps'[n] # 0
      BY <1>2, <1>4, <2>5
    <3> QED BY <1>3, <1>4, <2>1, <2>5, <3>1, <3>2 DEF AppOK, IsEntry
  <2> QED BY <1>0, <2>3, <2>4, <2>5
<1>11. AppsInv'
  <2>1. states' = [a \in Apps |-> states'[a]]
    BY <1>3 DEF StatusInv, AppsInv
  <2>2. deploys' = [a \in Apps |-> deploys'[a]]
    BY <1>3 DEF StatusInv, AppsInv
  <2> QED BY <1>4, <1>10, <2>1, <2>2 DEF AppsInv
<1> QED BY <1>8, <1>11 DEF StatusInv

\* An app leaves the apps map.
LEMMA DeleteRemoveStep ==
  ASSUME StatusInv, NEW r \in Reqs, DeleteRemove(r)
  PROVE  StatusInv'
<1> DEFINE n == req[r].app
           q == [req[r] EXCEPT !.at = "states", !.did = TRUE]
<1>0. /\ ReqOK(r, req[r], apps, born, deploys, appLock, cut) /\ req = [p \in Reqs |-> req[p]]
      /\ req[r] = [f \in ReqFields |-> req[r][f]] /\ appLock = [a \in Apps |-> appLock[a]]
      /\ req[r].kind = "delete" /\ req[r].at = "remove"
  BY ReqFacts DEF DeleteRemove, At
<1>1. CASE \E code : Answer(r, code) /\ UNCHANGED data
  <2>1. ~Deleting(req[r]) /\ req[r].app \in Apps
    BY <1>0, ReqFacts DEF Deleting
  <2> QED BY <1>1, <2>1, Returns
<1>2. CASE /\ apps[A(r)] # 0 /\ apps' = [apps EXCEPT ![A(r)] = 0]
           /\ req' = [To(r, "states") EXCEPT ![r].did = TRUE]
           /\ UNCHANGED <<born, deploys, states, up, cut, scene, appLock>>
  <2>1. n \in Apps /\ appLock[n] = r
    BY <1>0, ReqFacts DEF ReqOK, Holds
  <2>2. req' = [req EXCEPT ![r] = q]
    BY <1>0, <1>2 DEF To, ReqFields
  <2>3. apps = [a \in Apps |-> apps[a]] /\ born = [a \in Apps |-> born[a]]
    BY DEF StatusInv, AppsInv
  <2>4. /\ apps'[n] = 0 /\ apps' = [a \in Apps |-> apps'[a]]
        /\ \A a \in Apps : a # n => apps'[a] = apps[a]
    BY <1>2, <2>1, <2>3 DEF A
  <2>5. Deleting(q) /\ q.app = n
    BY <1>0 DEF Deleting, ReqFields
  <2>6. ReqOK(r, q, apps', born', deploys', appLock', cut')
    BY <1>0, <1>2, <2>1, <2>4 DEF ReqOK, Shows, ReqFields, Holds, Deleting, Writing, Deploying
  <2>7. ReqsInv'
    <3>1. appLock' = [a \in Apps |-> appLock'[a]] /\ \A a \in Apps : appLock'[a] = appLock[a]
      BY <1>0, <1>2
    <3>2. \A a \in Apps : appLock[a] \in Reqs \ {r} =>
             /\ appLock'[a] = appLock[a] /\ apps'[a] = apps[a]
             /\ born'[a] = born[a] /\ deploys'[a] = deploys[a]
      BY <1>2, <2>1, <2>4, <3>1
    <3>3. /\ cut \subseteq cut' /\ scene' = scene
          /\ \A a \in Apps : born'[a] = born[a] /\ deploys'[a] = deploys[a]
      BY <1>2
    <3> HIDE DEF q, n
    <3> QED BY <2>2, <2>6, <3>1, <3>2, <3>3, OthersStay
  <2>8. ASSUME NEW a \in Apps
        PROVE  AppOK(a)'
    <3>1. AppOK(a) /\ req'[r] = q /\ \A p \in Reqs : p # r => req'[p] = req[p]
      BY <1>0, <2>2 DEF StatusInv, AppsInv
    <3> HIDE DEF q, n
    <3>2. CASE a = n
      <4>1. \E p \in Reqs : Deleting(req'[p]) /\ req'[p].app = a
        BY <2>5, <3>1, <3>2
      <4> QED BY <1>2, <2>4, <3>1, <3>2, <4>1 DEF AppOK, IsEntry, Deleting
    <3>3. CASE a # n
      <4>1. \A p \in Reqs : Deleting(req[p]) => p # r
        BY <1>0 DEF Deleting
      <4>2. \/ apps[a] # 0 \/ states[a] = Nil \/ a \in cut
            \/ \E p \in Reqs : Deleting(req'[p]) /\ req'[p].app = a
        BY <3>1, <4>1 DEF AppOK
      <4> QED BY <1>2, <2>4, <3>1, <3>3, <4>2 DEF AppOK, IsEntry, Deleting
    <3> QED BY <3>2, <3>3
  <2>9. AppsInv'
    BY <1>2, <2>4, <2>8 DEF StatusInv, AppsInv
  <2> QED BY <2>7, <2>9 DEF StatusInv
<1> QED BY <1>1, <1>2 DEF DeleteRemove

\* The entry goes.
LEMMA DeleteForgetStep ==
  ASSUME StatusInv, NEW r \in Reqs, DeleteForget(r)
  PROVE  StatusInv'
<1>0. /\ ReqOK(r, req[r], apps, born, deploys, appLock, cut) /\ req = [p \in Reqs |-> req[p]]
      /\ req[r] = [f \in ReqFields |-> req[r][f]]
      /\ states = [a \in Apps |-> states[a]]
      /\ req[r].at = "forget" /\ req[r].app \in Apps
  BY ReqFacts DEF DeleteForget, At
<1>1. PICK code : Answer(r, code)
  BY DEF DeleteForget
<1> DEFINE q == [req[r] EXCEPT !.at = "end", !.code = code]
<1>2. req' = [req EXCEPT ![r] = q]
  BY <1>0, <1>1 DEF Answer, Answered, ReqFields
<1>3. UNCHANGED <<apps, born, deploys, cut, scene>> /\ states' = [states EXCEPT ![req[r].app] = Nil]
  BY DEF DeleteForget, A
<1>4. ReqOK(r, q, apps, born, deploys, appLock', cut')
  BY <1>0, <1>3 DEF ReqOK, Shows, ReqFields, Holds, Deleting, Writing, Deploying
<1>5. /\ appLock' = [a \in Apps |-> appLock'[a]]
      /\ \A a \in Apps : appLock[a] \in Reqs \ {r} => appLock'[a] = appLock[a]
  BY <1>1 DEF Answer, Dropped, Unlocked
<1>6. /\ states' = [a \in Apps |-> states'[a]] /\ states'[req[r].app] = Nil
      /\ \A a \in Apps : states'[a] = states[a] \/ states'[a] = Nil
  BY <1>0, <1>3
<1>7. cut \subseteq cut'
  BY <1>3
<1> HIDE DEF q
<1> QED BY <1>2, <1>3, <1>4, <1>5, <1>6, <1>7, Moves

\* The deploy task.
LEMMA TaskStep ==
  ASSUME StatusInv, NEW r \in Reqs, TaskApps(r) \/ TaskMark(r) \/ TaskWork(r) \/ TaskSwitch(r)
  PROVE  StatusInv'
<1> DEFINE n == req[r].app
<1>0. /\ ReqOK(r, req[r], apps, born, deploys, appLock, cut) /\ req = [p \in Reqs |-> req[p]]
      /\ req[r] = [f \in ReqFields |-> req[r][f]]
      /\ states = [a \in Apps |-> states[a]] /\ appLock = [a \in Apps |-> appLock[a]]
      /\ req[r].kind = "task" /\ req[r].at \in {"apps", "mark", "work", "switch"} /\ n \in Apps
  BY ReqFacts DEF TaskApps, TaskMark, TaskWork, TaskSwitch, Task, At
<1>1. UNCHANGED <<apps, born, deploys, cut, scene>> /\ ~Deleting(req[r]) /\ cut \subseteq cut'
  BY <1>0 DEF TaskApps, TaskMark, TaskWork, TaskSwitch, Deleting
<1>2. AppOK(n) /\ (states[n] = Nil \/ IsEntry(states[n]))
  BY <1>0 DEF StatusInv, AppsInv, AppOK
<1>3. /\ states' = [a \in Apps |-> states'[a]]
      /\ \A a \in Apps : \/ states'[a] = states[a]
                         \/ /\ IsEntry(states'[a])
                            /\ \/ states[a] # Nil /\ states'[a].inc = states[a].inc
                               \/ apps[a] # 0 /\ states'[a].inc = apps[a] /\ deploys[a] = apps[a]
  <2>1. CASE states' = states
    BY <1>0, <2>1
  <2>2. CASE states[n] # Nil /\ \E s : states' = [states EXCEPT ![n].status = s]
    <3>1. PICK s : states' = [states EXCEPT ![n].status = s]
      BY <2>2
    <3>2. states'[n] = [states[n] EXCEPT !.status = s]
      BY <1>0, <3>1
    <3>3. IsEntry(states'[n]) /\ states'[n].inc = states[n].inc
      BY <1>2, <2>2, <3>2 DEF IsEntry
    <3> QED BY <1>0, <2>2, <3>1, <3>3
  <2>3. CASE TaskSwitch(r)
    <3> DEFINE e == [inc |-> req[r].inc, status |-> "running"]
    <3>1. states' = [states EXCEPT ![n] = e]
      BY <2>3 DEF TaskSwitch, A
    <3>2. apps[n] # 0 /\ req[r].inc = apps[n] /\ deploys[n] = apps[n]
      <4>1. req[r].kind = "task" /\ Deploying(req[r]) /\ Holds(req[r])
        BY <2>3 DEF TaskSwitch, Task, At, Deploying, Holds
      <4> QED BY <1>0, <1>2, <4>1 DEF ReqOK, AppOK
    <3>3. IsEntry(e) /\ e.inc = req[r].inc
      BY DEF IsEntry
    <3> HIDE DEF e
    <3> QED BY <1>0, <3>1, <3>2, <3>3
  <2>4. CASE TaskApps(r) \/ TaskWork(r)
    BY <2>1, <2>2, <2>4 DEF TaskApps, TaskWork, SetFailed, A
  <2>5. CASE TaskMark(r)
    BY <2>1, <2>2, <2>5 DEF TaskMark, A
  <2> QED BY <2>3, <2>4, <2>5
<1>4. \E q : /\ req' = [req EXCEPT ![r] = q] /\ ReqOK(r, q, apps, born, deploys, appLock', cut')
             /\ appLock' = [a \in Apps |-> appLock'[a]]
             /\ \A a \in Apps : appLock[a] \in Reqs \ {r} => appLock'[a] = appLock[a]
  <2>1. CASE TaskEnd(r)
    <3> DEFINE q == [req[r] EXCEPT !.at = "end"]
    <3>1. req' = [req EXCEPT ![r] = q]
      BY <1>0, <2>1 DEF TaskEnd, To, ReqFields
    <3>2. ReqOK(r, q, apps, born, deploys, appLock', cut')
      BY <1>0, <1>1 DEF ReqOK, Shows, ReqFields, Holds, Deleting, Writing, Deploying
    <3>3. /\ appLock' = [a \in Apps |-> appLock'[a]]
          /\ \A a \in Apps : appLock[a] \in Reqs \ {r} => appLock'[a] = appLock[a]
      BY <2>1 DEF TaskEnd, Dropped, Unlocked
    <3> QED BY <3>1, <3>2, <3>3
  <2>2. CASE /\ TaskApps(r) /\ apps[A(r)] # 0 /\ UNCHANGED appLock
             /\ req' = [To(r, "mark") EXCEPT ![r].inc = apps[A(r)]]
    <3> DEFINE q == [req[r] EXCEPT !.at = "mark", !.inc = apps[n]]
    <3>1. req' = [req EXCEPT ![r] = q]
      BY <1>0, <2>2 DEF To, ReqFields, A
    <3>2. ReqOK(r, q, apps, born, deploys, appLock', cut')
      BY <1>0, <1>1, <2>2 DEF ReqOK, Shows, ReqFields, Holds, Deleting, Writing, Deploying, A
    <3>3. appLock' = [a \in Apps |-> appLock'[a]] /\ \A a \in Apps : appLock'[a] = appLock[a]
      BY <1>0, <2>2
    <3> QED BY <3>1, <3>2, <3>3
  <2>3. CASE /\ \/ TaskMark(r) /\ req' = To(r, "work")
                \/ TaskWork(r) /\ req' = To(r, "switch")
             /\ UNCHANGED appLock
    <3>1. PICK at \in {"work", "switch"} : req' = To(r, at)
      BY <2>3
    <3> DEFINE q == [req[r] EXCEPT !.at = at]
    <3>2. req' = [req EXCEPT ![r] = q]
      BY <1>0, <3>1 DEF To, ReqFields
    <3>3. req[r].at \in {"mark", "work"}
      BY <2>3 DEF TaskMark, TaskWork, Task, At
    <3>4. ReqOK(r, q, apps, born, deploys, appLock', cut')
      BY <1>0, <1>1, <2>3, <3>1, <3>3 DEF ReqOK, Shows, ReqFields, Holds, Deleting, Writing, Deploying
    <3>5. appLock' = [a \in Apps |-> appLock'[a]] /\ \A a \in Apps : appLock'[a] = appLock[a]
      BY <1>0, <2>3
    <3> QED BY <3>2, <3>4, <3>5
  <2>4. CASE TaskApps(r)
    BY <2>1, <2>2, <2>4 DEF TaskApps
  <2>5. CASE TaskMark(r) \/ TaskWork(r)
    BY <2>1, <2>3, <2>5 DEF TaskMark, TaskWork
  <2>6. CASE TaskSwitch(r)
    <3>1. PICK won \in BOOLEAN : req' = [To(r, "end") EXCEPT ![r].won = won]
      BY <2>6, Zenon DEF TaskSwitch
    <3>2. Dropped(r)
      BY <2>6 DEF TaskSwitch
    <3> DEFINE q == [req[r] EXCEPT !.at = "end", !.won = won]
    <3>3. req' = [req EXCEPT ![r] = q]
      BY <1>0, <3>1 DEF To, ReqFields
    <3>4. q.at = "end" /\ q.app = req[r].app /\ q.shown = req[r].shown /\ q.kind = "task"
      BY <1>0 DEF ReqFields
    <3>5. q = [f \in ReqFields |-> q[f]] /\ q.did = req[r].did
      BY <1>0 DEF ReqFields
    <3>6. q.won \in BOOLEAN
      BY <1>0, <3>1 DEF ReqFields
    <3> HIDE DEF q
    <3>7. ReqOK(r, q, apps, born, deploys, appLock', cut')
      BY <1>0, <1>1, <3>4, <3>5, <3>6 DEF ReqOK, Shows, Holds, Deleting, Writing, Deploying
    <3>8. /\ appLock' = [a \in Apps |-> appLock'[a]]
          /\ \A a \in Apps : appLock[a] \in Reqs \ {r} => appLock'[a] = appLock[a]
      BY <3>2 DEF Dropped, Unlocked
    <3> QED BY <3>3, <3>7, <3>8
  <2> QED BY <2>4, <2>5, <2>6
<1>5. PICK q : /\ req' = [req EXCEPT ![r] = q] /\ ReqOK(r, q, apps, born, deploys, appLock', cut')
               /\ appLock' = [a \in Apps |-> appLock'[a]]
               /\ \A a \in Apps : appLock[a] \in Reqs \ {r} => appLock'[a] = appLock[a]
  BY <1>4
<1> QED BY <1>1, <1>3, <1>5, Moves

-----------------------------------------------------------------------------
(* Requests that come and go.                                              *)

\* A handler that is dropped: a delete that is under way counts as cut short.
LEMMA HangUpStep ==
  ASSUME StatusInv, NEW r \in Reqs, HangUp(r)
  PROVE  StatusInv'
<1> DEFINE q == [req[r] EXCEPT !.at = "end", !.code = 0]
<1>0. /\ ReqOK(r, req[r], apps, born, deploys, appLock, cut) /\ req = [p \in Reqs |-> req[p]]
      /\ req[r] = [f \in ReqFields |-> req[r][f]]
      /\ states = [a \in Apps |-> states[a]]
  BY ReqFacts
<1>1. UNCHANGED <<apps, born, deploys, states, scene>> /\ cut \subseteq cut'
  BY DEF HangUp
<1>2. req' = [req EXCEPT ![r] = q]
  BY <1>0 DEF HangUp, ReqFields
<1>3. Deleting(req[r]) => req[r].app \in cut'
  <2>1. SUFFICES ASSUME Deleting(req[r]) PROVE req[r].app \in cut'
    OBVIOUS
  <2>2. req[r].did = TRUE /\ req[r].kind = "delete"
    BY <1>0, <2>1 DEF ReqOK, Deleting
  <2> QED BY <2>2 DEF HangUp, A
<1>4. ReqOK(r, q, apps, born, deploys, appLock', cut')
  BY <1>0, <1>1 DEF ReqOK, Shows, ReqFields, Holds, Deleting, Writing, Deploying
<1>5. /\ appLock' = [a \in Apps |-> appLock'[a]]
      /\ \A a \in Apps : appLock[a] \in Reqs \ {r} => appLock'[a] = appLock[a]
  BY DEF HangUp, Dropped, Unlocked
<1>6. states' = [a \in Apps |-> states'[a]] /\ \A a \in Apps : states'[a] = states[a]
  BY <1>0, <1>1
<1> HIDE DEF q
<1> QED BY <1>1, <1>2, <1>3, <1>4, <1>5, <1>6, Moves

\* A request whose record is written anew, while it holds nothing.
LEMMA Anew ==
  ASSUME StatusInv, NEW r \in Reqs, NEW q, q = [f \in ReqFields |-> q[f]], q.did \in BOOLEAN,
         q.won \in BOOLEAN, q.shown = {}, q.code = 0,
         req' = [req EXCEPT ![r] = q], UNCHANGED <<data, appLock>>, ~Deleting(req[r]),
         \/ q.at = "end" /\ q.kind = Nil
         \/ /\ q.app \in Apps /\ q.kind # "task"
            /\ q.kind = "appStatus" => q.at \notin {"states", "query"}
            /\ q.kind \in {"create", "update", "delete"} => q.at = "lock"
  PROVE  StatusInv'
<1>1. appLock = [b \in Apps |-> appLock[b]]
  BY ReqFacts
<1>2. ~Holds(q) /\ ~Deleting(q) /\ ~Writing(q, "create") /\ ~Writing(q, "update") /\ ~Deploying(q)
  BY DEF Holds, Deleting, Writing, Deploying
<1>3. Shows(q, born, deploys)
  BY DEF Shows
<1>4. ReqOK(r, q, apps, born, deploys, appLock', cut)
  BY <1>2, <1>3 DEF ReqOK
<1>5. appLock' = [b \in Apps |-> appLock'[b]] /\ \A b \in Apps : appLock'[b] = appLock[b]
  BY <1>1
<1>6. UNCHANGED <<apps, born, deploys, states, cut, scene>>
  BY DEF data
<1> QED BY <1>2, <1>4, <1>5, <1>6, ReqMoves

\* The requests that commands make.
Handlers == {"get", "status", "appStatus", "logs", "create", "update", "delete", "deploy",
             "rollback", "svcAdd", "svcRemove", "store"}

\* The request of each command.
LEMMA AsksWhat ==
  /\ DOMAIN Asks = {"list", "add", "edit", "remove", "daemon", "link", "status", "logs", "deploy",
                    "rollback", "newService", "rm"}
  /\ Asks.list = "get" /\ Asks.add = "create" /\ Asks.edit = "update" /\ Asks.remove = "delete"
  /\ Asks.daemon = "status" /\ Asks.link = "status" /\ Asks.status = "appStatus"
  /\ Asks.logs = "logs" /\ Asks.deploy = "deploy" /\ Asks.rollback = "rollback"
  /\ Asks.newService = "svcAdd" /\ Asks.rm = "svcRemove"
BY DEF Asks

\* At each of its steps a command makes one of these requests.
LEMMA RequestKinds ==
  ASSUME NEW c, NEW step
  PROVE  Request(c, step) \in Handlers
<1>1. Kind(c) \in Handlers
  <2>1. CASE c \in DOMAIN Asks
    <3>1. Kind(c) = Asks[c]
      BY <2>1 DEF Kind
    <3> QED BY <2>1, <3>1, AsksWhat DEF Handlers
  <2>2. CASE c \notin DOMAIN Asks
    BY <2>2 DEF Kind, Handlers
  <2> QED BY <2>1, <2>2
<1>2. Request(c, step) \in {"store", "get", "create", "update", Kind(c)}
  BY DEF Request
<1> QED BY <1>1, <1>2 DEF Handlers

\* A request is made: its handler is at its first step.
LEMMA SentStep ==
  ASSUME StatusInv, NEW r \in Reqs, NEW k \in Handlers \cup {"tick"}, NEW a \in Apps,
         req' = [req EXCEPT ![r] = [Idle EXCEPT !.kind = k, !.app = a, !.at = First(k)]],
         UNCHANGED <<data, appLock>>, ~Deleting(req[r])
  PROVE  StatusInv'
<1>1. /\ k = "appStatus" => First(k) = "apps"
      /\ k \in {"create", "update", "delete"} => First(k) = "lock"
      /\ k # "task"
  BY DEF First, Handlers
<1> DEFINE at == First(k)
           q == [Idle EXCEPT !.kind = k, !.app = a, !.at = at]
<1> HIDE DEF at
<1>2. q = [f \in ReqFields |-> q[f]]
  BY DEF Idle, ReqFields
<1>3. q.did = FALSE
  BY DEF Idle
<1>4. q.won = FALSE
  BY DEF Idle
<1>5. q.kind = k /\ q.app = a /\ q.at = First(k) /\ q.shown = {} /\ q.code = 0
  BY DEF Idle, at
<1>6. req' = [req EXCEPT ![r] = q]
  BY DEF at
<1> HIDE DEF q
<1>7. q.did \in BOOLEAN /\ q.won \in BOOLEAN
  BY <1>3, <1>4
<1> QED BY <1>1, <1>2, <1>5, <1>6, <1>7, Anew

\* A step that leaves all of slipd but its queues alone.
LEMMA StatusStutters ==
  ASSUME StatusInv, UNCHANGED <<apps, born, deploys, states, cut, scene, appLock, req>>
  PROVE  StatusInv'
<1>1. ReqsInv'
  <2>1. \A p \in Reqs : ReqOK(p, req'[p], apps', born', deploys', appLock', cut')
    BY DEF StatusInv, ReqsInv
  <2> QED BY <2>1 DEF StatusInv, ReqsInv, ReqOK, Shows
<1>2. AppsInv'
  BY DEF StatusInv, AppsInv, AppOK, IsEntry, Deleting
<1> QED BY <1>1, <1>2 DEF StatusInv

\* An answer that has been read, or that nobody waits for.
LEMMA ForgottenStep ==
  ASSUME StatusInv, NEW r \in Reqs, req' = Forgotten(r), UNCHANGED <<data, appLock>>
  PROVE  StatusInv'
<1>1. CASE Open(r)
  <2>1. UNCHANGED <<apps, born, deploys, states, cut, scene, appLock, req>>
    BY <1>1 DEF Forgotten, data
  <2> QED BY <2>1, StatusStutters
<1>2. CASE ~Open(r)
  <2>1. req' = [req EXCEPT ![r] = [Idle EXCEPT !.at = "end", !.did = req[r].did, !.won = req[r].won]]
    BY <1>2 DEF Forgotten
  <2>2. req[r].did \in BOOLEAN /\ req[r].won \in BOOLEAN /\ ~Deleting(req[r])
    BY <1>2, ReqFacts DEF ReqOK, Open, Deleting
  <2> DEFINE d == req[r].did
             w == req[r].won
             q == [Idle EXCEPT !.at = "end", !.did = d, !.won = w]
  <2>3. req' = [req EXCEPT ![r] = q] /\ d \in BOOLEAN /\ w \in BOOLEAN
    BY <2>1, <2>2
  <2> HIDE DEF d, w
  <2>4. q = [f \in ReqFields |-> q[f]]
    BY DEF Idle, ReqFields
  <2>5. q.did \in BOOLEAN
    BY <2>3 DEF Idle
  <2>6. q.won \in BOOLEAN
    BY <2>3 DEF Idle
  <2>7. q.at = "end" /\ q.shown = {} /\ q.kind = Nil /\ q.code = 0
    BY DEF Idle
  <2> HIDE DEF q
  <2> QED BY <2>2, <2>3, <2>4, <2>5, <2>6, <2>7, Anew
<1> QED BY <1>1, <1>2

-----------------------------------------------------------------------------
(* What a status answer shows.                                             *)

\* The provider's work ends a request.
LEMMA ProviderReturns ==
  ASSUME StatusInv, NEW r \in Reqs, Provider(r)
  PROVE  StatusInv'
<1>1. Dropped(r) /\ UNCHANGED data
  BY DEF Provider
<1>2. ~Deleting(req[r]) /\ req[r].at \notin {"idle", "end"}
  BY DEF Provider, At, Deleting
<1>3. PICK code \in {200, 409, 500}, did \in BOOLEAN :
        (code = 200 => did) /\ req' = [Answered(r, code) EXCEPT ![r].did = did]
  BY Zenon DEF Provider
<1>4. req' = [Answered(r, code) EXCEPT ![r].did = did]
  BY <1>3, Zenon
<1> DEFINE q == [req[r] EXCEPT !.at = "end", !.code = code, !.did = did]
<1>5. req = [p \in Reqs |-> req[p]] /\ req[r] = [f \in ReqFields |-> req[r][f]]
  BY ReqFacts
<1>6. req' = [req EXCEPT ![r] = q]
  BY <1>4, <1>5 DEF Answered, ReqFields
<1>7. /\ q = [f \in ReqFields |-> q[f]] /\ q.at = "end" /\ q.kind = req[r].kind
      /\ q.app = req[r].app /\ q.shown = req[r].shown
  BY <1>5 DEF ReqFields
<1>8. q.did \in BOOLEAN
  BY <1>5 DEF ReqFields
<1>9. q.won \in BOOLEAN
  BY <1>5, ReqFacts DEF ReqFields, ReqOK
<1> HIDE DEF q
<1> QED BY <1>1, <1>2, <1>6, <1>7, <1>8, <1>9, ProviderStep

\* The handlers of slipd.
LEMMA ServeStatus ==
  ASSUME StatusInv, NEW r \in Reqs, Serve(r)
  PROVE  StatusInv'
<1>1. CASE Wait(r)
  <2>1. UNCHANGED <<apps, born, deploys, states, cut, scene, appLock, req>>
    BY <1>1 DEF Wait
  <2> QED BY <2>1, StatusStutters
<1>2. CASE \/ StatusStates(r) \/ ReadApps(r) \/ LogsList(r) \/ LogsStates(r)
           \/ TickReads(r)
  BY <1>2, ReadStep
<1>3. CASE StatusApps(r) \/ AppStatusStates(r) \/ AppStatusQuery(r)
  BY <1>3, StatusAppsStep, AppStatusStep, AppStatusAnswers
<1>4. CASE LockApp(r) \/ Accept(r)
  BY <1>4, LockStep, AcceptStep
<1>5. CASE \/ CheckApp(r) \/ Lease(r) \/ BindService(r) \/ Provision(r) \/ PersistApp(r)
           \/ DeleteStates(r) \/ DeleteStop(r) \/ DeleteRoutes(r) \/ DeployApps(r)
           \/ RollbackTarget(r) \/ RemoveServiceLocks(r) \/ RemoveServiceUsage(r)
           \/ EnsureService(r)
  BY <1>5, QuietStep
<1>6. CASE Publish(r) \/ DeleteRemove(r) \/ DeleteForget(r)
  BY <1>6, PublishStep, DeleteRemoveStep, DeleteForgetStep
<1>7. CASE TaskApps(r) \/ TaskMark(r) \/ TaskWork(r) \/ TaskSwitch(r)
  BY <1>7, TaskStep
<1>8. CASE Provider(r)
  BY <1>8, ProviderReturns
<1>9. CASE Local(r)
  BY <1>2, <1>3, <1>4, <1>5, <1>6, <1>7, <1>8, <1>9 DEF Local
<1> QED BY <1>1, <1>5, <1>9 DEF Serve

\* A command, or the tick, makes its request.
LEMMA RequestStatus ==
  ASSUME StatusInv, NEW r \in Reqs, NEW s \in scene[r], Ticks(r, s[2]) \/ Run(r, s[1], s[2])
  PROVE  StatusInv'
<1>1. s[1] \in Commands \cup {"tick"} /\ s[2] \in Apps
  <2>1. scene \in Scenes
    BY DEF StatusInv, ReqsInv
  <2>2. scene[r] \subseteq (Commands \cup {"tick"}) \X Apps
    BY <2>1, CliAssumption
  <2> QED BY <2>2
<1>2. ASSUME NEW k \in Handlers \cup {"tick"}, Arrive(r, k, s[2])
      PROVE  StatusInv'
  <2>1. req[r].at = "idle" /\ UNCHANGED <<data, appLock>>
    BY <1>2 DEF Arrive
  <2>2. ~Deleting(req[r])
    BY <2>1 DEF Deleting
  <2>3. req' = [req EXCEPT ![r] = [Idle EXCEPT !.kind = k, !.app = s[2], !.at = First(k)]]
    BY <1>2 DEF Arrive
  <2> QED BY <1>1, <2>1, <2>2, <2>3, SentStep
<1>3. CASE Ticks(r, s[2])
  BY <1>2, <1>3 DEF Ticks
<1>4. CASE \E step : Arrive(r, Request(s[1], step), s[2])
  BY <1>2, <1>4, RequestKinds
<1>5. CASE UNCHANGED apiVars
  BY <1>5, StatusStutters DEF apiVars
<1> QED BY <1>3, <1>4, <1>5 DEF Run

\* The steps of the command line.
LEMMA CommandStatus ==
  ASSUME StatusInv, NEW r \in Reqs, Store(r) \/ Continue(r) \/ Receive(r) \/ Poll(r) \/ GiveUp(r)
  PROVE  StatusInv'
<1>1. CASE Store(r)
  <2>1. PICK code \in {200, 500, 502, 504} \cup Refused[cli[r].cmd], did \in BOOLEAN :
          /\ code = 200 => did = (cli[r].cmd \in Changing \ {"rm"})
          /\ code \in Refused[cli[r].cmd] \/ cli[r].cmd \notin Changing \ {"rm"} => ~did
          /\ req' = [Answered(r, code) EXCEPT ![r].did = did]
    BY <1>1, Zenon DEF Store
  <2>2. Dropped(r) /\ UNCHANGED data /\ ~Deleting(req[r]) /\ req[r].at \notin {"idle", "end"}
    BY <1>1 DEF Store, At, Deleting
  <2>3. req' = [Answered(r, code) EXCEPT ![r].did = did]
    BY <2>1, Zenon
  <2> DEFINE q == [req[r] EXCEPT !.at = "end", !.code = code, !.did = did]
  <2>4. req = [p \in Reqs |-> req[p]] /\ req[r] = [f \in ReqFields |-> req[r][f]]
    BY ReqFacts
  <2>5. req' = [req EXCEPT ![r] = q]
    BY <2>3, <2>4 DEF Answered, ReqFields
  <2>6. /\ q = [f \in ReqFields |-> q[f]] /\ q.at = "end" /\ q.kind = req[r].kind
        /\ q.app = req[r].app /\ q.shown = req[r].shown
    BY <2>4 DEF ReqFields
  <2>7. q.did \in BOOLEAN
    BY <2>4 DEF ReqFields
  <2>8. q.won \in BOOLEAN
    BY <2>4, ReqFacts DEF ReqFields, ReqOK
  <2> HIDE DEF q
  <2> QED BY <2>2, <2>5, <2>6, <2>7, <2>8, ProviderStep
<1>2. CASE Continue(r)
  <2>1. req[r].code # 0 /\ UNCHANGED <<data, appLock>>
    BY <1>2 DEF Continue
  <2>2. A(r) \in Apps /\ ~Deleting(req[r])
    BY <2>1, ReqFacts DEF ReqOK, Deleting, A
  <2>3. CASE \E step : Sends(r, Request(cli[r].cmd, step))
    <3>1. PICK step : Sends(r, Request(cli[r].cmd, step))
      BY <2>3
    <3> DEFINE k == Request(cli[r].cmd, step)
    <3>2. k \in Handlers
      BY RequestKinds
    <3>3. req' = [req EXCEPT ![r] = [Idle EXCEPT !.kind = k, !.app = A(r), !.at = First(k)]]
      BY <3>1 DEF Sends
    <3> HIDE DEF k
    <3> QED BY <2>1, <2>2, <3>2, <3>3, SentStep
  <2>4. CASE UNCHANGED req
    <3>1. UNCHANGED <<apps, born, deploys, states, cut, scene, appLock, req>>
      BY <2>1, <2>4 DEF data
    <3> QED BY <3>1, StatusStutters
  <2> QED BY <1>2, <2>3, <2>4 DEF Continue
<1>3. CASE req' = Forgotten(r) /\ UNCHANGED <<data, appLock>>
  BY <1>3, ForgottenStep
<1>4. CASE HangUp(r)
  BY <1>4, HangUpStep
<1> QED BY <1>1, <1>2, <1>3, <1>4 DEF Receive, Poll, GiveUp

\* Every step keeps the invariant.
LEMMA NextStatus ==
  ASSUME StatusInv, [Next]_vars
  PROVE  StatusInv'
<1>1. CASE Next
  BY <1>1, ServeStatus, RequestStatus, CommandStatus DEF Next
<1>2. CASE UNCHANGED vars
  BY <1>2, StatusStutters DEF vars, apiVars
<1> QED BY <1>1, <1>2

\* The initial state.
LEMMA InitStatus ==
  ASSUME CliInit
  PROVE  StatusInv
<1>1. \A r \in Reqs : ReqOK(r, Idle, apps, born, deploys, appLock, cut)
  <2>1. Idle = [f \in ReqFields |-> Idle[f]]
    BY DEF Idle, ReqFields
  <2>2. Idle.did = FALSE
    BY DEF Idle
  <2>3. Idle.won = FALSE
    BY DEF Idle
  <2>4. Idle.kind = Nil /\ Idle.at = "idle" /\ Idle.shown = {} /\ Idle.code = 0
    BY DEF Idle
  <2> QED BY <2>1, <2>2, <2>3, <2>4 DEF ReqOK, Shows, Holds, Deleting, Writing, Deploying
<1>2. ReqsInv
  BY <1>1 DEF CliInit, ApiInit, ReqsInv
<1>3. AppsInv
  BY DEF CliInit, ApiInit, AppsInv, AppOK, IsEntry
<1> QED BY <1>2, <1>3 DEF StatusInv

\* No status answer shows an app as running or failed with what an earlier app of that
\* name left behind, unless the client of that one's delete hung up, nor beside an entry a
\* last deploy from before it, whatever requests, deploys and ticks meet: the app lock keeps
\* a name from being taken again before the entry of the last app of that name is gone,
\* and although the cache of last deploys is never cleared, the deploy that writes a new
\* entry has written the cache first.
THEOREM StatusShowsThisApp == Spec => []StatusIsOfThisApp
<1>1. StatusInv => StatusIsOfThisApp
  BY DEF StatusInv, ReqsInv, ReqOK, StatusIsOfThisApp
<1>2. CliInit => StatusInv
  BY InitStatus
<1>3. StatusInv /\ [Next]_vars => StatusInv'
  BY NextStatus
<1> QED BY <1>1, <1>2, <1>3, PTL DEF Spec

-----------------------------------------------------------------------------
(* What an exit code says.                                                 *)

\* The statuses that some command takes for a usage, auth or not-found error.
Refusals == {400, 401, 403, 404}

\* The requests that change nothing.
Reads == {"get", "status", "appStatus", "logs"}

\* The commands main knows, and a request's command before and without one.
Known == Commands \cup {"tick", Nil}

CliFields == {"cmd", "step", "exit", "told"}

\* The steps of an apply, and of these the ones that only look.
Applies == {"look", "make", "again", "change"}
Looks == {"look", "again"}

\* The exit codes that deny an effect, and the ones an error of slipd's is given.
Denials == {USAGE, AUTH, NOT_FOUND, DRY_RUN_FAILURE}
Errors == {GENERIC, USAGE, AUTH, NOT_FOUND}

\* The answer q that command c gets, or has got: a success had its effect or was only to
\* look, a refusal had none, what is waited for was accepted, and an exit code stands for
\* one of these.
ExitOK(c, q) ==
  /\ c = [f \in CliFields |-> c[f]]
  /\ c.cmd \in Known
  /\ c.cmd = Nil => q.at = "idle" /\ c.exit = Nil
  /\ c.cmd = "apply" => c.step \in Applies
  /\ q.at = "idle" => q.did = FALSE /\ q.kind = Nil
  /\ c.exit # Nil => q.at \in {"idle", "end"} \/ q.kind = "task"
  /\ q.kind = "task" => q.did = TRUE /\ q.code = 202
  /\ q.at # "end" /\ q.did = TRUE => q.kind = "task" \/ Deleting(q)
  /\ q.kind \in Reads => c.cmd \notin Changing \/ c.step \in Looks
  /\ q.kind = "store" => /\ c.cmd \in DOMAIN Refused /\ q.code # 202
                         /\ c.cmd = "rm" => c.step \in Looks
  /\ q.code \in {200, 202} /\ c.cmd \in Changing /\ c.step \notin Looks => q.did = TRUE
  /\ q.code \in Refusals => q.did = FALSE
  /\ c.step = "wait" => q.did = TRUE /\ (q.kind = "task" \/ q.at = "end")
  /\ c.exit = OK /\ c.cmd \in Changing => q.did = TRUE \/ c.told = TRUE
  /\ c.exit = OK /\ c.step = "wait" => q.won = TRUE /\ q.at = "end"
  /\ c.exit \in Denials /\ c.step # "wait" => q.did = FALSE
  /\ c.exit \in {DEPLOY_FAILED, TIMEOUT} => c.step = "wait"

ExitInv ==
  /\ cli = [r \in Reqs |-> cli[r]]
  /\ \A r \in Reqs : ExitOK(cli[r], req[r])

\* No two exit codes are the same, and none is Nil.
LEMMA ExitCodes ==
  /\ OK \notin Denials \cup Errors \cup {DEPLOY_FAILED, TIMEOUT, Nil}
  /\ Errors \cap {DEPLOY_FAILED, TIMEOUT, DRY_RUN_FAILURE, Nil} = {}
  /\ Denials \cap {GENERIC, DEPLOY_FAILED, TIMEOUT, Nil} = {}
  /\ Nil \notin {DEPLOY_FAILED, TIMEOUT} /\ DRY_RUN_FAILURE \in Denials
BY CliAssumption DEF Denials, Errors, OK, GENERIC, USAGE, AUTH, NOT_FOUND, DEPLOY_FAILED, TIMEOUT,
   DRY_RUN_FAILURE

\* Nil is no kind of request and no command.
LEMMA NilIsNothing ==
  Nil \notin Handlers \cup {"task", "tick", "wait"} \cup Commands
<1>1. Nil \notin Commands \cup {"tick", "task", "store", "wait"} \cup {Asks[c] : c \in DOMAIN Asks}
  BY CliAssumption
<1>2. Handlers \ {"store"} \subseteq {Asks[c] : c \in DOMAIN Asks}
  BY AsksWhat DEF Handlers
<1> QED BY <1>1, <1>2

\* A step of request r and of its command.
LEMMA ExitMoves ==
  ASSUME StatusInv, ExitInv, NEW r \in Reqs, NEW q, NEW c,
         req' = [req EXCEPT ![r] = q], cli' = [cli EXCEPT ![r] = c], ExitOK(c, q)
  PROVE  ExitInv'
<1>1. req = [p \in Reqs |-> req[p]] /\ cli = [p \in Reqs |-> cli[p]]
  BY ReqFacts DEF ExitInv
<1>2. /\ cli' = [p \in Reqs |-> cli'[p]] /\ cli'[r] = c /\ req'[r] = q
      /\ \A p \in Reqs : p # r => cli'[p] = cli[p] /\ req'[p] = req[p]
  BY <1>1
<1>3. \A p \in Reqs : ExitOK(cli'[p], req'[p])
  BY <1>2 DEF ExitInv
<1> QED BY <1>2, <1>3 DEF ExitInv, ExitOK, Deleting

\* A handler that goes on.
LEMMA ExitGoesOn ==
  ASSUME StatusInv, ExitInv, NEW r \in Reqs, NEW q, req' = [req EXCEPT ![r] = q], cli' = cli,
         req[r].at \notin {"idle", "end"}, q.kind = req[r].kind, q.code = req[r].code,
         q.did = req[r].did, q.at # "idle", q.at = "end" => q.kind = "task",
         Deleting(req[r]) => Deleting(q)
  PROVE  ExitInv'
<1>1. ExitOK(cli[r], req[r]) /\ cli = [p \in Reqs |-> cli[p]]
  BY DEF ExitInv
<1>2. req[r].did \in BOOLEAN
  BY ReqFacts DEF ReqOK
<1>3. ExitOK(cli[r], q)
  BY <1>1, <1>2 DEF ExitOK
<1>4. cli' = [cli EXCEPT ![r] = cli[r]]
  BY <1>1
<1> QED BY <1>3, <1>4, ExitMoves

\* A handler that returns.
LEMMA ExitEnds ==
  ASSUME StatusInv, ExitInv, NEW r \in Reqs, NEW q, req' = [req EXCEPT ![r] = q], cli' = cli,
         req[r].at \notin {"idle", "end"}, q.kind = req[r].kind, req[r].kind # "task",
         q.at = "end", q.did \in BOOLEAN,
         q.code \in Refusals => q.did = FALSE,
         q.code \in {200, 202} => \/ q.did = TRUE \/ q.kind \in Reads
                                  \/ cli[r].cmd \notin Changing \/ cli[r].step \in Looks,
         q.kind = "store" => q.code # 202
  PROVE  ExitInv'
<1>1. ExitOK(cli[r], req[r]) /\ cli = [p \in Reqs |-> cli[p]]
  BY DEF ExitInv
<1>2. cli[r].exit = Nil /\ cli[r].cmd # Nil /\ cli[r].step # "wait"
  BY <1>1 DEF ExitOK
<1>3. ExitOK(cli[r], q)
  <2>1. /\ cli[r] = [f \in CliFields |-> cli[r][f]] /\ cli[r].cmd \in Known
        /\ cli[r].cmd = "apply" => cli[r].step \in Applies
        /\ q.kind \in Reads => cli[r].cmd \notin Changing \/ cli[r].step \in Looks
        /\ q.kind = "store" => /\ cli[r].cmd \in DOMAIN Refused
                               /\ cli[r].cmd = "rm" => cli[r].step \in Looks
    BY <1>1 DEF ExitOK
  <2> QED BY <1>2, <2>1, ExitCodes DEF ExitOK
<1>4. cli' = [cli EXCEPT ![r] = cli[r]]
  BY <1>1
<1> QED BY <1>3, <1>4, ExitMoves

\* A handler that answers, before it has done anything.
LEMMA ExitAnswer ==
  ASSUME StatusInv, ExitInv, NEW r \in Reqs, NEW code, Answer(r, code), cli' = cli,
         req[r].at \notin {"idle", "end"}, req[r].kind \notin {"task", "store"}, ~Deleting(req[r]),
         code \in {200, 202} => req[r].kind \in Reads
  PROVE  ExitInv'
<1> DEFINE q == [req[r] EXCEPT !.at = "end", !.code = code]
<1>1. /\ req = [p \in Reqs |-> req[p]] /\ req[r] = [f \in ReqFields |-> req[r][f]]
      /\ ExitOK(cli[r], req[r])
  BY ReqFacts DEF ExitInv
<1>2. req' = [req EXCEPT ![r] = q]
  BY <1>1 DEF Answer, Answered, ReqFields
<1>3. q.at = "end" /\ q.kind = req[r].kind /\ q.code = code
  BY <1>1 DEF ReqFields
<1>4. req[r].did \in BOOLEAN /\ req[r].did # TRUE
  BY <1>1, ReqFacts DEF ReqOK, ExitOK
<1>5. req[r].did = FALSE
  BY <1>4
<1>6. q.did = FALSE
  BY <1>1, <1>5 DEF ReqFields
<1> HIDE DEF q
<1> QED BY <1>2, <1>3, <1>6, ExitEnds

\* A handler that goes on to its next step.
LEMMA ExitTo ==
  ASSUME StatusInv, ExitInv, NEW r \in Reqs, NEW at, req' = To(r, at), cli' = cli,
         req[r].at \notin {"idle", "end"}, at # "idle", at = "end" => req[r].kind = "task",
         Deleting(req[r]) => at \in {"states", "stop", "count", "routes", "forget"}
  PROVE  ExitInv'
<1> DEFINE q == [req[r] EXCEPT !.at = at]
<1>1. req = [p \in Reqs |-> req[p]] /\ req[r] = [f \in ReqFields |-> req[r][f]]
  BY ReqFacts
<1>2. req' = [req EXCEPT ![r] = q]
  BY <1>1 DEF To, ReqFields
<1>3. q.at = at /\ q.kind = req[r].kind /\ q.code = req[r].code /\ q.did = req[r].did
  BY <1>1 DEF ReqFields
<1>4. Deleting(req[r]) => Deleting(q)
  BY <1>3 DEF Deleting
<1> HIDE DEF q
<1> QED BY <1>2, <1>3, <1>4, ExitGoesOn

\* The handlers that only read.
LEMMA ExitReads ==
  ASSUME StatusInv, ExitInv, cli' = cli, NEW r \in Reqs,
         \/ StatusStates(r) \/ StatusApps(r) \/ ReadApps(r) \/ AppStatusStates(r)
         \/ AppStatusQuery(r) \/ LogsList(r) \/ LogsStates(r) \/ TickReads(r)
  PROVE  ExitInv'
<1>0. /\ req = [p \in Reqs |-> req[p]] /\ req[r] = [f \in ReqFields |-> req[r][f]]
      /\ ExitOK(cli[r], req[r])
  BY ReqFacts DEF ExitInv
<1>1. /\ req[r].kind \in Reads \cup {"tick"} /\ ~Deleting(req[r])
      /\ req[r].at \in {"states", "apps", "query", "list"}
  BY DEF StatusStates, StatusApps, ReadApps, AppStatusStates, AppStatusQuery, LogsList, LogsStates,
       TickReads, At, Deleting, Reads
<1>2. req[r].kind \notin {"task", "store"} /\ req[r].at \notin {"idle", "end"}
  BY <1>1 DEF Reads
<1>3. ASSUME NEW code, Answer(r, code), req[r].kind \in Reads
      PROVE  ExitInv'
  BY <1>1, <1>2, <1>3, ExitAnswer
<1>4. ASSUME NEW at, req' = To(r, at), at \notin {"idle", "end"}
      PROVE  ExitInv'
  BY <1>1, <1>2, <1>4, ExitTo
<1>5. CASE StatusStates(r) \/ TickReads(r)
  BY <1>4, <1>5 DEF StatusStates, TickReads
<1>6. CASE LogsList(r) \/ LogsStates(r)
  <2>1. req[r].kind \in Reads
    BY <1>6 DEF LogsList, LogsStates, At, Reads
  <2> QED BY <1>3, <1>4, <1>6, <2>1 DEF LogsList, LogsStates
<1>7. CASE ReadApps(r)
  <2>1. req[r].kind \in Reads
    BY <1>7 DEF ReadApps, At, Reads
  <2>2. CASE req' = [req EXCEPT ![r].at = IF req[r].kind = "logs" THEN "list" ELSE "states",
                                ![r].inc = apps[A(r)]]
    <3> DEFINE at == IF req[r].kind = "logs" THEN "list" ELSE "states"
               q == [req[r] EXCEPT !.at = at, !.inc = apps[A(r)]]
    <3>1. at \in {"list", "states"}
      OBVIOUS
    <3>2. req' = [req EXCEPT ![r] = q]
      BY <1>0, <2>2 DEF ReqFields
    <3> HIDE DEF at
    <3>3. q.at = at /\ q.kind = req[r].kind /\ q.code = req[r].code /\ q.did = req[r].did
      BY <1>0 DEF ReqFields
    <3> HIDE DEF q
    <3> QED BY <1>1, <1>2, <3>1, <3>2, <3>3, ExitGoesOn
  <2> QED BY <1>3, <1>7, <2>1, <2>2 DEF ReadApps
<1>8. CASE AppStatusStates(r)
  <2>1. PICK S : req' = [req EXCEPT ![r].at = "query", ![r].shown = S]
    BY <1>8 DEF AppStatusStates
  <2> DEFINE q == [req[r] EXCEPT !.at = "query", !.shown = S]
  <2>2. req' = [req EXCEPT ![r] = q]
    BY <1>0, <2>1 DEF ReqFields
  <2>3. q.at = "query" /\ q.kind = req[r].kind /\ q.code = req[r].code /\ q.did = req[r].did
    BY <1>0 DEF ReqFields
  <2> HIDE DEF q
  <2> QED BY <1>1, <1>2, <2>2, <2>3, ExitGoesOn
<1>9. CASE StatusApps(r) \/ AppStatusQuery(r)
  <2>0. CASE Answer(r, 500)
    <3>1. req[r].kind \in Reads
      BY <1>9 DEF StatusApps, AppStatusQuery, At, Reads
    <3> QED BY <1>3, <2>0, <3>1
  <2>1. CASE \E S : req' = [Answered(r, 200) EXCEPT ![r].shown = S]
    <3>0. PICK S : req' = [Answered(r, 200) EXCEPT ![r].shown = S]
      BY <2>1
    <3> DEFINE q == [req[r] EXCEPT !.at = "end", !.code = 200, !.shown = S]
    <3>1. req' = [req EXCEPT ![r] = q]
      BY <1>0, <3>0 DEF Answered, ReqFields
    <3>2. q.at = "end" /\ q.kind = req[r].kind /\ q.code = 200 /\ q.did = req[r].did
      BY <1>0 DEF ReqFields
    <3>3. req[r].did \in BOOLEAN /\ req[r].kind \in Reads
      BY <1>9, ReqFacts DEF ReqOK, StatusApps, AppStatusQuery, At, Reads
    <3>4. q.did \in BOOLEAN /\ q.code \notin Refusals
      BY <3>2, <3>3 DEF Refusals
    <3> HIDE DEF q
    <3> QED BY <1>2, <3>1, <3>2, <3>3, <3>4, ExitEnds
  <2> QED BY <1>9, <2>0, <2>1 DEF StatusApps, AppStatusQuery
<1> QED BY <1>5, <1>6, <1>7, <1>8, <1>9

\* The other handlers, at the steps that refuse or go on.
LEMMA ExitQuiet ==
  ASSUME StatusInv, ExitInv, cli' = cli, NEW r \in Reqs,
         \/ LockApp(r) \/ CheckApp(r) \/ Lease(r) \/ BindService(r) \/ Provision(r) \/ PersistApp(r)
         \/ DeleteStates(r) \/ DeleteStop(r) \/ DeleteRoutes(r) \/ DeployApps(r)
         \/ RollbackTarget(r) \/ RemoveServiceLocks(r) \/ RemoveServiceUsage(r)
         \/ EnsureService(r)
  PROVE  ExitInv'
<1>1. req[r].kind \notin {"task", "store"} /\ req[r].at \notin {"idle", "end"}
  BY DEF LockApp, CheckApp, Lease, BindService, Provision, PersistApp, DeleteStates, DeleteStop,
       DeleteRoutes, DeployApps, RollbackTarget, RemoveServiceLocks, RemoveServiceUsage,
       EnsureService, At
<1>2. ASSUME NEW code, Answer(r, code), ~Deleting(req[r]), code \notin {200, 202}
      PROVE  ExitInv'
  BY <1>1, <1>2, ExitAnswer
<1>3. ASSUME NEW at, req' = To(r, at), at \notin {"idle", "end"}, ~Deleting(req[r])
      PROVE  ExitInv'
  BY <1>1, <1>3, ExitTo
<1>4. CASE DeleteStates(r) \/ DeleteStop(r) \/ DeleteRoutes(r)
  <2>1. \E at \in {"stop", "count", "routes", "forget"} : req' = To(r, at)
    BY <1>4 DEF DeleteStates, DeleteStop, DeleteRoutes
  <2>2. PICK at \in {"stop", "count", "routes", "forget"} : req' = To(r, at)
    BY <2>1
  <2> QED BY <1>1, <2>2, ExitTo
<1>5. CASE LockApp(r)
  <2>1. ~Deleting(req[r])
    BY <1>5 DEF LockApp, At, Deleting
  <2>2. CASE Answer(r, 409)
    BY <1>2, <2>1, <2>2
  <2>3. CASE req' = To(r, IF req[r].kind = "delete" THEN "remove" ELSE "apps")
    BY <1>3, <2>1, <2>3
  <2> QED BY <1>5, <2>2, <2>3 DEF LockApp
<1>6. CASE CheckApp(r) \/ Lease(r) \/ BindService(r) \/ Provision(r) \/ PersistApp(r)
  <2>1. ~Deleting(req[r])
    BY <1>6 DEF CheckApp, Lease, BindService, Provision, PersistApp, At, Deleting
  <2>2. \/ \E code \in {400, 404, 409, 500} : Answer(r, code)
        \/ \E at \in {"lease", "service", "provision", "persist", "publish"} : req' = To(r, at)
    BY <1>6 DEF CheckApp, Lease, BindService, Provision, PersistApp
  <2> QED BY <1>2, <1>3, <2>1, <2>2
<1>7. CASE \/ DeployApps(r) \/ RollbackTarget(r)
           \/ RemoveServiceLocks(r) \/ RemoveServiceUsage(r) \/ EnsureService(r)
  <2>1. ~Deleting(req[r])
    BY <1>7 DEF DeployApps, RollbackTarget, RemoveServiceLocks, RemoveServiceUsage,
         EnsureService, At, Deleting
  <2>2. \/ \E code \in {400, 401, 404, 409, 500, 503} : Answer(r, code)
        \/ \E at \in {"trylock", "count", "previous", "service", "usage", "provider"} : req' = To(r, at)
    BY <1>7 DEF DeployApps, RollbackTarget, RemoveServiceLocks, RemoveServiceUsage, EnsureService
  <2> QED BY <1>2, <1>3, <2>1, <2>2
<1> QED BY <1>4, <1>5, <1>6, <1>7

\* The steps that have an effect.
LEMMA ExitEffects ==
  ASSUME StatusInv, ExitInv, cli' = cli, NEW r \in Reqs,
         Publish(r) \/ DeleteRemove(r) \/ DeleteForget(r) \/ Accept(r)
  PROVE  ExitInv'
<1>0. /\ req = [p \in Reqs |-> req[p]] /\ req[r] = [f \in ReqFields |-> req[r][f]]
      /\ ExitOK(cli[r], req[r]) /\ cli = [p \in Reqs |-> cli[p]]
  BY ReqFacts DEF ExitInv
<1>1. req[r].kind \notin {"task", "store"} /\ req[r].at \notin {"idle", "end"}
  BY DEF Publish, DeleteRemove, DeleteForget, Accept, At
<1>2. CASE Publish(r)
  <2> DEFINE q == [req[r] EXCEPT !.at = "end", !.code = 200, !.did = TRUE]
  <2>1. req' = [req EXCEPT ![r] = q]
    BY <1>0, <1>2 DEF Publish, Answered, ReqFields
  <2>2. q.at = "end" /\ q.kind = req[r].kind /\ q.code = 200
    BY <1>0 DEF ReqFields
  <2>3. q.did = TRUE
    BY <1>0 DEF ReqFields
  <2>4. q.code \notin Refusals
    BY <2>2 DEF Refusals
  <2> HIDE DEF q
  <2> QED BY <1>1, <2>1, <2>2, <2>3, <2>4, ExitEnds
<1>3. CASE DeleteForget(r)
  <2>1. PICK code \in {200, 500} : Answer(r, code)
    BY <1>3 DEF DeleteForget
  <2> DEFINE q == [req[r] EXCEPT !.at = "end", !.code = code]
  <2>2. req' = [req EXCEPT ![r] = q]
    BY <1>0, <2>1 DEF Answer, Answered, ReqFields
  <2>3. q.at = "end" /\ q.kind = req[r].kind /\ q.code = code
    BY <1>0 DEF ReqFields
  <2>4. Deleting(req[r])
    BY <1>3 DEF DeleteForget, At, Deleting
  <2>5. req[r].did = TRUE
    BY <2>4, ReqFacts DEF ReqOK
  <2>6. q.did = TRUE
    BY <1>0, <2>5 DEF ReqFields
  <2>7. q.code \notin Refusals
    BY <2>1, <2>3 DEF Refusals
  <2> HIDE DEF q
  <2> QED BY <1>1, <2>2, <2>3, <2>6, <2>7, ExitEnds
<1>4. CASE DeleteRemove(r)
  <2>1. ~Deleting(req[r]) /\ req[r].kind = "delete"
    BY <1>4 DEF DeleteRemove, At, Deleting
  <2>2. CASE Answer(r, 404)
    BY <1>1, <2>1, <2>2, ExitAnswer
  <2>3. CASE req' = [To(r, "states") EXCEPT ![r].did = TRUE]
    <3> DEFINE q == [req[r] EXCEPT !.at = "states", !.did = TRUE]
    <3>1. req' = [req EXCEPT ![r] = q]
      BY <1>0, <2>3 DEF To, ReqFields
    <3>2. q.at = "states" /\ q.kind = "delete" /\ q.code = req[r].code
      BY <1>0, <2>1 DEF ReqFields
    <3>3. q.did = TRUE
      BY <1>0 DEF ReqFields
    <3> HIDE DEF q
    <3>4. Deleting(q)
      BY <3>2 DEF Deleting
    <3>5. q.code = 0 /\ cli[r].exit = Nil /\ cli[r].cmd # Nil /\ cli[r].step # "wait"
      BY <1>0, <1>1, <3>2, ReqFacts DEF ExitOK, ReqOK
    <3>6. ExitOK(cli[r], q)
      <4>1. /\ cli[r] = [f \in CliFields |-> cli[r][f]] /\ cli[r].cmd \in Known
            /\ cli[r].cmd = "apply" => cli[r].step \in Applies
        BY <1>0 DEF ExitOK
      <4> QED BY <3>2, <3>3, <3>4, <3>5, <4>1, ExitCodes DEF ExitOK, Reads, Refusals
    <3>7. cli' = [cli EXCEPT ![r] = cli[r]]
      BY <1>0
    <3> QED BY <3>1, <3>6, <3>7, ExitMoves
  <2> QED BY <1>4, <2>2, <2>3 DEF DeleteRemove
<1>5. CASE Accept(r)
  <2>1. ~Deleting(req[r])
    BY <1>5 DEF Accept, At, Deleting
  <2>2. CASE Answer(r, 409)
    BY <1>1, <2>1, <2>2, ExitAnswer
  <2>3. CASE req' = [req EXCEPT ![r].kind = "task", ![r].at = "apps",
                                ![r].code = 202, ![r].did = TRUE]
    <3> DEFINE q == [req[r] EXCEPT !.kind = "task", !.at = "apps", !.code = 202, !.did = TRUE]
    <3>1. req' = [req EXCEPT ![r] = q]
      BY <1>0, <2>3 DEF ReqFields
    <3>2. q.at = "apps" /\ q.kind = "task" /\ q.code = 202
      BY <1>0 DEF ReqFields
    <3>3. q.did = TRUE
      BY <1>0 DEF ReqFields
    <3> HIDE DEF q
    <3>4. cli[r].exit = Nil /\ cli[r].cmd # Nil
      BY <1>0, <1>1 DEF ExitOK
    <3>5. ExitOK(cli[r], q)
      <4>1. /\ cli[r] = [f \in CliFields |-> cli[r][f]] /\ cli[r].cmd \in Known
            /\ cli[r].cmd = "apply" => cli[r].step \in Applies
        BY <1>0 DEF ExitOK
      <4> QED BY <3>2, <3>3, <3>4, <4>1, ExitCodes DEF ExitOK, Reads, Refusals
    <3>6. cli' = [cli EXCEPT ![r] = cli[r]]
      BY <1>0
    <3> QED BY <3>1, <3>5, <3>6, ExitMoves
  <2> QED BY <1>5, <2>2, <2>3 DEF Accept
<1> QED BY <1>2, <1>3, <1>4, <1>5

\* The deploy task, of which the command has heard.
LEMMA ExitTask ==
  ASSUME StatusInv, ExitInv, cli' = cli, NEW r \in Reqs,
         TaskApps(r) \/ TaskMark(r) \/ TaskWork(r) \/ TaskSwitch(r)
  PROVE  ExitInv'
<1>0. /\ req = [p \in Reqs |-> req[p]] /\ req[r] = [f \in ReqFields |-> req[r][f]]
  BY ReqFacts
<1>1. req[r].kind = "task" /\ req[r].at \notin {"idle", "end"}
  BY DEF TaskApps, TaskMark, TaskWork, TaskSwitch, Task, At
<1>2. ~Deleting(req[r])
  BY <1>1 DEF Deleting
<1>3. ASSUME NEW at \in {"work", "switch", "end"}, req' = To(r, at)
      PROVE  ExitInv'
  BY <1>1, <1>2, <1>3, ExitTo
<1>4. CASE req' = [To(r, "mark") EXCEPT ![r].inc = apps[A(r)]]
  <2> DEFINE q == [req[r] EXCEPT !.at = "mark", !.inc = apps[A(r)]]
  <2>1. req' = [req EXCEPT ![r] = q]
    BY <1>0, <1>4 DEF To, ReqFields
  <2>2. q.at = "mark" /\ q.kind = req[r].kind /\ q.code = req[r].code /\ q.did = req[r].did
    BY <1>0 DEF ReqFields
  <2> HIDE DEF q
  <2> QED BY <1>1, <1>2, <2>1, <2>2, ExitGoesOn
<1>5. CASE \E won : req' = [To(r, "end") EXCEPT ![r].won = won]
  <2>1. PICK won : req' = [To(r, "end") EXCEPT ![r].won = won]
    BY <1>5
  <2> DEFINE q == [req[r] EXCEPT !.at = "end", !.won = won]
  <2>2. req' = [req EXCEPT ![r] = q]
    BY <1>0, <2>1 DEF To, ReqFields
  <2>3. q.at = "end" /\ q.kind = req[r].kind /\ q.code = req[r].code /\ q.did = req[r].did
    BY <1>0 DEF ReqFields
  <2> HIDE DEF q
  <2> QED BY <1>1, <1>2, <2>2, <2>3, ExitGoesOn
<1>6. \/ \E at \in {"work", "switch", "end"} : req' = To(r, at)
      \/ req' = [To(r, "mark") EXCEPT ![r].inc = apps[A(r)]]
      \/ \E won : req' = [To(r, "end") EXCEPT ![r].won = won]
  BY DEF TaskApps, TaskMark, TaskWork, TaskSwitch, TaskEnd
<1> QED BY <1>3, <1>4, <1>5, <1>6

\* The provider's work, or a handler that is one step, ends a request.
LEMMA ExitProvider ==
  ASSUME StatusInv, ExitInv, cli' = cli, NEW r \in Reqs, Provider(r)
  PROVE  ExitInv'
<1>1. PICK code \in {200, 409, 500}, did \in BOOLEAN :
        (code = 200 => did) /\ req' = [Answered(r, code) EXCEPT ![r].did = did]
  BY Zenon DEF Provider
<1>2. req' = [Answered(r, code) EXCEPT ![r].did = did]
  BY <1>1, Zenon
<1>3. code = 200 => did = TRUE
  BY <1>1
<1> DEFINE q == [req[r] EXCEPT !.at = "end", !.code = code, !.did = did]
<1>4. req = [p \in Reqs |-> req[p]] /\ req[r] = [f \in ReqFields |-> req[r][f]]
  BY ReqFacts
<1>5. req' = [req EXCEPT ![r] = q]
  BY <1>2, <1>4 DEF Answered, ReqFields
<1>6. q.at = "end" /\ q.kind = req[r].kind /\ q.code = code
  BY <1>4 DEF ReqFields
<1>7. q.did \in BOOLEAN
  BY <1>4 DEF ReqFields
<1>8. code = 200 => q.did = TRUE
  BY <1>3, <1>4 DEF ReqFields
<1>9. /\ req[r].kind \notin {"task", "store"} /\ req[r].at \notin {"idle", "end"}
      /\ q.code \notin Refusals /\ q.code # 202
  BY <1>6 DEF Provider, At, Refusals
<1> HIDE DEF q
<1>10. q.code \in {200, 202} => q.did = TRUE
  BY <1>6, <1>8, <1>9
<1>11. req[r].at \notin {"idle", "end"} /\ req[r].kind # "task" /\ q.kind = req[r].kind /\ q.at = "end"
  BY <1>6, <1>9
<1>12. q.code \notin Refusals /\ q.kind # "store"
  BY <1>6, <1>9
<1> HIDE DEF Refusals
<1> QED BY <1>5, <1>7, <1>10, <1>11, <1>12, ExitEnds, ZenonT(40)

\* The statuses that refuse a command.
LEMMA RefusedStatuses ==
  ASSUME NEW c \in DOMAIN Refused
  PROVE  200 \notin Refused[c] /\ 202 \notin Refused[c]
<1>1. DOMAIN Refused = {"login", "logout", "registries", "set", "unset", "secrets", "previews",
                        "teardown", "services", "renew", "rm", "key"}
  BY DEF Refused
<1>2. /\ Refused.login = {400} /\ Refused.logout = {400, 404} /\ Refused.registries = {}
      /\ Refused.set = {400, 404, 409} /\ Refused.unset = {404, 409} /\ Refused.secrets = {404}
      /\ Refused.previews = {401, 404} /\ Refused.teardown = {401, 404} /\ Refused.services = {}
      /\ Refused.renew = {400, 404, 409} /\ Refused.rm = {400} /\ Refused.key = {404}
  BY DEF Refused
<1> QED BY <1>1, <1>2

\* The handlers that are one step.
LEMMA ExitStore ==
  ASSUME StatusInv, ExitInv, NEW r \in Reqs, Store(r)
  PROVE  ExitInv'
<1>1. PICK code \in {200, 500, 502, 504} \cup Refused[cli[r].cmd], did \in BOOLEAN :
        /\ code = 200 => did = (cli[r].cmd \in Changing \ {"rm"})
        /\ code \in Refused[cli[r].cmd] \/ cli[r].cmd \notin Changing \ {"rm"} => ~did
        /\ req' = [Answered(r, code) EXCEPT ![r].did = did]
  BY Zenon DEF Store
<1>2. req' = [Answered(r, code) EXCEPT ![r].did = did]
  BY <1>1, Zenon
<1>3. /\ code = 200 /\ cli[r].cmd \in Changing \ {"rm"} => did = TRUE
      /\ code \in Refused[cli[r].cmd] => did = FALSE
  BY <1>1
<1> DEFINE q == [req[r] EXCEPT !.at = "end", !.code = code, !.did = did]
<1>4. /\ req = [p \in Reqs |-> req[p]] /\ req[r] = [f \in ReqFields |-> req[r][f]]
      /\ ExitOK(cli[r], req[r]) /\ req[r].kind = "store" /\ req[r].at = "store" /\ cli' = cli
  BY ReqFacts DEF ExitInv, Store, At
<1>5. cli[r].cmd \in DOMAIN Refused /\ (cli[r].cmd = "rm" => cli[r].step \in Looks)
  BY <1>4 DEF ExitOK
<1>6. code # 202 /\ (code \in Refusals => code \in Refused[cli[r].cmd])
  BY <1>5, RefusedStatuses DEF Refusals
<1>7. req' = [req EXCEPT ![r] = q]
  BY <1>2, <1>4 DEF Answered, ReqFields
<1>8. q.at = "end" /\ q.kind = "store" /\ q.code = code
  BY <1>4 DEF ReqFields
<1>9. q.did \in BOOLEAN
  BY <1>4 DEF ReqFields
<1>10. /\ code = 200 /\ cli[r].cmd \in Changing \ {"rm"} => q.did = TRUE
       /\ code \in Refused[cli[r].cmd] => q.did = FALSE
  BY <1>3, <1>4 DEF ReqFields
<1> HIDE DEF q
<1>11. q.code \in Refusals => q.did = FALSE
  BY <1>6, <1>8, <1>10
<1>12. q.code \in {200, 202} => \/ q.did = TRUE \/ cli[r].cmd \notin Changing \/ cli[r].step \in Looks
  BY <1>5, <1>6, <1>8, <1>10
<1> QED BY <1>4, <1>6, <1>7, <1>8, <1>9, <1>11, <1>12, ExitEnds, ZenonT(40)

-----------------------------------------------------------------------------
(* From an answer to an exit code.                                         *)

\* A set of numbers that is not empty has a least one.
LEMMA MinIsIn ==
  ASSUME NEW T, T \subseteq Nat, T # {}
  PROVE  Min(T) \in T
<1>1. PICK u \in T : \A v \in T : ~(<<v, u>> \in OpToRel(<, Nat))
  BY WFMin, NatLessThanWellFounded
<1>2. \A v \in T : ~(v < u)
  BY <1>1 DEF OpToRel
<1>3. \A v \in T : u <= v
  BY <1>2
<1> QED BY <1>3 DEF Min

\* An exit code that a command may give to the error m: never 0, and one other than
\* 1 only for a refusal.
Tells(e, m) == e \in Errors /\ (e # GENERIC => m.code \in Refusals)

\* Rules that give another code than 1 only to refusals.
RulesOK(rules) ==
  /\ DOMAIN rules \subseteq Nat
  /\ \A i \in DOMAIN rules : /\ rules[i][2] \in Errors
                             /\ rules[i][2] # GENERIC => rules[i][1] \subseteq Refusals

\* An if chain over the text ends in one of its rules that match, or in exit code 1.
LEMMA ClassifyTells ==
  ASSUME NEW m, m.text \cap Refusals = {}, NEW rules, RulesOK(rules)
  PROVE  Tells(Classify(m, rules), m)
<1> DEFINE hit == {i \in DOMAIN rules : rules[i][1] \cap Found(m) # {}}
<1>1. CASE hit = {}
  <2>1. Classify(m, rules) = GENERIC
    BY <1>1 DEF Classify
  <2> QED BY <2>1 DEF Tells, Errors
<1>2. CASE hit # {}
  <2>1. hit \subseteq Nat
    BY DEF RulesOK
  <2>2. Min(hit) \in hit
    <3> HIDE DEF hit
    <3> QED BY <1>2, <2>1, MinIsIn
  <2>3. Classify(m, rules) = rules[Min(hit)][2]
    BY <1>2 DEF Classify
  <2>4. PICK i \in DOMAIN rules : rules[i][1] \cap Found(m) # {} /\ Classify(m, rules) = rules[i][2]
    BY <2>2, <2>3
  <2>5. rules[i][2] # GENERIC => m.code \in Refusals
    BY <2>4 DEF RulesOK, Found
  <2> QED BY <2>4, <2>5 DEF RulesOK, Tells
<1> QED BY <1>1, <1>2

\* The rules of the commands that search the text.
LEMMA TheRules ==
  /\ RulesOK(<< <<{401}, AUTH>> >>)
  /\ RulesOK(<< <<{400}, USAGE>>, AuthRule, MissingRule >>)
  /\ RulesOK(<< AuthRule, MissingRule >>)
  /\ RulesOK(<< AuthRule >>)
  /\ RulesOK(<< AuthRule, MissingRule, <<{409}, GENERIC>> >>)
  /\ RulesOK(<< AuthRule, <<{409}, GENERIC>>, <<{400}, USAGE>> >>)
<1> USE DEF RulesOK, AuthRule, MissingRule, Refusals, Errors, AUTH, USAGE, GENERIC, NOT_FOUND
<1>1. RulesOK(<< <<{401}, AUTH>> >>)
  OBVIOUS
<1>2. RulesOK(<< <<{400}, USAGE>>, AuthRule, MissingRule >>)
  OBVIOUS
<1>3. RulesOK(<< AuthRule, MissingRule >>)
  OBVIOUS
<1>4. RulesOK(<< AuthRule >>)
  OBVIOUS
<1>5. RulesOK(<< AuthRule, MissingRule, <<{409}, GENERIC>> >>)
  OBVIOUS
<1>6. RulesOK(<< AuthRule, <<{409}, GENERIC>>, <<{400}, USAGE>> >>)
  OBVIOUS
<1> QED BY <1>1, <1>2, <1>3, <1>4, <1>5, <1>6

\* No command gives an error exit code 0, nor one that speaks of a refusal where there
\* was none, as long as the text repeats no status.
LEMMA ErrorTells ==
  ASSUME NEW m, m.text \cap Refusals = {}, NEW c \in Commands, NEW step,
         c = "apply" => step \in Applies
  PROVE  Tells(ErrorExit(c, step, m), m)
<1>1. Commands = {"login", "logout", "registries", "set", "unset", "secrets", "previews", "teardown",
                  "services", "renew", "rm", "key", "list", "add", "edit", "remove", "daemon", "link",
                  "status", "logs", "deploy", "rollback", "newService", "apply"}
  BY DEF Commands, Refused, Asks
<1>2. /\ Tells(RenewExit(m), m) /\ Tells(LoginExit(m), m) /\ Tells(LogoutExit(m), m)
      /\ Tells(RegistriesExit(m), m) /\ Tells(ServicesExit(m), m) /\ Tells(ServicesRmExit(m), m)
      /\ Tells(ServicesAddExit(m), m) /\ Tells(KeyExit(m), m)
  BY ClassifyTells, TheRules
  DEF RenewExit, LoginExit, LogoutExit, RegistriesExit, ServicesExit, ServicesRmExit, ServicesAddExit,
      KeyExit
<1>3. Tells(GENERIC, m)
  BY DEF Tells, Errors
<1>4. /\ Tells(DeployExit(m), m) /\ Tells(DaemonExit(m), m) /\ Tells(LinkExit(m), m)
      /\ Tells(StatusExit(m), m) /\ Tells(LogsExit(m), m) /\ Tells(ApplyExit(step, m), m)
  BY DEF Tells, DeployExit, DaemonExit, LinkExit, StatusExit, LogsExit, ApplyExit, Refusals, Errors
<1>5. CASE step \in Applies /\ c # "rm"
  <2>1. ErrorExit(c, step, m) = ApplyExit(step, m)
    BY <1>5 DEF ErrorExit, Applies
  <2> QED BY <1>4, <2>1
<1>6. CASE ~(step \in Applies /\ c # "rm")
  <2>1. CASE c \in {"list", "add", "edit", "remove", "set", "unset", "secrets", "previews", "teardown",
                    "rollback"}
    <3>1. ErrorExit(c, step, m) = GENERIC
      BY <1>6, <2>1 DEF ErrorExit, CommandExit, Applies, AppsExit, SecretsExit, PreviewsExit, RollbackExit
    <3> QED BY <1>3, <3>1
  <2>2. CASE c \in {"deploy", "daemon", "link", "status", "logs"}
    <3>1. ErrorExit(c, step, m)
            \in {DeployExit(m), DaemonExit(m), LinkExit(m), StatusExit(m), LogsExit(m)}
      BY <1>6, <2>2 DEF ErrorExit, CommandExit, Applies
    <3> QED BY <1>4, <3>1
  <2>3. CASE c \in {"renew", "login", "key", "logout", "registries", "services", "rm", "newService"}
    <3>1. ErrorExit(c, step, m)
            \in {RenewExit(m), LoginExit(m), KeyExit(m), LogoutExit(m), RegistriesExit(m),
                 ServicesExit(m), ServicesRmExit(m), ServicesAddExit(m)}
      BY <1>6, <2>3 DEF ErrorExit, CommandExit, Applies
    <3> QED BY <1>2, <3>1
  <2> QED BY <1>1, <1>6, <2>1, <2>2, <2>3
<1> QED BY <1>5, <1>6

-----------------------------------------------------------------------------
(* The commands.                                                           *)

\* Nothing that the invariant speaks of changes.
LEMMA ExitStutters ==
  ASSUME ExitInv, req' = req, cli' = cli
  PROVE  ExitInv'
BY DEF ExitInv, ExitOK, Deleting

\* A handler's step.
LEMMA ExitServe ==
  ASSUME StatusInv, ExitInv, NEW r \in Reqs, Serve(r), cli' = cli
  PROVE  ExitInv'
<1>1. CASE Wait(r)
  <2>1. req' = req
    BY <1>1 DEF Wait
  <2> QED BY <2>1, ExitStutters
<1>2. CASE \/ StatusStates(r) \/ StatusApps(r) \/ ReadApps(r) \/ AppStatusStates(r)
           \/ AppStatusQuery(r) \/ LogsList(r) \/ LogsStates(r) \/ TickReads(r)
  BY <1>2, ExitReads
<1>3. CASE \/ LockApp(r) \/ CheckApp(r) \/ Lease(r) \/ BindService(r) \/ Provision(r) \/ PersistApp(r)
           \/ DeleteStates(r) \/ DeleteStop(r) \/ DeleteRoutes(r) \/ DeployApps(r)
           \/ RollbackTarget(r) \/ RemoveServiceLocks(r) \/ RemoveServiceUsage(r)
           \/ EnsureService(r)
  BY <1>3, ExitQuiet
<1>4. CASE Publish(r) \/ DeleteRemove(r) \/ DeleteForget(r) \/ Accept(r)
  BY <1>4, ExitEffects
<1>5. CASE TaskApps(r) \/ TaskMark(r) \/ TaskWork(r) \/ TaskSwitch(r)
  BY <1>5, ExitTask
<1>6. CASE Provider(r)
  BY <1>6, ExitProvider
<1> QED BY <1>1, <1>2, <1>3, <1>4, <1>5, <1>6 DEF Serve, Local

\* The step a command begins with.
LEMMA BeginsWith ==
  ASSUME NEW c, NEW step \in FirstStep(c)
  PROVE  step # "wait" /\ (c = "apply" => step \in Applies)
BY DEF FirstStep, Applies

\* The step an answer leads to: only an accepted deploy is waited for.
LEMMA LeadsTo ==
  ASSUME NEW c, NEW code, NEW step \in Leads(c, code)
  PROVE  /\ c.cmd = "apply" => step \in Applies
         /\ step = "wait" => c.cmd = "deploy" /\ c.step = "ask" /\ code = 202
BY DEF Leads, Applies

\* A command that changes something makes a request that does, unless it only looks.
LEMMA Kinds ==
  ASSUME NEW c \in Commands, NEW step, c = "apply" => step \in Applies
  PROVE  /\ Request(c, step) # "task" /\ First(Request(c, step)) \notin {"idle", "end"}
         /\ Request(c, step) \in Reads => c \notin Changing \/ step \in Looks
         /\ Request(c, step) = "store" => c \in DOMAIN Refused /\ (c = "rm" => step \in Looks)
<1> DEFINE k == Request(c, step)
<1>1. k # "task" /\ First(k) \notin {"idle", "end"}
  <2>1. k \in Handlers
    BY RequestKinds
  <2> HIDE DEF k
  <2> QED BY <2>1 DEF Handlers, First
<1>2. CASE step \in Looks
  <2>1. k = IF c = "rm" THEN "store" ELSE "get"
    BY <1>2 DEF Request, Looks
  <2>2. "rm" \in DOMAIN Refused
    BY DEF Refused
  <2> QED BY <1>1, <1>2, <2>1, <2>2
<1>3. CASE step \in {"make", "change"}
  <2>1. k \in {"create", "update"}
    BY <1>3 DEF Request
  <2> QED BY <1>1, <2>1 DEF Reads
<1>4. CASE step \notin Applies
  <2>1. k = Kind(c) /\ c # "apply"
    BY <1>4 DEF Request, Applies
  <2>2. CASE c \in DOMAIN Asks
    <3>1. k = Asks[c]
      BY <2>1, <2>2 DEF Kind
    <3>2. k # "store"
      BY <2>2, <3>1, AsksWhat
    <3>3. k \in Reads => c \notin Changing
      BY <2>2, <3>1, AsksWhat DEF Reads, Changing
    <3> QED BY <1>1, <3>2, <3>3
  <2>3. CASE c \notin DOMAIN Asks
    <3>1. k = "store" /\ c \in DOMAIN Refused /\ c # "rm"
      BY <2>1, <2>3, AsksWhat DEF Kind, Commands
    <3> QED BY <1>1, <3>1 DEF Reads
  <2> QED BY <2>2, <2>3
<1> QED BY <1>2, <1>3, <1>4 DEF Looks, Applies

\* A request that a handler begins with.
LEMMA ExitBegins ==
  ASSUME StatusInv, ExitInv, NEW r \in Reqs, NEW k, NEW a, NEW at, NEW c,
         req' = [req EXCEPT ![r] = [Idle EXCEPT !.kind = k, !.app = a, !.at = at]],
         cli' = [cli EXCEPT ![r] = c], c = [f \in CliFields |-> c[f]],
         c.cmd \in Known, c.cmd # Nil, c.cmd = "apply" => c.step \in Applies, c.step # "wait",
         c.exit = Nil, k # "task", at \notin {"idle", "end"},
         k \in Reads => c.cmd \notin Changing \/ c.step \in Looks,
         k = "store" => c.cmd \in DOMAIN Refused /\ (c.cmd = "rm" => c.step \in Looks)
  PROVE  ExitInv'
<1> DEFINE q == [Idle EXCEPT !.kind = k, !.app = a, !.at = at]
<1>1. q.did = FALSE
  BY DEF Idle
<1>2. q.kind = k /\ q.at = at /\ q.code = 0
  BY DEF Idle
<1> HIDE DEF q
<1>3. ExitOK(c, q)
  BY <1>1, <1>2, ExitCodes DEF ExitOK, Refusals
<1>4. req' = [req EXCEPT ![r] = q]
  BY DEF q
<1> QED BY <1>3, <1>4, ExitMoves

\* A command that main refuses, that is not confirmed, or that reaches no handler.
LEMMA ExitRefused ==
  ASSUME StatusInv, ExitInv, NEW r \in Reqs,
         NEW b, b = [f \in CliFields |-> b[f]], b.cmd \in Commands, b.step \in FirstStep(b.cmd),
         \/ b.exit \in Errors \cup {DRY_RUN_FAILURE}
         \/ b.exit = OK /\ b.told = TRUE,
         req[r].at = "idle", req' = req, cli' = [cli EXCEPT ![r] = b]
  PROVE  ExitInv'
<1>1. ExitOK(cli[r], req[r]) /\ req = [p \in Reqs |-> req[p]]
  BY ReqFacts DEF ExitInv
<1>2. req[r].did = FALSE /\ req[r].kind = Nil /\ Nil # "task"
  BY <1>1, CliAssumption DEF ExitOK
<1>3. req[r].code = 0
  BY <1>2, ReqFacts DEF ReqOK
<1>4. Nil \notin Reads /\ Nil # "store" /\ b.cmd # Nil
  BY NilIsNothing DEF Reads, Handlers
<1>5. req' = [req EXCEPT ![r] = req[r]]
  BY <1>1
<1>6. b.exit \notin {DEPLOY_FAILED, TIMEOUT} /\ (b.exit = OK => b.told = TRUE)
  BY ExitCodes
<1>7. b.step # "wait" /\ (b.cmd = "apply" => b.step \in Applies)
  BY BeginsWith
<1>8. ExitOK(b, req[r])
  BY <1>2, <1>3, <1>4, <1>6, <1>7 DEF ExitOK, Known, Refusals
<1> QED BY <1>5, <1>8, ExitMoves

\* main dispatches a command, or the reconcile loop ticks.
LEMMA ExitRun ==
  ASSUME StatusInv, ExitInv, NEW r \in Reqs, NEW s \in scene[r], Ticks(r, s[2]) \/ Run(r, s[1], s[2])
  PROVE  ExitInv'
<1>0. cli = [p \in Reqs |-> cli[p]] /\ ExitOK(cli[r], req[r])
  BY DEF ExitInv
<1>1. CASE Ticks(r, s[2])
  <2> DEFINE c == [cli[r] EXCEPT !.cmd = "tick"]
             k == "tick"
             at == "states"
  <2>1. cli' = [cli EXCEPT ![r] = c]
    BY <1>0, <1>1 DEF Ticks
  <2>2. req' = [req EXCEPT ![r] = [Idle EXCEPT !.kind = k, !.app = s[2], !.at = at]]
    BY <1>1 DEF Ticks, Arrive, First
  <2>3. cli[r].exit = Nil /\ "tick" # Nil /\ req[r].at = "idle"
    BY <1>0, <1>1, CliAssumption DEF Ticks, Arrive, ExitOK
  <2>4. cli[r].step # "wait"
    <3>1. req[r].did = FALSE
      BY <1>0, <2>3 DEF ExitOK
    <3> QED BY <1>0, <3>1 DEF ExitOK
  <2>5. /\ c = [f \in CliFields |-> c[f]] /\ c.cmd = "tick" /\ c.exit = Nil
        /\ c.step # "wait"
    BY <1>0, <2>3, <2>4 DEF ExitOK, CliFields
  <2> HIDE DEF c
  <2>6. k \notin Reads \cup {"task", "store"} /\ at \notin {"idle", "end"} /\ c.cmd \in Known
    BY <2>5 DEF Reads, Known
  <2> HIDE DEF k, at
  <2> QED BY <2>1, <2>2, <2>3, <2>5, <2>6, ExitBegins
<1>2. CASE Run(r, s[1], s[2])
  <2>1. s[1] \in Commands
    BY <1>2, CliAssumption DEF Run, StatusInv, ReqsInv
  <2>2. s[1] # Nil /\ req[r].at = "idle"
    BY <1>2, <2>1, NilIsNothing DEF Run
  <2>3. ASSUME NEW step \in FirstStep(s[1]), NEW code \in Errors \cup {DRY_RUN_FAILURE},
               cli' = [cli EXCEPT ![r] = [Command(s[1], step) EXCEPT !.exit = code]],
               UNCHANGED apiVars
        PROVE  ExitInv'
    <3> DEFINE b == [Command(s[1], step) EXCEPT !.exit = code]
    <3>1. b = [f \in CliFields |-> b[f]] /\ b.cmd = s[1] /\ b.step = step /\ b.exit = code
      BY DEF Command, CliFields
    <3>2. req' = req
      BY <2>3 DEF apiVars
    <3>3. cli' = [cli EXCEPT ![r] = b]
      BY <2>3
    <3>4. b.cmd \in Commands /\ b.step \in FirstStep(b.cmd) /\ b.exit \in Errors \cup {DRY_RUN_FAILURE}
      BY <2>1, <2>3, <3>1
    <3> HIDE DEF b
    <3> QED BY <2>2, <3>1, <3>2, <3>3, <3>4, ExitRefused
  <2>4. ASSUME NEW step \in FirstStep(s[1]),
               cli' = [cli EXCEPT ![r] = [Command(s[1], step) EXCEPT !.exit = OK, !.told = TRUE]],
               UNCHANGED apiVars
        PROVE  ExitInv'
    <3> DEFINE b == [Command(s[1], step) EXCEPT !.exit = OK, !.told = TRUE]
    <3>1. b = [f \in CliFields |-> b[f]] /\ b.cmd = s[1] /\ b.step = step /\ b.exit = OK
      BY DEF Command, CliFields
    <3>2. b.told = TRUE
      BY DEF Command
    <3>3. req' = req
      BY <2>4 DEF apiVars
    <3>4. cli' = [cli EXCEPT ![r] = b]
      BY <2>4
    <3>5. b.cmd \in Commands /\ b.step \in FirstStep(b.cmd)
      BY <2>1, <2>4, <3>1
    <3> HIDE DEF b
    <3> QED BY <2>2, <3>1, <3>2, <3>3, <3>4, <3>5, ExitRefused
  <2>5. ASSUME NEW step \in FirstStep(s[1])
        PROVE  ApiRequest(s[1], step, [code |-> 401, text |-> {}]) \in Errors
    <3> DEFINE m == [code |-> 401, text |-> {}]
    <3>1. m.text \cap Refusals = {} /\ m.code = 401
      OBVIOUS
    <3> HIDE DEF m
    <3>2. ApiRequest(s[1], step, m) = ErrorExit(s[1], step, m)
      BY <3>1 DEF ApiRequest, Success
    <3>3. ApiRequest(s[1], step, m) \in Errors
      BY <2>1, <2>5, <3>1, <3>2, BeginsWith, ErrorTells DEF Tells
    <3> QED BY <3>3 DEF m
  <2>6. ASSUME NEW step \in FirstStep(s[1]), Arrive(r, Request(s[1], step), s[2]),
               cli' = [cli EXCEPT ![r] = Command(s[1], step)]
        PROVE  ExitInv'
    <3> DEFINE c == Command(s[1], step)
               k == Request(s[1], step)
               at == First(k)
    <3>1. c = [f \in CliFields |-> c[f]] /\ c.cmd = s[1] /\ c.step = step /\ c.exit = Nil
      BY DEF Command, CliFields
    <3>2. cli' = [cli EXCEPT ![r] = c]
      BY <2>6
    <3>3. c.cmd = "apply" => c.step \in Applies
      BY <2>6, <3>1, BeginsWith
    <3>4. c.step # "wait"
      BY <2>6, <3>1, BeginsWith
    <3>5. /\ k # "task" /\ at \notin {"idle", "end"}
          /\ k \in Reads => c.cmd \notin Changing \/ c.step \in Looks
          /\ k = "store" => c.cmd \in DOMAIN Refused /\ (c.cmd = "rm" => c.step \in Looks)
      BY <2>1, <3>1, <3>3, Kinds
    <3>6. req' = [req EXCEPT ![r] = [Idle EXCEPT !.kind = k, !.app = s[2], !.at = at]]
      BY <2>6 DEF Arrive
    <3> HIDE DEF c, k, at
    <3>7. c.cmd \in Known /\ c.cmd # Nil
      BY <2>1, <2>2, <3>1 DEF Known
    <3> QED BY <3>1, <3>2, <3>3, <3>4, <3>5, <3>6, <3>7, ExitBegins
  <2>7. Refuses(s[1]) \subseteq Errors \cup {DRY_RUN_FAILURE}
    BY DEF Refuses, Errors
  <2>8. PICK step \in FirstStep(s[1]) :
          \/ /\ \E code \in Refuses(s[1]) :
                  cli' = [cli EXCEPT ![r] = [Command(s[1], step) EXCEPT !.exit = code]]
             /\ UNCHANGED apiVars
          \/ /\ cli' = [cli EXCEPT ![r] = [Command(s[1], step) EXCEPT !.exit = OK, !.told = TRUE]]
             /\ UNCHANGED apiVars
          \/ /\ cli' = [cli EXCEPT ![r] =
                  [Command(s[1], step) EXCEPT
                     !.exit = ApiRequest(s[1], step, [code |-> 401, text |-> {}])]]
             /\ UNCHANGED apiVars
          \/ /\ Arrive(r, Request(s[1], step), s[2])
             /\ cli' = [cli EXCEPT ![r] = Command(s[1], step)]
    BY <1>2 DEF Run
  <2>9. CASE /\ \E code \in Refuses(s[1]) :
                  cli' = [cli EXCEPT ![r] = [Command(s[1], step) EXCEPT !.exit = code]]
             /\ UNCHANGED apiVars
    BY <2>3, <2>7, <2>9
  <2>10. CASE /\ cli' = [cli EXCEPT ![r] = [Command(s[1], step) EXCEPT !.exit = OK, !.told = TRUE]]
              /\ UNCHANGED apiVars
    BY <2>4, <2>10
  <2>11. CASE /\ cli' = [cli EXCEPT ![r] =
                   [Command(s[1], step) EXCEPT
                      !.exit = ApiRequest(s[1], step, [code |-> 401, text |-> {}])]]
              /\ UNCHANGED apiVars
    BY <2>3, <2>5, <2>11
  <2>12. CASE /\ Arrive(r, Request(s[1], step), s[2])
              /\ cli' = [cli EXCEPT ![r] = Command(s[1], step)]
    BY <2>6, <2>12
  <2> QED BY <2>8, <2>9, <2>10, <2>11, <2>12
<1> QED BY <1>1, <1>2

\* A command that ends, and of whose request only the effect is kept.
LEMMA ExitForgets ==
  ASSUME StatusInv, ExitInv, NEW r \in Reqs, NEW c, Unanswered(r),
         cli' = [cli EXCEPT ![r] = c], c = [f \in CliFields |-> c[f]],
         c.cmd = cli[r].cmd, c.step = cli[r].step,
         req' = Forgotten(r), ~Open(r) \/ req[r].kind = "task",
         c.exit = OK /\ c.cmd \in Changing => req[r].did = TRUE \/ c.told = TRUE,
         c.exit = OK /\ c.step = "wait" => req[r].won = TRUE /\ ~Open(r),
         c.exit \in Denials /\ c.step # "wait" => req[r].did = FALSE,
         c.exit \in {DEPLOY_FAILED, TIMEOUT} => c.step = "wait"
  PROVE  ExitInv'
<1>1. /\ ExitOK(cli[r], req[r]) /\ req = [p \in Reqs |-> req[p]]
      /\ req[r].did \in BOOLEAN
  BY ReqFacts DEF ExitInv, ReqOK
<1>2. /\ c.cmd \in Known /\ c.cmd # Nil /\ (c.cmd = "apply" => c.step \in Applies)
      /\ c.step = "wait" => req[r].did = TRUE
  BY <1>1 DEF ExitOK, Unanswered
<1>3. CASE Open(r)
  <2>1. req' = [req EXCEPT ![r] = req[r]] /\ req[r].kind = "task"
    BY <1>1, <1>3 DEF Forgotten
  <2>2. ExitOK(c, req[r])
    BY <1>1, <1>2, <1>3, <2>1 DEF ExitOK, Open
  <2> QED BY <2>1, <2>2, ExitMoves
<1>4. CASE ~Open(r)
  <2> DEFINE q == [Idle EXCEPT !.at = "end", !.did = req[r].did, !.won = req[r].won]
  <2>1. req' = [req EXCEPT ![r] = q]
    BY <1>4 DEF Forgotten
  <2>2. q.did = req[r].did
    BY DEF Idle
  <2>3. q.won = req[r].won
    BY DEF Idle
  <2>4. q.at = "end" /\ q.kind = Nil /\ q.code = 0
    BY DEF Idle
  <2>5. Nil \notin Reads /\ Nil # "store" /\ Nil # "task"
    BY NilIsNothing DEF Reads, Handlers
  <2> HIDE DEF q
  <2>6. ExitOK(c, q)
    BY <1>2, <2>2, <2>3, <2>4, <2>5 DEF ExitOK, Refusals
  <2> QED BY <2>1, <2>6, ExitMoves
<1> QED BY <1>3, <1>4

\* The client hangs up and the command exits 1.
LEMMA ExitHangUp ==
  ASSUME StatusInv, ExitInv, NEW r \in Reqs, Unanswered(r),
         cli' = [cli EXCEPT ![r].exit = GENERIC], HangUp(r)
  PROVE  ExitInv'
<1> DEFINE c == [cli[r] EXCEPT !.exit = GENERIC]
           q == [req[r] EXCEPT !.at = "end", !.code = 0]
<1>1. /\ ExitOK(cli[r], req[r]) /\ req = [p \in Reqs |-> req[p]] /\ cli = [p \in Reqs |-> cli[p]]
      /\ req[r] = [f \in ReqFields |-> req[r][f]]
  BY ReqFacts DEF ExitInv
<1>2. cli' = [cli EXCEPT ![r] = c]
  BY <1>1
<1>3. /\ c = [f \in CliFields |-> c[f]] /\ c.cmd = cli[r].cmd /\ c.step = cli[r].step
      /\ c.exit = GENERIC
  BY <1>1 DEF ExitOK, CliFields
<1>4. req' = [req EXCEPT ![r] = q]
  BY <1>1 DEF HangUp, ReqFields
<1>5. q.at = "end" /\ q.code = 0 /\ q.kind = req[r].kind
  BY <1>1 DEF ReqFields
<1>6. /\ c.cmd \in Known /\ c.cmd # Nil /\ req[r].kind # "task" /\ Open(r)
      /\ c.cmd = "apply" => c.step \in Applies
  BY <1>1, <1>3 DEF ExitOK, Unanswered, HangUp, Background
<1>7. /\ q.kind \in Reads => c.cmd \notin Changing \/ c.step \in Looks
      /\ q.kind = "store" => c.cmd \in DOMAIN Refused /\ (c.cmd = "rm" => c.step \in Looks)
      /\ c.step # "wait"
  BY <1>1, <1>3, <1>5, <1>6 DEF ExitOK, Open
<1>8. c.exit \notin Denials \cup {OK, DEPLOY_FAILED, TIMEOUT}
  BY <1>3, ExitCodes DEF Errors
<1> HIDE DEF c, q
<1>9. ExitOK(c, q)
  BY <1>3, <1>5, <1>6, <1>7, <1>8 DEF ExitOK, Refusals
<1> QED BY <1>2, <1>4, <1>9, ExitMoves

\* An answer leads on to the next request, or to the polling.
LEMMA ExitContinues ==
  ASSUME StatusInv, ExitInv, NEW r \in Reqs, Continue(r)
  PROVE  ExitInv'
<1>0. cli = [p \in Reqs |-> cli[p]] /\ ExitOK(cli[r], req[r]) /\ req = [p \in Reqs |-> req[p]]
  BY ReqFacts DEF ExitInv
<1>1. PICK step \in Leads(cli[r], req[r].code) :
        /\ cli' = [cli EXCEPT ![r].step = step]
        /\ IF step = "wait" THEN UNCHANGED req ELSE Sends(r, Request(cli[r].cmd, step))
  BY DEF Continue
<1>2. /\ cli[r].exit = Nil /\ cli[r].cmd \in Commands /\ cli[r].cmd # Nil /\ cli[r].cmd \in Known
      /\ req[r].code # 0
  BY <1>0 DEF Continue, Unanswered, ExitOK, Known
<1> DEFINE c == [cli[r] EXCEPT !.step = step]
<1>3. /\ c = [f \in CliFields |-> c[f]] /\ c.cmd = cli[r].cmd /\ c.step = step /\ c.exit = Nil
  BY <1>0, <1>2 DEF ExitOK, CliFields
<1>4. cli' = [cli EXCEPT ![r] = c]
  BY <1>0, <1>1
<1> HIDE DEF c
<1>5. c.cmd = "apply" => c.step \in Applies
  <2>1. cli[r].cmd = "apply" => step \in Applies
    BY LeadsTo
  <2> QED BY <1>3, <2>1
<1>6. CASE step = "wait"
  <2>1. cli[r].cmd = "deploy" /\ cli[r].step = "ask" /\ req[r].code = 202
    BY <1>6, LeadsTo
  <2>2. req' = [req EXCEPT ![r] = req[r]]
    BY <1>0, <1>1, <1>6
  <2>3. req[r].did = TRUE
    <3>1. cli[r].cmd \in Changing /\ cli[r].step \notin Looks /\ req[r].code \in {200, 202}
      BY <2>1 DEF Changing, Looks
    <3> QED BY <1>0, <3>1 DEF ExitOK
  <2>4. req[r].kind = "task" \/ req[r].at = "end"
    <3>1. ReqOK(r, req[r], apps, born, deploys, appLock, cut)
      BY ReqFacts
    <3> QED BY <2>1, <3>1 DEF ReqOK
  <2>5. req[r].kind \notin Reads /\ req[r].kind # "store"
    BY <1>0, <2>1 DEF ExitOK, Changing, Looks
  <2>6. ExitOK(c, req[r])
    BY <1>0, <1>2, <1>3, <1>5, <2>1, <2>3, <2>4, <2>5, ExitCodes DEF ExitOK
  <2> QED BY <1>4, <2>2, <2>6, ExitMoves
<1>7. CASE step # "wait"
  <2> DEFINE k == Request(cli[r].cmd, step)
             at == First(k)
  <2>1. req' = [req EXCEPT ![r] = [Idle EXCEPT !.kind = k, !.app = A(r), !.at = at]]
    BY <1>1, <1>7 DEF Sends
  <2>2. /\ k # "task" /\ at \notin {"idle", "end"}
        /\ k \in Reads => c.cmd \notin Changing \/ c.step \in Looks
        /\ k = "store" => c.cmd \in DOMAIN Refused /\ (c.cmd = "rm" => c.step \in Looks)
    BY <1>2, <1>3, <1>5, Kinds
  <2> HIDE DEF k, at
  <2> QED BY <1>2, <1>3, <1>4, <1>5, <1>7, <2>1, <2>2, ExitBegins
<1> QED BY <1>6, <1>7

\* The last answer is turned into the exit code.
LEMMA ExitReceives ==
  ASSUME StatusInv, ExitInv, Digits \cap Refusals = {}, NEW r \in Reqs, Receive(r)
  PROVE  ExitInv'
<1>0. cli = [p \in Reqs |-> cli[p]] /\ ExitOK(cli[r], req[r])
  BY DEF ExitInv
<1>1. /\ Unanswered(r) /\ cli[r].cmd \in Commands /\ (cli[r].cmd = "apply" => cli[r].step \in Applies)
      /\ cli[r].step # "wait" /\ req[r].code # 0 /\ req' = Forgotten(r)
  BY <1>0 DEF Receive, Unanswered, ExitOK, Known
<1>2. PICK text \in SUBSET Digits :
        LET m == [code |-> req[r].code, text |-> text]
        IN  cli' = [cli EXCEPT ![r].exit = ApiRequest(cli[r].cmd, cli[r].step, m),
                               ![r].told = Success(m) /\ cli[r].step \in {"look", "again"}]
  BY DEF Receive
<1> DEFINE m == [code |-> req[r].code, text |-> text]
           e == ApiRequest(cli[r].cmd, cli[r].step, m)
           told == Success(m) /\ cli[r].step \in {"look", "again"}
           c == [cli[r] EXCEPT !.exit = e, !.told = told]
<1>3. m.text \cap Refusals = {} /\ m.code = req[r].code
  OBVIOUS
<1>4. ~Open(r) \/ req[r].kind = "task"
  BY <1>1, ReqFacts DEF ReqOK, Open
<1> HIDE DEF m
<1>5. cli' = [cli EXCEPT ![r] = c]
  BY <1>0, <1>2 DEF m
<1>6. c = [f \in CliFields |-> c[f]] /\ c.cmd = cli[r].cmd /\ c.step = cli[r].step /\ c.exit = e
  BY <1>0 DEF ExitOK, CliFields
<1>7. c.told = told
  BY <1>0 DEF ExitOK, CliFields
<1>8. CASE req[r].code \in {200, 202}
  <2>1. Success(m)
    BY <1>3, <1>8 DEF Success
  <2>2. e = OK
    BY <2>1 DEF ApiRequest
  <2>3. cli[r].step \in Looks => c.told = TRUE
    BY <1>7, <2>1 DEF Looks
  <2> HIDE DEF c, e, told
  <2>4. c.exit = OK /\ OK \notin Denials \cup {DEPLOY_FAILED, TIMEOUT}
    BY <1>6, <2>2, ExitCodes
  <2>5. c.cmd \in Changing => req[r].did = TRUE \/ c.told = TRUE
    BY <1>0, <1>6, <1>8, <2>3 DEF ExitOK
  <2> QED BY <1>1, <1>4, <1>5, <1>6, <2>4, <2>5, ExitForgets
<1>9. CASE req[r].code \notin {200, 202}
  <2>1. e = ErrorExit(cli[r].cmd, cli[r].step, m)
    BY <1>3, <1>9 DEF ApiRequest, Success
  <2>2. Tells(e, m)
    BY <1>1, <1>3, <2>1, ErrorTells
  <2>3. e \in Errors /\ (e # GENERIC => req[r].code \in Refusals)
    BY <1>3, <2>2 DEF Tells
  <2> HIDE DEF c, e, told
  <2>4. c.exit \notin {OK, DEPLOY_FAILED, TIMEOUT}
    BY <1>6, <2>3, ExitCodes
  <2>5. c.exit \in Denials => req[r].did = FALSE
    BY <1>0, <1>6, <2>3, ExitCodes DEF ExitOK
  <2> QED BY <1>1, <1>4, <1>5, <1>6, <2>4, <2>5, ExitForgets
<1> QED BY <1>8, <1>9

\* A command that waited for its deploy, or that gives up, ends.
LEMMA ExitLeaves ==
  ASSUME StatusInv, ExitInv, NEW r \in Reqs, Poll(r) \/ GiveUp(r)
  PROVE  ExitInv'
<1>0. cli = [p \in Reqs |-> cli[p]] /\ ExitOK(cli[r], req[r]) /\ Unanswered(r)
  BY DEF ExitInv, Poll, GiveUp
<1>1. ASSUME NEW e, cli' = [cli EXCEPT ![r].exit = e], req' = Forgotten(r),
             ~Open(r) \/ req[r].kind = "task",
             \/ e = GENERIC
             \/ /\ cli[r].step = "wait" /\ e \in {USAGE, TIMEOUT, DEPLOY_FAILED, OK}
                /\ e = OK => req[r].won = TRUE /\ ~Open(r)
      PROVE  ExitInv'
  <2> DEFINE c == [cli[r] EXCEPT !.exit = e]
  <2>1. c = [f \in CliFields |-> c[f]] /\ c.cmd = cli[r].cmd /\ c.step = cli[r].step /\ c.exit = e
    BY <1>0 DEF ExitOK, CliFields
  <2>2. cli' = [cli EXCEPT ![r] = c]
    BY <1>0, <1>1
  <2>3. cli[r].step = "wait" => req[r].did = TRUE
    BY <1>0 DEF ExitOK
  <2>4. GENERIC \notin Denials \cup {OK, DEPLOY_FAILED, TIMEOUT}
    BY ExitCodes DEF Errors
  <2> HIDE DEF c
  <2> QED BY <1>0, <1>1, <2>1, <2>2, <2>3, <2>4, ExitForgets
<1>2. CASE Poll(r)
  <2>1. PICK code \in {USAGE, TIMEOUT, IF req[r].won THEN OK ELSE DEPLOY_FAILED} :
          /\ code \in {OK, DEPLOY_FAILED} => ~Open(r)
          /\ cli' = [cli EXCEPT ![r].exit = code]
    BY <1>2 DEF Poll
  <2>2. cli[r].step = "wait" /\ req' = Forgotten(r)
    BY <1>2 DEF Poll
  <2>3. ~Open(r) \/ req[r].kind = "task"
    BY <1>0, <2>2 DEF ExitOK, Open
  <2>4. code = OK => req[r].won = TRUE /\ ~Open(r)
    <3>1. req[r].won \in BOOLEAN
      BY ReqFacts DEF ReqOK
    <3>2. OK \notin {USAGE, TIMEOUT, DEPLOY_FAILED}
      BY ExitCodes DEF Denials
    <3> QED BY <2>1, <3>1, <3>2
  <2> QED BY <1>1, <2>1, <2>2, <2>3, <2>4
<1>3. CASE GiveUp(r)
  <2>1. cli' = [cli EXCEPT ![r].exit = GENERIC]
    BY <1>3 DEF GiveUp
  <2>2. CASE HangUp(r)
    BY <1>0, <2>1, <2>2, ExitHangUp
  <2>3. CASE (~Open(r) \/ req[r].kind = "task") /\ req' = Forgotten(r)
    BY <1>1, <2>1, <2>3
  <2> QED BY <1>3, <2>2, <2>3 DEF GiveUp
<1> QED BY <1>2, <1>3

\* A command that changes something and exits 0 has had its effect or has said that nothing
\* was to be done, one that exits with usage, auth or not found, or on a failed dry run,
\* has had none unless it was waiting for a deploy that was accepted, and what it says of a
\* deploy it waited for is so: whatever other commands, deploys and ticks run, and as long
\* as no name that the server repeats holds a number that is one of the statuses a command
\* looks for.  Of deploy and apply the effect is that of the last request.
THEOREM ExitCodesTell ==
  ASSUME Digits \cap {400, 401, 403, 404} = {}
  PROVE  Spec => []ExitTellsEffect
<1>1. StatusInv /\ ExitInv => ExitTellsEffect
  <2> SUFFICES ASSUME StatusInv, ExitInv, NEW r \in Reqs
               PROVE  LET c == cli[r] IN
                 /\ c.exit = OK /\ c.cmd \in Changing => req[r].did \/ c.told
                 /\ c.exit = OK /\ c.step = "wait" => req[r].won
                 /\ c.exit \in {USAGE, AUTH, NOT_FOUND, DRY_RUN_FAILURE} /\ c.step # "wait" => ~req[r].did
                 /\ c.exit \in {DEPLOY_FAILED, TIMEOUT} \/ c.step = "wait" => req[r].did
    BY DEF ExitTellsEffect
  <2>1. ExitOK(cli[r], req[r])
    BY DEF ExitInv
  <2>2. cli[r].exit = OK /\ cli[r].cmd \in Changing => req[r].did = TRUE \/ cli[r].told = TRUE
    BY <2>1 DEF ExitOK
  <2>3. cli[r].exit = OK /\ cli[r].step = "wait" => req[r].won = TRUE
    BY <2>1 DEF ExitOK
  <2>4. cli[r].exit \in {USAGE, AUTH, NOT_FOUND, DRY_RUN_FAILURE} /\ cli[r].step # "wait"
          => req[r].did = FALSE
    BY <2>1 DEF ExitOK, Denials
  <2>5. cli[r].exit \in {DEPLOY_FAILED, TIMEOUT} \/ cli[r].step = "wait" => req[r].did = TRUE
    BY <2>1 DEF ExitOK
  <2> QED BY <2>2, <2>3, <2>4, <2>5, Zenon
<1>2. CliInit => StatusInv /\ ExitInv
  <2> SUFFICES ASSUME CliInit
               PROVE  StatusInv /\ ExitInv
    OBVIOUS
  <2>1. StatusInv
    BY InitStatus
  <2> DEFINE c == [cmd |-> Nil, step |-> Nil, exit |-> Nil, told |-> FALSE]
  <2>2. cli = [r \in Reqs |-> c] /\ req = [r \in Reqs |-> Idle]
    BY DEF CliInit, ApiInit
  <2>3. c = [f \in CliFields |-> c[f]] /\ c.cmd = Nil /\ c.step = Nil /\ c.exit = Nil
    BY DEF CliFields
  <2>4. Idle.did = FALSE
    BY DEF Idle
  <2>5. Idle.at = "idle" /\ Idle.kind = Nil /\ Idle.code = 0
    BY DEF Idle
  <2>6. Nil \notin Reads \cup {"store", "task", "wait", "apply"}
    BY NilIsNothing DEF Reads, Handlers, Commands
  <2> HIDE DEF c
  <2>7. ExitOK(c, Idle)
    BY <2>3, <2>4, <2>5, <2>6, ExitCodes DEF ExitOK, Known, Refusals
  <2> QED BY <2>1, <2>2, <2>7 DEF ExitInv
<1>3. StatusInv /\ ExitInv /\ [Next]_vars => (StatusInv /\ ExitInv)'
  <2> SUFFICES ASSUME StatusInv, ExitInv, [Next]_vars
               PROVE  StatusInv' /\ ExitInv'
    OBVIOUS
  <2>1. StatusInv'
    BY NextStatus
  <2>2. Digits \cap Refusals = {}
    BY DEF Refusals
  <2>3. CASE UNCHANGED vars
    <3>1. req' = req /\ cli' = cli
      BY <2>3 DEF vars, apiVars
    <3> QED BY <2>1, <3>1, ExitStutters
  <2>4. ASSUME NEW r \in Reqs, NEW s \in scene[r], Ticks(r, s[2]) \/ Run(r, s[1], s[2])
        PROVE  ExitInv'
    BY <2>4, ExitRun
  <2>5. ASSUME NEW r \in Reqs, Serve(r), cli' = cli
        PROVE  ExitInv'
    BY <2>5, ExitServe
  <2>6. ASSUME NEW r \in Reqs, \/ Store(r) \/ Continue(r) \/ Receive(r) \/ Poll(r) \/ GiveUp(r)
        PROVE  ExitInv'
    BY <2>2, <2>6, ExitStore, ExitContinues, ExitReceives, ExitLeaves
  <2> QED BY <2>1, <2>3, <2>4, <2>5, <2>6 DEF Next
<1> QED BY <1>1, <1>2, <1>3, PTL DEF Spec
=============================================================================
