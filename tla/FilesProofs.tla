------------------------------ MODULE FilesProofs ------------------------------
(***************************************************************************)
(* Proofs about Files, for any number of generations, values, requests and *)
(* registries, and any scenario unless a theorem names a condition: what a *)
(* restart or a power failure finds is what slipd said.                    *)
(***************************************************************************)
EXTENDS Files, TLAPS

FsFields == {"mem", "disk", "soft"}
OpFields == {"kind", "at", "val", "temp", "orphan", "host", "index"}

\* A file system, with an entry or none for every path.
IsFs(f) == /\ f = [x \in FsFields |-> f[x]]
           /\ f.mem = [p \in Paths |-> f.mem[p]] /\ f.disk = [p \in Paths |-> f.disk[p]]

\* Path p is the same in f and g; g differs from f only below the directories D.
Same(f, g, p) ==
  /\ g.mem[p] = f.mem[p] /\ g.disk[p] = f.disk[p]
  /\ p \in g.soft <=> p \in f.soft

Within(D, f, g) == IsFs(g) /\ \A p \in Paths : p[1] \notin D => Same(f, g, p)

\* The directories of the secret bundle, and those of the app.
BundleDirs == {"inst"} \cup Gens
AppDirs == {"app", "base"}

\* The steps of each kind of operation.
GenSteps == {"mkdir", "mkdirsync", "raw", "pgpass", "gensync", "tmp", "tmpsync", "rename"}
RollbackSteps == {"rb_tmp", "rb_raw", "rb_pgpass", "rb_dir"}
SetSteps == {"dir", "basesync", "write", "setrename", "setsync"}
ApplySteps == {"open", "fill", "cfgrename", "publish"}
LoginSteps == {"password", "readindex", "openindex", "fillindex", "renameindex"}

AtOK(kind, at) ==
  \/ kind = "none" /\ at = "idle"
  \/ kind = "generate" /\ at \in GenSteps \cup RollbackSteps \cup {"activesync", "rb_sync"}
  \/ kind = "cleanup" /\ at \in {"rb_raw", "rb_pgpass", "rb_dir", "rb_sync"}
  \/ kind \in {"set", "key"} /\ at \in SetSteps
  \/ kind = "clear" /\ at = "unlink"
  \/ kind = "apply" /\ at \in ApplySteps
  \/ kind \in {"login", "logout"} /\ at \in LoginSteps

OpOK(o, q) ==
  /\ q = [f \in OpFields |-> q[f]]
  /\ AtOK(q.kind, q.at)
  /\ q.kind # "none" => q.kind \in env.kinds
  /\ o = "svc" => q.kind \in {"none", "generate", "cleanup"}
  /\ q.kind \in {"generate", "cleanup"} => o = "svc"
  /\ q.kind \in {"generate", "cleanup"} => q.val \in Gens
  /\ q.kind \in {"set", "key", "apply", "login"} => q.val \in Values
  /\ q.kind \in {"login", "logout"} => q.host \in Hosts /\ (q.kind = "logout" => q.val = Nil)
  /\ \/ q.orphan = FALSE
     \/ q.orphan = TRUE /\ q.kind = "apply" /\ "disconnect" \in env.events

\* What holds of files and operations at every step.
BaseInv ==
  /\ env \in Scenarios /\ IsFs(fs) /\ used \subseteq Gens
  /\ op = [o \in Ops |-> op[o]]
  /\ \A o \in Ops : OpOK(o, op[o])

-----------------------------------------------------------------------------
(* The file system.                                                        *)

\* A write, synced or not, changes one entry.
LEMMA WroteFs ==
  ASSUME NEW f, IsFs(f), NEW p \in Paths, NEW v
  PROVE  LET g == Wrote(f, p, v) IN
         /\ IsFs(g) /\ g.mem[p] = v /\ g.disk = f.disk /\ g.soft = f.soft \ {p}
         /\ \A q \in Paths : q # p => g.mem[q] = f.mem[q]
BY DEF IsFs, Wrote, FsFields

\* A write without a sync of its data.
LEMMA WroteSoftFs ==
  ASSUME NEW f, IsFs(f), NEW p \in Paths, NEW v
  PROVE  LET g == WroteSoft(f, p, v) IN
         /\ IsFs(g) /\ g.mem[p] = v /\ g.disk = f.disk /\ g.soft = f.soft \cup {p}
         /\ \A q \in Paths : q # p => g.mem[q] = f.mem[q]
BY DEF IsFs, WroteSoft, FsFields

\* An unlink removes one entry.
LEMMA UnlinkedFs ==
  ASSUME NEW f, IsFs(f), NEW p \in Paths
  PROVE  LET g == Unlinked(f, p) IN
         /\ IsFs(g) /\ g.mem[p] = Nil /\ g.disk = f.disk /\ g.soft = f.soft \ {p}
         /\ \A q \in Paths : q # p => g.mem[q] = f.mem[q]
BY DEF IsFs, Unlinked, FsFields

\* A rename changes two.
LEMMA RenamedFs ==
  ASSUME NEW f, IsFs(f), NEW p \in Paths, NEW r \in Paths, p # r
  PROVE  LET g == Renamed(f, p, r) IN
         /\ IsFs(g) /\ g.mem[r] = f.mem[p] /\ g.mem[p] = Nil /\ g.disk = f.disk
         /\ \A q \in Paths : q # p /\ q # r =>
              /\ g.mem[q] = f.mem[q]
              /\ q \in g.soft <=> q \in f.soft
         /\ r \in g.soft <=> p \in f.soft
         /\ p \notin g.soft
<1> DEFINE g == Renamed(f, p, r)
           m == [[f.mem EXCEPT ![r] = f.mem[p]] EXCEPT ![p] = Nil]
           s == IF p \in f.soft THEN (f.soft \ {p}) \cup {r} ELSE f.soft \ {r}
<1>1. g = [[f EXCEPT !.mem = m] EXCEPT !.soft = s]
  BY DEF Renamed, IsFs, FsFields
<1>2. /\ m = [q \in Paths |-> m[q]] /\ m[r] = f.mem[p] /\ m[p] = Nil
      /\ \A q \in Paths : q # p /\ q # r => m[q] = f.mem[q]
  BY DEF IsFs
<1>3. g = [x \in FsFields |-> g[x]] /\ g.mem = m /\ g.soft = s /\ g.disk = f.disk
  BY <1>1 DEF IsFs, FsFields
<1> HIDE DEF g, m
<1> QED BY <1>2, <1>3 DEF IsFs, g

\* A sync makes the entries of one directory durable.
LEMMA SyncedFs ==
  ASSUME NEW f, IsFs(f), NEW d
  PROVE  LET g == Synced(f, d) IN
         /\ IsFs(g) /\ g.mem = f.mem /\ g.soft = f.soft
         /\ \A q \in Paths : g.disk[q] = IF q[1] = d THEN f.mem[q] ELSE f.disk[q]
BY DEF IsFs, Synced, FsFields

\* After a power failure an entry is as it was in memory or on disk, or gone with its
\* directory; it is there if both have its directory, and only unsynced data is cut.
LEMMA PowerFs ==
  ASSUME NEW f, IsFs(f), NEW g \in AfterPowerLoss(f)
  PROVE  /\ IsFs(g) /\ g.mem = g.disk /\ g.soft = {}
         /\ \A p \in Paths : p \notin f.soft => g.mem[p] \in {f.mem[p], f.disk[p], Nil}
         /\ \A p \in Paths : p \notin f.soft /\ p[1] \in Roots => g.mem[p] \in {f.mem[p], f.disk[p]}
         /\ \A p \in Paths, d \in Paths :
              /\ d[1] \in Roots /\ d[2] = p[1] /\ d \notin f.soft /\ p \notin f.soft
              /\ f.mem[d] # Nil /\ f.disk[d] # Nil
              => g.mem[p] \in {f.mem[p], f.disk[p]}
<1>1. PICK kept \in SUBSET {p \in Paths : f.mem[p] # f.disk[p]}, cut \in SUBSET f.soft :
        g = LET m == Pruned([p \in Paths |-> IF p \in cut THEN Torn
                                    ELSE IF p \in kept THEN f.mem[p] ELSE f.disk[p]])
            IN [mem |-> m, disk |-> m, soft |-> {}]
  BY SMTT(60) DEF AfterPowerLoss
<1> DEFINE w == [p \in Paths |-> IF p \in cut THEN Torn
                                 ELSE IF p \in kept THEN f.mem[p] ELSE f.disk[p]]
<1>2. g = [mem |-> Pruned(w), disk |-> Pruned(w), soft |-> {}]
  BY <1>1
<1>3. \A p \in Paths : p \notin f.soft => w[p] \in {f.mem[p], f.disk[p]}
  OBVIOUS
<1> HIDE DEF w
<1>4. /\ IsFs(g) /\ g.mem = g.disk /\ g.soft = {} /\ g.mem = Pruned(w)
  BY <1>2 DEF IsFs, FsFields, Pruned
<1>5. \A p \in Paths : g.mem[p] = IF IsDir(w, p[1]) THEN w[p] ELSE Nil
  BY <1>4 DEF Pruned
<1>6. \A p \in Paths : p[1] \in Roots => g.mem[p] = w[p]
  BY <1>5 DEF IsDir
<1>7. ASSUME NEW p \in Paths, NEW d \in Paths,
             d[1] \in Roots, d[2] = p[1], d \notin f.soft, p \notin f.soft, f.mem[d] # Nil, f.disk[d] # Nil
      PROVE  g.mem[p] \in {f.mem[p], f.disk[p]}
  <2>1. w[d] # Nil
    BY <1>3, <1>7
  <2>2. IsDir(w, p[1])
    BY <1>7, <2>1 DEF IsDir
  <2> QED BY <1>3, <1>5, <1>7, <2>2
<1> QED BY <1>3, <1>4, <1>5, <1>6, <1>7

\* The paths.
LEMMA PathNames ==
  /\ Active \in Paths /\ PointerTemp \in Paths /\ AppDir \in Paths /\ Key \in Paths
  /\ Config \in Paths /\ ConfigTemp \in Paths /\ RegistryIndex \in Paths /\ RegistryTemp \in Paths
  /\ \A g \in Gens : GenDir(g) \in Paths /\ Raw(g) \in Paths /\ Pgpass(g) \in Paths
  /\ \A o \in Requests : SetTemp(o) \in Paths
  /\ \A h \in Hosts : RegistryKey(h) \in Paths
BY FilesAssumption DEF Active, PointerTemp, AppDir, Key, Config, ConfigTemp, RegistryIndex,
     RegistryTemp, GenDir, Raw, Pgpass, SetTemp, RegistryKey

\* The directory and the name of each path.
LEMMA PathParts ==
  /\ Active[1] = "inst" /\ Active[2] = "active" /\ PointerTemp[1] = "inst" /\ PointerTemp[2] = "tmp"
  /\ AppDir[1] = "base" /\ AppDir[2] = "app" /\ Key[1] = "app" /\ Key[2] = "key"
  /\ Config[1] = "apps" /\ Config[2] = "cfg" /\ ConfigTemp[1] = "apps" /\ ConfigTemp[2] = "cfgtmp"
  /\ RegistryIndex[1] = "reg" /\ RegistryIndex[2] = "index"
  /\ RegistryTemp[1] = "reg" /\ RegistryTemp[2] = "indextmp"
  /\ \A g : GenDir(g)[1] = "inst" /\ GenDir(g)[2] = g
  /\ \A g : Raw(g)[1] = g /\ Raw(g)[2] = "raw" /\ Pgpass(g)[1] = g /\ Pgpass(g)[2] = "pgpass"
  /\ \A o : SetTemp(o)[1] = "app" /\ SetTemp(o)[2] = o
  /\ \A h : RegistryKey(h)[1] = "reg" /\ RegistryKey(h)[2] = h
BY DEF Active, PointerTemp, AppDir, Key, Config, ConfigTemp, RegistryIndex,
     RegistryTemp, GenDir, Raw, Pgpass, SetTemp, RegistryKey

\* The names of generations, requests and registries are none of the fixed ones.
LEMMA OwnNames ==
  /\ \A x \in FixedNames : x \notin Gens /\ x \notin Requests /\ x \notin Hosts
  /\ "svc" \notin Requests /\ Nil # Torn
  /\ \A x \in Gens \cup Values : x # Nil /\ x # Torn
BY FilesAssumption

\* What a path below each directory is called.
LEMMA PathShape ==
  ASSUME NEW p \in Paths
  PROVE  /\ p[1] \in {"inst", "base", "app", "apps", "reg"} \cup Gens
         /\ p[2] \in FixedNames \cup Hosts \cup Gens \cup Requests
         /\ p[2] \notin {"inst", "base", "apps", "reg"}
         /\ p[2] = "app" => p = AppDir
<1>1. \/ p \in {<<"inst", "active">>, <<"inst", "tmp">>, <<"base", "app">>, <<"app", "key">>,
              <<"apps", "cfg">>, <<"apps", "cfgtmp">>, <<"reg", "index">>, <<"reg", "indextmp">>}
      \/ \E h \in Hosts : p = <<"reg", h>>
      \/ \E g \in Gens : p = <<"inst", g>>
      \/ \E r \in Requests : p = <<"app", r>>
      \/ \E g \in Gens : p = <<g, "raw">> \/ p = <<g, "pgpass">>
  BY FilesAssumption
<1> QED BY <1>1, OwnNames DEF FixedNames, AppDir

\* The directories that are always there.
LEMMA RootDirs ==
  "inst" \in Roots /\ "base" \in Roots /\ "apps" \in Roots /\ "reg" \in Roots /\ "app" \notin Roots
<1>1. \A p \in Paths : p[2] \notin {"inst", "base", "apps", "reg"}
  BY PathShape
<1>2. AppDir \in Paths /\ AppDir[2] = "app"
  BY PathNames, PathParts
<1> QED BY <1>1, <1>2, PathNames, PathParts DEF Roots

\* The namespace of the app is there when its entry is.
LEMMA Namespace ==
  ASSUME NEW m
  PROVE  IsDir(m, "app") <=> m[AppDir] # Nil
BY RootDirs, PathShape, PathNames, PathParts DEF IsDir

-----------------------------------------------------------------------------
(* Operations.                                                             *)

\* Only operation o moves.
Alone(o) == /\ op' = [q \in Ops |-> op'[q]]
            /\ \A q \in Ops : q # o => op'[q] = op[q]

\* Operation o goes on at step `at`.
On(o, at) ==
  LET q == op'[o] IN
  /\ Alone(o) /\ q = [f \in OpFields |-> q[f]] /\ q.at = at
  /\ q.kind = op[o].kind /\ q.val = op[o].val /\ q.temp = op[o].temp
  /\ q.orphan = op[o].orphan /\ q.host = op[o].host /\ q.index = op[o].index

\* No operation.
LEMMA NoOpFacts ==
  /\ NoOp = [f \in OpFields |-> NoOp[f]] /\ NoOp.kind = "none" /\ NoOp.at = "idle"
  /\ NoOp.orphan = FALSE /\ NoOp.val = Nil
  /\ \A o \in Ops : OpOK(o, NoOp)
<1>1. /\ NoOp = [f \in OpFields |-> NoOp[f]] /\ NoOp.kind = "none" /\ NoOp.at = "idle"
      /\ NoOp.orphan = FALSE /\ NoOp.val = Nil
  BY DEF NoOp, OpFields
<1> QED BY <1>1 DEF OpOK, AtOK

\* What the forms of a step do to the operations.
LEMMA GoesOn ==
  ASSUME BaseInv, NEW o \in Ops, NEW f, NEW at, Goes(o, f, at)
  PROVE  fs' = f /\ On(o, at)
<1>1. op = [q \in Ops |-> op[q]] /\ op[o] = [x \in OpFields |-> op[o][x]]
  BY DEF BaseInv, OpOK
<1>2. op'[o] = [op[o] EXCEPT !.at = at] /\ Alone(o)
  BY <1>1 DEF Goes, Alone
<1>3. fs' = f
  BY DEF Goes
<1> QED BY <1>1, <1>2, <1>3 DEF On, OpFields

\* An operation that ends.
LEMMA EndsSo ==
  ASSUME BaseInv, NEW o \in Ops, NEW f, Ends(o, f)
  PROVE  fs' = f /\ Alone(o) /\ op'[o] = NoOp
BY DEF BaseInv, Ends, Alone

\* An operation that starts.
LEMMA Begins ==
  ASSUME BaseInv, NEW o \in Ops, NEW kind, NEW at, NEW v, Begin(o, kind, at, v)
  PROVE  LET q == op'[o] IN
         /\ Alone(o) /\ q = [f \in OpFields |-> q[f]]
         /\ q.kind = kind /\ q.at = at /\ q.val = v /\ q.orphan = FALSE /\ q.temp = FALSE
<1>1. Alone(o) /\ op'[o] = [[[NoOp EXCEPT !.kind = kind] EXCEPT !.at = at] EXCEPT !.val = v]
  BY DEF BaseInv, Begin, Alone
<1>2. NoOp = [f \in OpFields |-> NoOp[f]] /\ NoOp.orphan = FALSE /\ NoOp.temp = FALSE
  BY DEF NoOp, OpFields
<1> QED BY <1>1, <1>2 DEF OpFields

\* The operations stay in order when one that moves is.
LEMMA OpsKept ==
  ASSUME BaseInv, NEW o \in Ops, Alone(o), env' = env, IsFs(fs'), used' \subseteq Gens,
         OpOK(o, op'[o])
  PROVE  BaseInv'
<1>1. \A q \in Ops : OpOK(q, op'[q])
  BY DEF Alone, BaseInv
<1> QED BY <1>1 DEF Alone, BaseInv, OpOK

\* An operation that goes on stays in order.
LEMMA OnOK ==
  ASSUME BaseInv, NEW o \in Ops, NEW at, On(o, at), AtOK(op[o].kind, at)
  PROVE  OpOK(o, op'[o])
<1>1. OpOK(o, op[o])
  BY DEF BaseInv
<1> QED BY <1>1 DEF On, OpOK

\* A step that starts an operation.
LEMMA BeginsOK ==
  ASSUME BaseInv, NEW o \in Ops, NEW kind, NEW at, NEW v, Begin(o, kind, at, v), Idle(o, kind),
         AtOK(kind, at), o = "svc" <=> kind \in {"generate", "cleanup"},
         kind \notin {"login", "logout"}, kind \in {"generate", "cleanup"} => v \in Gens,
         kind \in {"set", "key", "apply"} => v \in Values,
         UNCHANGED <<fs, env>>, used' \subseteq Gens
  PROVE  BaseInv'
<1>0. LET q == op'[o] IN
      /\ Alone(o) /\ q = [f \in OpFields |-> q[f]]
      /\ q.kind = kind /\ q.at = at /\ q.val = v /\ q.orphan = FALSE
  BY Begins
<1>1. OpOK(o, op'[o]) /\ Alone(o)
  BY <1>0 DEF OpOK, Idle
<1>2. IsFs(fs')
  BY DEF BaseInv
<1> QED BY <1>1, <1>2, OpsKept

\* A kind of operation is at its own steps only.
LEMMA KindAt ==
  ASSUME BaseInv, NEW o \in Ops
  PROVE  /\ op[o].at \in SetSteps => op[o].kind \in {"set", "key"}
         /\ op[o].at = "unlink" => op[o].kind = "clear"
         /\ op[o].at \in ApplySteps => op[o].kind = "apply"
         /\ op[o].at \in LoginSteps => op[o].kind \in {"login", "logout"}
         /\ op[o].at \in GenSteps \cup {"activesync", "rb_tmp"} => op[o].kind = "generate"
         /\ op[o].at \in RollbackSteps \cup {"rb_sync"} => op[o].kind \in {"generate", "cleanup"}
         /\ op[o].at = "idle" => op[o].kind = "none"
         /\ AtOK(op[o].kind, op[o].at)
<1>1. AtOK(op[o].kind, op[o].at)
  BY DEF BaseInv, OpOK
<1> QED BY <1>1 DEF AtOK, SetSteps, ApplySteps, LoginSteps, GenSteps, RollbackSteps

\* Steps that change entries below the directories D only.
LEMMA WithinWrote ==
  ASSUME NEW f, IsFs(f), NEW p \in Paths, NEW v, NEW D, p[1] \in D
  PROVE  /\ Within(D, f, Wrote(f, p, v)) /\ Within(D, f, WroteSoft(f, p, v))
         /\ Within(D, f, Unlinked(f, p))
<1>1. \A q \in Paths : q[1] \notin D => q # p
  OBVIOUS
<1>2. Within(D, f, Wrote(f, p, v))
  BY <1>1, WroteFs DEF Within, Same
<1>3. Within(D, f, WroteSoft(f, p, v))
  BY <1>1, WroteSoftFs DEF Within, Same
<1>4. Within(D, f, Unlinked(f, p))
  BY <1>1, UnlinkedFs DEF Within, Same
<1> QED BY <1>2, <1>3, <1>4

\* A rename below D.
LEMMA WithinRenamed ==
  ASSUME NEW f, IsFs(f), NEW p \in Paths, NEW r \in Paths, p # r, NEW D, p[1] \in D, r[1] \in D
  PROVE  Within(D, f, Renamed(f, p, r))
<1>1. \A q \in Paths : q[1] \notin D => q # p /\ q # r
  OBVIOUS
<1>2. LET g == Renamed(f, p, r) IN
      /\ IsFs(g) /\ g.disk = f.disk
      /\ \A q \in Paths : q[1] \notin D =>
           g.mem[q] = f.mem[q] /\ (q \in g.soft <=> q \in f.soft)
  BY <1>1, RenamedFs
<1> QED BY <1>2 DEF Within, Same

\* A sync of a directory of D.
LEMMA WithinSynced ==
  ASSUME NEW f, IsFs(f), NEW D, NEW d \in D
  PROVE  Within(D, f, Synced(f, d)) /\ Within(D, f, f)
BY SyncedFs DEF Within, Same

-----------------------------------------------------------------------------
(* Steps of the secret bundle.                                             *)

BundleStep == Generate \/ GenerateStep \/ Commit \/ RollbackStep \/ RollbackSync \/ Cleanup

\* What a step of generate, or a failed one, does to the files.
LEMMA EffectWithin ==
  ASSUME BaseInv, NEW g \in Gens, NEW at \in GenSteps
  PROVE  Within(BundleDirs, fs, Effect(at, g)) /\ Within(BundleDirs, fs, PartialEffect(at, g))
<1>1. IsFs(fs) /\ "inst" \in BundleDirs /\ g \in BundleDirs
  BY DEF BaseInv, BundleDirs
<1>2. /\ GenDir(g) \in Paths /\ Raw(g) \in Paths /\ Pgpass(g) \in Paths /\ PointerTemp \in Paths
      /\ Active \in Paths /\ GenDir(g)[1] \in BundleDirs /\ Raw(g)[1] \in BundleDirs
      /\ Pgpass(g)[1] \in BundleDirs /\ PointerTemp[1] \in BundleDirs /\ Active[1] \in BundleDirs
      /\ PointerTemp # Active
  BY <1>1, PathNames, PathParts
<1>3. CASE at = "mkdir"
  BY <1>1, <1>2, <1>3, WithinWrote, WithinSynced DEF Effect, PartialEffect
<1>4. CASE at \in {"mkdirsync", "tmpsync"}
  BY <1>1, <1>2, <1>4, WithinSynced DEF Effect, PartialEffect
<1>5. CASE at = "raw"
  BY <1>1, <1>2, <1>5, WithinWrote DEF Effect, PartialEffect
<1>6. CASE at = "pgpass"
  BY <1>1, <1>2, <1>6, WithinWrote DEF Effect, PartialEffect
<1>7. CASE at = "gensync"
  BY <1>1, <1>2, <1>7, WithinSynced DEF Effect, PartialEffect
<1>8. CASE at = "tmp"
  BY <1>1, <1>2, <1>8, WithinWrote DEF Effect, PartialEffect
<1>9. CASE at = "rename"
  BY <1>1, <1>2, <1>9, WithinRenamed, WithinSynced DEF Effect, PartialEffect
<1> QED BY <1>3, <1>4, <1>5, <1>6, <1>7, <1>8, <1>9 DEF GenSteps

\* An operation is a record of its fields.
LEMMA OpShape ==
  ASSUME BaseInv, NEW o \in Ops
  PROVE  op = [q \in Ops |-> op[q]] /\ op[o] = [f \in OpFields |-> op[o][f]]
<1>1. op = [q \in Ops |-> op[q]] /\ OpOK(o, op[o])
  BY DEF BaseInv
<1> QED BY <1>1 DEF OpOK

\* The operation after a step of generate.
LEMMA GenerateOp ==
  ASSUME BaseInv, NEW at, NEW t
  PROVE  op' = [op EXCEPT !["svc"].at = at, !["svc"].temp = t] =>
         LET q == op'["svc"] IN
         /\ Alone("svc") /\ q = [f \in OpFields |-> q[f]] /\ q.at = at /\ q.temp = t
         /\ q.kind = op["svc"].kind /\ q.val = op["svc"].val /\ q.orphan = op["svc"].orphan
         /\ q.host = op["svc"].host
<1> DEFINE k == op["svc"]
           x == [op EXCEPT !["svc"].at = at]
           y == [k EXCEPT !.at = at]
           z == [y EXCEPT !.temp = t]
<1>1. SUFFICES ASSUME op' = [op EXCEPT !["svc"].at = at, !["svc"].temp = t]
               PROVE  LET q == op'["svc"] IN
                      /\ Alone("svc") /\ q = [f \in OpFields |-> q[f]] /\ q.at = at /\ q.temp = t
                      /\ q.kind = k.kind /\ q.val = k.val /\ q.orphan = k.orphan /\ q.host = k.host
  OBVIOUS
<1>a. "svc" \in Ops
  BY DEF Ops
<1>2. "svc" \in Ops /\ op = [q \in Ops |-> op[q]] /\ k = [f \in OpFields |-> k[f]]
  BY <1>a, OpShape
<1>3. op' = [x EXCEPT !["svc"].temp = t]
  BY <1>1
<1>4. /\ x = [q \in Ops |-> x[q]] /\ x["svc"] = y
      /\ \A q \in Ops : q # "svc" => x[q] = op[q]
  BY <1>2
<1> HIDE DEF x
<1>5. op'["svc"] = z
  BY <1>2, <1>3, <1>4
<1>6. Alone("svc")
  BY <1>2, <1>3, <1>4 DEF Alone
<1> HIDE DEF k
<1>7. /\ y = [f \in OpFields |-> y[f]] /\ y.at = at /\ y.kind = k.kind /\ y.val = k.val
      /\ y.orphan = k.orphan /\ y.host = k.host
  BY <1>2 DEF OpFields
<1> HIDE DEF y
<1>8. /\ z = [f \in OpFields |-> z[f]] /\ z.temp = t /\ z.at = at /\ z.kind = k.kind
      /\ z.val = k.val /\ z.orphan = k.orphan /\ z.host = k.host
  BY <1>7 DEF OpFields
<1> HIDE DEF z
<1> QED BY <1>5, <1>6, <1>8

\* Steps of the bundle leave the other files and operations alone.
LEMMA BundleFrame ==
  ASSUME BaseInv, BundleStep
  PROVE  /\ BaseInv' /\ Within(BundleDirs, fs, fs') /\ Alone("svc")
         /\ UNCHANGED <<env, live, ack, logins>>
<1>0. "svc" \in Ops /\ IsFs(fs) /\ OpOK("svc", op["svc"]) /\ Within(BundleDirs, fs, fs)
  BY DEF Ops, BaseInv, Within, Same
<1>1. CASE Generate
  <2>1. PICK g \in Gens \ used : used' = used \cup {g} /\ Begin("svc", "generate", "mkdir", g)
    BY <1>1 DEF Generate
  <2>2. Idle("svc", "generate") /\ UNCHANGED <<fs, env, live, ack, logins>>
    BY <1>1 DEF Generate
  <2>3. BaseInv'
    <3>1. used' \subseteq Gens
      BY <2>1 DEF BaseInv
    <3> QED BY <1>0, <2>1, <2>2, <3>1, BeginsOK DEF AtOK, GenSteps
  <2>4. Alone("svc")
    BY <1>0, <2>1, Begins
  <2> QED BY <1>0, <2>2, <2>3, <2>4
<1>2. CASE Cleanup
  <2>1. PICK g \in used \ {fs.mem[Active]} : Begin("svc", "cleanup", "rb_raw", g)
    BY <1>2 DEF Cleanup
  <2>2. Idle("svc", "cleanup") /\ UNCHANGED <<fs, env, used, live, ack, logins>>
    BY <1>2 DEF Cleanup
  <2>3. BaseInv'
    <3>1. used' \subseteq Gens /\ g \in Gens
      BY <2>1, <2>2 DEF BaseInv
    <3> QED BY <1>0, <2>1, <2>2, <3>1, BeginsOK DEF AtOK
  <2>4. Alone("svc")
    BY <1>0, <2>1, Begins
  <2> QED BY <1>0, <2>2, <2>3, <2>4
<1>3. SUFFICES ASSUME GenerateStep \/ Commit \/ RollbackStep \/ RollbackSync
               PROVE  /\ OpOK("svc", op'["svc"]) /\ Within(BundleDirs, fs, fs') /\ Alone("svc")
                      /\ UNCHANGED <<env, used, live, ack, logins>>
  <2>1. CASE GenerateStep \/ Commit \/ RollbackStep \/ RollbackSync
    <3>1. /\ OpOK("svc", op'["svc"]) /\ Within(BundleDirs, fs, fs') /\ Alone("svc")
          /\ UNCHANGED <<env, used, live, ack, logins>>
      BY <1>3, <2>1
    <3>2. used' \subseteq Gens /\ IsFs(fs')
      BY <3>1 DEF BaseInv, Within
    <3>3. BaseInv'
      BY <1>0, <3>1, <3>2, OpsKept
    <3> QED BY <3>1, <3>3
  <2> QED BY <1>1, <1>2, <2>1 DEF BundleStep
<1>4. CASE GenerateStep
  <2> DEFINE at == op["svc"].at
             g == op["svc"].val
  <2>1. at \in GenSteps /\ op["svc"].kind = "generate" /\ UNCHANGED <<env, used, live, ack, logins>>
    BY <1>4 DEF GenerateStep, GenSteps
  <2>2. g \in Gens
    BY <1>0, <2>1 DEF OpOK
  <2>3. Within(BundleDirs, fs, Effect(at, g)) /\ Within(BundleDirs, fs, PartialEffect(at, g))
    BY <2>1, <2>2, EffectWithin
  <2>4. CASE fs' = Effect(at, g) /\ \E t : op' = [op EXCEPT !["svc"].at = AfterStep(at), !["svc"].temp = t]
    <3>1. AtOK("generate", AfterStep(at))
      BY <2>1 DEF AtOK, AfterStep, GenSteps
    <3>2. PICK t : op' = [op EXCEPT !["svc"].at = AfterStep(at), !["svc"].temp = t]
      BY <2>4
    <3> HIDE DEF at, g
    <3>3. OpOK("svc", op'["svc"]) /\ Alone("svc")
      BY <1>0, <2>1, <3>1, <3>2, GenerateOp DEF OpOK
    <3> QED BY <2>1, <2>3, <2>4, <3>3
  <2>5. CASE /\ fs' \in {fs, PartialEffect(at, g)}
             /\ op' = [op EXCEPT !["svc"].at = IF op["svc"].temp THEN "rb_tmp" ELSE "rb_raw"]
    <3> DEFINE next == IF op["svc"].temp THEN "rb_tmp" ELSE "rb_raw"
    <3>1. AtOK(op["svc"].kind, next)
      BY <2>1 DEF AtOK, RollbackSteps
    <3>2. Goes("svc", fs', next)
      BY <2>5 DEF Goes
    <3> HIDE DEF next
    <3>3. On("svc", next)
      BY <1>0, <3>2, GoesOn
    <3>4. OpOK("svc", op'["svc"]) /\ Alone("svc")
      BY <1>0, <3>1, <3>3, OnOK DEF On
    <3> QED BY <1>0, <2>1, <2>3, <2>5, <3>4
  <2>6. CASE Ends("svc", fs)
    BY <1>0, <2>1, <2>6, EndsSo, NoOpFacts
  <2> QED BY <1>4, <2>4, <2>5, <2>6 DEF GenerateStep
<1>5. CASE Commit \/ RollbackSync
  <2>1. \/ Ends("svc", Synced(fs, "inst")) \/ Ends("svc", fs)
    BY <1>5 DEF Commit, RollbackSync
  <2>2. "inst" \in BundleDirs
    BY DEF BundleDirs
  <2>3. Within(BundleDirs, fs, Synced(fs, "inst"))
    BY <1>0, <2>2, WithinSynced
  <2> QED BY <1>0, <1>5, <2>1, <2>3, EndsSo, NoOpFacts DEF Commit, RollbackSync
<1>6. CASE RollbackStep
  <2> DEFINE at == op["svc"].at
             p == RollbackPath(at, op["svc"].val)
  <2>1. /\ at \in RollbackSteps /\ UNCHANGED <<env, used, live, ack, logins>>
        /\ \/ Goes("svc", Unlinked(fs, p), AfterRollback(at)) \/ Goes("svc", fs, AfterRollback(at))
           \/ Ends("svc", fs)
    BY <1>6 DEF RollbackStep, RollbackSteps
  <2>2. op["svc"].kind \in {"generate", "cleanup"} /\ AtOK(op["svc"].kind, op["svc"].at)
    BY <1>0, <2>1, KindAt
  <2>3. op["svc"].val \in Gens
    BY <1>0, <2>2 DEF OpOK
  <2>4. p \in Paths /\ p[1] \in BundleDirs
    BY <2>1, <2>3, PathNames, PathParts DEF RollbackPath, RollbackSteps, BundleDirs
  <2>5. Within(BundleDirs, fs, Unlinked(fs, p))
    BY <1>0, <2>4, WithinWrote
  <2>6. AtOK(op["svc"].kind, AfterRollback(at))
    BY <2>1, <2>2 DEF AtOK, AfterRollback, RollbackSteps
  <2>7. CASE Ends("svc", fs)
    BY <1>0, <2>1, <2>7, EndsSo, NoOpFacts
  <2> HIDE DEF at, p
  <2>8. CASE Goes("svc", Unlinked(fs, p), AfterRollback(at)) \/ Goes("svc", fs, AfterRollback(at))
    <3>1. On("svc", AfterRollback(at)) /\ fs' \in {fs, Unlinked(fs, p)}
      BY <1>0, <2>8, GoesOn
    <3>2. OpOK("svc", op'["svc"]) /\ Alone("svc")
      BY <1>0, <2>6, <3>1, OnOK DEF On
    <3> QED BY <1>0, <2>1, <2>5, <3>1, <3>2
  <2> QED BY <2>1, <2>7, <2>8
<1> QED BY <1>3, <1>4, <1>5, <1>6

-----------------------------------------------------------------------------
(* Steps of requests.                                                      *)

\* A step of o below the directories D.
LEMMA RequestKept ==
  ASSUME BaseInv, NEW o \in Ops, NEW D, Alone(o), OpOK(o, op'[o]), Within(D, fs, fs'),
         UNCHANGED <<env, used>>
  PROVE  BaseInv'
<1>1. IsFs(fs') /\ used' \subseteq Gens
  BY DEF Within, BaseInv
<1> QED BY <1>1, OpsKept

\* One call below D, after which o goes on or ends.
LEMMA CallKept ==
  ASSUME BaseInv, NEW o \in Requests, NEW D, NEW f, NEW at, Within(D, fs, f),
         (Goes(o, f, at) /\ AtOK(op[o].kind, at)) \/ Ends(o, f), UNCHANGED <<env, used>>
  PROVE  BaseInv' /\ Within(D, fs, fs') /\ Alone(o)
<1>1. o \in Ops
  BY DEF Ops
<1>2. CASE Goes(o, f, at) /\ AtOK(op[o].kind, at)
  <2>1. fs' = f /\ On(o, at)
    BY <1>1, <1>2, GoesOn
  <2>2. OpOK(o, op'[o]) /\ Alone(o)
    BY <1>1, <1>2, <2>1, OnOK DEF On
  <2> QED BY <1>1, <2>1, <2>2, RequestKept
<1>3. CASE Ends(o, f)
  <2>1. fs' = f /\ OpOK(o, op'[o]) /\ Alone(o)
    BY <1>1, <1>3, EndsSo, NoOpFacts
  <2> QED BY <1>1, <2>1, RequestKept
<1> QED BY <1>2, <1>3

SetStep(o) ==
  \/ \E v \in Values : SetSecrets(o, v) \/ SetDeployKey(o, v)
  \/ EnsureAppDir(o) \/ SyncBase(o) \/ SetWrite(o) \/ SetRename(o) \/ SetSync(o)
  \/ RemoveSecret(o) \/ Clear(o) \/ ClearStep(o)

\* The steps that set and remove the secrets of the app.
LEMMA SetFrame ==
  ASSUME BaseInv, NEW o \in Requests, SetStep(o)
  PROVE  /\ BaseInv' /\ Within(AppDirs, fs, fs') /\ Alone(o)
         /\ UNCHANGED <<env, used, live, logins>>
<1>0. /\ o \in Ops /\ o # "svc" /\ IsFs(fs) /\ Within(AppDirs, fs, fs) /\ used \subseteq Gens
      /\ OpOK(o, op[o])
  BY OwnNames DEF Ops, BaseInv, Within, Same
<1>1. UNCHANGED <<env, used, live, logins>>
  BY DEF SetStep, SetSecrets, SetDeployKey, EnsureAppDir, SyncBase, SetWrite, SetRename, SetSync,
     RemoveSecret, Clear, ClearStep
<1>2. /\ AppDir \in Paths /\ Key \in Paths /\ SetTemp(o) \in Paths /\ SetTemp(o) # Key
      /\ AppDir[1] \in AppDirs /\ Key[1] \in AppDirs /\ SetTemp(o)[1] \in AppDirs
  BY PathNames, PathParts, OwnNames DEF AppDirs, FixedNames
<1>3. ASSUME NEW v \in Values, SetSecrets(o, v) \/ SetDeployKey(o, v)
      PROVE  BaseInv' /\ Within(AppDirs, fs, fs') /\ Alone(o)
  <2>1. /\ fs' = fs
        /\ \/ Begin(o, "set", "dir", v) /\ Idle(o, "set")
           \/ Begin(o, "key", "dir", v) /\ Idle(o, "key")
    BY <1>3 DEF SetSecrets, SetDeployKey
  <2>2. AtOK("set", "dir") /\ AtOK("key", "dir")
    BY DEF AtOK, SetSteps
  <2>3. CASE Begin(o, "set", "dir", v) /\ Idle(o, "set")
    <3>1. BaseInv'
      BY <1>0, <1>1, <2>1, <2>2, <2>3, BeginsOK
    <3> QED BY <1>0, <2>1, <2>3, <3>1, Begins
  <2>4. CASE Begin(o, "key", "dir", v) /\ Idle(o, "key")
    <3>1. BaseInv'
      BY <1>0, <1>1, <2>1, <2>2, <2>4, BeginsOK
    <3> QED BY <1>0, <2>1, <2>4, <3>1, Begins
  <2> QED BY <2>1, <2>3, <2>4
<1>4. CASE EnsureAppDir(o)
  <2>1. \/ Goes(o, fs, "write") \/ Goes(o, Wrote(fs, AppDir, op[o].val), "basesync")
    BY <1>4 DEF EnsureAppDir
  <2>2. AtOK(op[o].kind, "write") /\ AtOK(op[o].kind, "basesync")
    BY <1>0, <1>4, KindAt DEF EnsureAppDir, AtOK, SetSteps
  <2>3. Within(AppDirs, fs, Wrote(fs, AppDir, op[o].val))
    BY <1>0, <1>2, WithinWrote
  <2> QED BY <1>0, <1>1, <2>1, <2>2, <2>3, CallKept
<1>5. CASE SyncBase(o)
  <2>1. \/ Goes(o, Synced(fs, "base"), "write") \/ Ends(o, fs)
    BY <1>5 DEF SyncBase
  <2>2. AtOK(op[o].kind, "write")
    BY <1>0, <1>5, KindAt DEF SyncBase, AtOK, SetSteps
  <2>3. Within(AppDirs, fs, Synced(fs, "base"))
    BY <1>0, WithinSynced DEF AppDirs
  <2> QED BY <1>0, <1>1, <2>1, <2>2, <2>3, CallKept
<1>6. CASE SetWrite(o)
  <2>1. \/ Goes(o, Wrote(fs, SetTemp(o), op[o].val), "setrename") \/ Ends(o, fs)
    BY <1>6 DEF SetWrite
  <2>2. AtOK(op[o].kind, "setrename")
    BY <1>0, <1>6, KindAt DEF SetWrite, AtOK, SetSteps
  <2>3. Within(AppDirs, fs, Wrote(fs, SetTemp(o), op[o].val))
    BY <1>0, <1>2, WithinWrote
  <2> QED BY <1>0, <1>1, <2>1, <2>2, <2>3, CallKept
<1>7. CASE SetRename(o)
  <2>1. \/ Goes(o, Renamed(fs, SetTemp(o), Key), "setsync") \/ Ends(o, Unlinked(fs, SetTemp(o)))
    BY <1>7 DEF SetRename
  <2>2. AtOK(op[o].kind, "setsync")
    BY <1>0, <1>7, KindAt DEF SetRename, AtOK, SetSteps
  <2>3. Within(AppDirs, fs, Renamed(fs, SetTemp(o), Key)) /\ Within(AppDirs, fs, Unlinked(fs, SetTemp(o)))
    BY <1>0, <1>2, WithinWrote, WithinRenamed
  <2> QED BY <1>0, <1>1, <2>1, <2>2, <2>3, CallKept
<1>8. CASE SetSync(o)
  <2>1. \/ Ends(o, Synced(fs, "app")) \/ Ends(o, fs)
    BY <1>8 DEF SetSync
  <2>3. Within(AppDirs, fs, Synced(fs, "app"))
    BY <1>0, WithinSynced DEF AppDirs
  <2> QED BY <1>0, <1>1, <2>1, <2>3, CallKept
<1>9. CASE RemoveSecret(o)
  <2>1. fs' = Unlinked(fs, Key) /\ op' = op
    BY <1>9 DEF RemoveSecret
  <2>2. Within(AppDirs, fs, fs') /\ Alone(o)
    BY <1>0, <1>2, <2>1, WithinWrote DEF Alone, BaseInv
  <2> QED BY <1>0, <1>1, <2>1, <2>2, RequestKept
<1>10. CASE Clear(o)
  <2>1. Begin(o, "clear", "unlink", Nil) /\ Idle(o, "clear") /\ fs' = fs
    BY <1>10 DEF Clear
  <2>0. AtOK("clear", "unlink") /\ used' \subseteq Gens /\ UNCHANGED <<fs, env>>
    BY <1>0, <1>1, <2>1 DEF AtOK
  <2>2. BaseInv'
    BY <1>0, <2>0, <2>1, BeginsOK
  <2>3. Alone(o)
    BY <1>0, <2>1, Begins
  <2> QED BY <1>0, <1>1, <2>1, <2>2, <2>3
<1>11. CASE ClearStep(o)
  <2>1. /\ op[o].at = "unlink"
        /\ \/ \E p \in Paths : p[1] = "app" /\ Goes(o, Unlinked(fs, p), "unlink")
           \/ Ends(o, Unlinked(fs, AppDir))
    BY <1>11 DEF ClearStep
  <2>2. AtOK(op[o].kind, "unlink")
    BY <1>0, <2>1, KindAt
  <2>3. CASE Ends(o, Unlinked(fs, AppDir))
    <3>1. Within(AppDirs, fs, Unlinked(fs, AppDir))
      BY <1>0, <1>2, WithinWrote
    <3> QED BY <1>0, <1>1, <2>3, <3>1, CallKept
  <2>4. CASE \E p \in Paths : p[1] = "app" /\ Goes(o, Unlinked(fs, p), "unlink")
    <3>1. PICK p \in Paths : p[1] = "app" /\ Goes(o, Unlinked(fs, p), "unlink")
      BY <2>4
    <3>2. Within(AppDirs, fs, Unlinked(fs, p))
      BY <1>0, <3>1, WithinWrote DEF AppDirs
    <3> QED BY <1>0, <1>1, <2>2, <3>1, <3>2, CallKept
  <2> QED BY <2>1, <2>3, <2>4
<1> QED BY <1>1, <1>3, <1>4, <1>5, <1>6, <1>7, <1>8, <1>9, <1>10, <1>11 DEF SetStep

ApplyStep(o) ==
  \/ \E v \in Values : Apply(o, v)
  \/ ApplyOpen(o) \/ ApplyFill(o) \/ ApplyRename(o) \/ Publish(o) \/ Disconnect(o)

\* The file an apply writes to is the config or its temp.
LEMMA FillPath ==
  /\ Config \in Paths /\ ConfigTemp \in Paths /\ ConfigTemp # Config
  /\ Config[1] \in {"apps"} /\ ConfigTemp[1] \in {"apps"}
BY PathNames, PathParts

\* The steps that write the config file.
LEMMA ApplyFrame ==
  ASSUME BaseInv, NEW o \in Requests, ApplyStep(o)
  PROVE  /\ BaseInv' /\ Within({"apps"}, fs, fs') /\ Alone(o)
         /\ UNCHANGED <<env, used, ack, logins>>
<1>0. /\ o \in Ops /\ o # "svc" /\ IsFs(fs) /\ Within({"apps"}, fs, fs) /\ used \subseteq Gens
      /\ OpOK(o, op[o])
  BY OwnNames DEF Ops, BaseInv, Within, Same
<1>1. UNCHANGED <<env, used, ack, logins>>
  BY DEF ApplyStep, Apply, ApplyOpen, ApplyFill, ApplyRename, Publish, Disconnect
<1>2. /\ \A v : Within({"apps"}, fs, WroteSoft(fs, Config, v))
      /\ \A v : Within({"apps"}, fs, WroteSoft(fs, ConfigTemp, v))
      /\ Within({"apps"}, fs, Renamed(fs, ConfigTemp, Config))
  BY <1>0, FillPath, WithinWrote, WithinRenamed
<1>3. ASSUME NEW v \in Values, Apply(o, v)
      PROVE  BaseInv' /\ Within({"apps"}, fs, fs') /\ Alone(o)
  <2>1. Begin(o, "apply", "open", v) /\ Idle(o, "apply") /\ UNCHANGED <<fs, env>>
    BY <1>3 DEF Apply
  <2>2. AtOK("apply", "open") /\ used' \subseteq Gens
    BY <1>0, <1>1 DEF AtOK, ApplySteps
  <2>3. BaseInv'
    BY <1>0, <2>1, <2>2, BeginsOK
  <2> QED BY <1>0, <2>1, <2>3, Begins
<1>4. CASE ApplyOpen(o)
  <2>1. Goes(o, WroteSoft(fs, ConfigTemp, Torn), "fill") \/ Ends(o, fs)
    BY <1>4 DEF ApplyOpen
  <2>2. AtOK(op[o].kind, "fill")
    BY <1>0, <1>4, KindAt DEF ApplyOpen, AtOK, ApplySteps
  <2> QED BY <1>0, <1>1, <1>2, <2>1, <2>2, CallKept
<1>5. CASE ApplyFill(o)
  <2>1. \/ \E v : Goes(o, WroteSoft(fs, Config, v), "cfgrename")
        \/ \E v : Goes(o, WroteSoft(fs, ConfigTemp, v), "cfgrename")
        \/ Ends(o, fs)
    BY <1>5 DEF ApplyFill
  <2>2. AtOK(op[o].kind, "cfgrename")
    BY <1>0, <1>5, KindAt DEF ApplyFill, AtOK, ApplySteps
  <2> QED BY <1>0, <1>1, <1>2, <2>1, <2>2, CallKept
<1>6. CASE ApplyRename(o)
  <2>1. \/ Goes(o, Renamed(fs, ConfigTemp, Config), "publish")
        \/ Ends(o, Renamed(fs, ConfigTemp, Config)) \/ Ends(o, fs)
    BY <1>6 DEF ApplyRename
  <2>2. AtOK(op[o].kind, "publish")
    BY <1>0, <1>6, KindAt DEF ApplyRename, AtOK, ApplySteps
  <2> QED BY <1>0, <1>1, <1>2, <2>1, <2>2, CallKept
<1>7. CASE Publish(o)
  <2>1. Ends(o, fs)
    BY <1>7 DEF Publish
  <2> QED BY <1>0, <1>1, <2>1, CallKept
<1>8. CASE Disconnect(o)
  <2>1. /\ fs' = fs /\ op[o].kind = "apply" /\ "disconnect" \in env.events
        /\ \/ op' = [op EXCEPT ![o] = NoOp] \/ op' = [op EXCEPT ![o] = [op[o] EXCEPT !.orphan = TRUE]]
    BY <1>8 DEF Disconnect
  <2>2. CASE op' = [op EXCEPT ![o] = NoOp]
    <3>1. Ends(o, fs)
      BY <2>1, <2>2 DEF Ends
    <3> QED BY <1>0, <1>1, <3>1, CallKept
  <2>3. CASE op' = [op EXCEPT ![o] = [op[o] EXCEPT !.orphan = TRUE]]
    <3> DEFINE q == [op[o] EXCEPT !.orphan = TRUE]
    <3>1. op'[o] = q /\ Alone(o)
      BY <1>0, <2>3 DEF BaseInv, Alone
    <3>2. /\ q = [f \in OpFields |-> q[f]] /\ q.kind = op[o].kind /\ q.at = op[o].at
          /\ q.val = op[o].val
      BY <1>0 DEF OpOK, OpFields
    <3>3. q.orphan = TRUE
      BY <1>0 DEF OpOK, OpFields
    <3> HIDE DEF q
    <3>4. OpOK(o, q)
      BY <1>0, <2>1, <3>2, <3>3 DEF OpOK
    <3> QED BY <1>0, <1>1, <2>1, <3>1, <3>4, RequestKept
  <2> QED BY <2>1, <2>2, <2>3
<1> QED BY <1>1, <1>3, <1>4, <1>5, <1>6, <1>7, <1>8 DEF ApplyStep

LoginStep(o) ==
  \/ \E v \in Values : Login(o, v)
  \/ Logout(o) \/ RegistryPassword(o) \/ ReadIndex(o)
  \/ OpenIndex(o) \/ FillIndex(o) \/ RenameIndex(o)

\* A login or a logout that starts.
LEMMA LoginBegins ==
  ASSUME BaseInv, NEW o \in Requests, LoginStep(o), op[o].kind = "none"
  PROVE  LET q == op'[o] IN
         /\ Alone(o) /\ q = [f \in OpFields |-> q[f]] /\ q.at = "password"
         /\ q.orphan = FALSE /\ q.host \in Hosts /\ q.kind \in env.kinds
         /\ \/ q.kind = "login" /\ q.val \in Values
            \/ q.kind = "logout" /\ q.val = Nil
         /\ fs' = fs /\ logins' = [logins EXCEPT ![q.host] = Nil]
         /\ UNCHANGED <<env, used, live, ack>>
<1>0. o \in Ops /\ op[o].at = "idle" /\ op = [q \in Ops |-> op[q]]
  BY KindAt DEF Ops, BaseInv, AtOK
<1>1. ~(RegistryPassword(o) \/ ReadIndex(o) \/ OpenIndex(o) \/ FillIndex(o) \/ RenameIndex(o))
  BY <1>0 DEF RegistryPassword, ReadIndex, OpenIndex, FillIndex, RenameIndex
<1>2. \A u \in Urls : \A h \in NormalizeRegistryUrl(u) : h \in Hosts
  BY DEF Urls, NormalizeRegistryUrl
<1>3. NoOp = [f \in OpFields |-> NoOp[f]] /\ NoOp.orphan = FALSE /\ NoOp.val = Nil
  BY NoOpFacts
<1>4. CASE Logout(o)
  <2>1. PICK h \in Hosts :
          /\ op' = [op EXCEPT ![o] = [NoOp EXCEPT !.kind = "logout", !.at = "password", !.host = h]]
          /\ logins' = [logins EXCEPT ![h] = Nil]
    BY <1>2, <1>4 DEF Logout
  <2>2. "logout" \in env.kinds /\ fs' = fs /\ UNCHANGED <<env, used, live, ack>>
    BY <1>4 DEF Logout, Idle
  <2> DEFINE q == [[[NoOp EXCEPT !.kind = "logout"] EXCEPT !.at = "password"] EXCEPT !.host = h]
  <2>3. op'[o] = q /\ Alone(o)
    BY <1>0, <2>1 DEF Alone
  <2>4. /\ q = [f \in OpFields |-> q[f]] /\ q.kind = "logout" /\ q.at = "password" /\ q.host = h
        /\ q.orphan = FALSE /\ q.val = Nil
    BY <1>3 DEF OpFields
  <2> HIDE DEF q
  <2>5. logins' = [logins EXCEPT ![h] = Nil]
    BY <2>1
  <2> QED BY <2>2, <2>3, <2>4, <2>5
<1>5. CASE \E v \in Values : Login(o, v)
  <2>0. PICK v \in Values : Login(o, v)
    BY <1>5
  <2>1. PICK h \in Hosts :
          /\ op' = [op EXCEPT ![o] = [NoOp EXCEPT !.kind = "login", !.at = "password", !.val = v, !.host = h]]
          /\ logins' = [logins EXCEPT ![h] = Nil]
    BY <1>2, <2>0 DEF Login
  <2>2. "login" \in env.kinds /\ fs' = fs /\ UNCHANGED <<env, used, live, ack>>
    BY <2>0 DEF Login, Idle
  <2> DEFINE q == [[[[NoOp EXCEPT !.kind = "login"] EXCEPT !.at = "password"] EXCEPT !.val = v] EXCEPT !.host = h]
  <2>3. op'[o] = q /\ Alone(o)
    BY <1>0, <2>1 DEF Alone
  <2>4. /\ q = [f \in OpFields |-> q[f]] /\ q.kind = "login" /\ q.at = "password" /\ q.host = h
        /\ q.orphan = FALSE /\ q.val = v
    BY <1>3 DEF OpFields
  <2> HIDE DEF q
  <2>5. logins' = [logins EXCEPT ![h] = Nil]
    BY <2>1
  <2> QED BY <2>2, <2>3, <2>4, <2>5
<1> QED BY <1>1, <1>4, <1>5 DEF LoginStep

\* The index that an operation writes.
LEMMA ReadIndexOp ==
  ASSUME BaseInv, NEW o \in Ops, NEW at, NEW i
  PROVE  op' = [op EXCEPT ![o].at = at, ![o].index = i] =>
         LET q == op'[o] IN
         /\ Alone(o) /\ q = [f \in OpFields |-> q[f]] /\ q.at = at /\ q.index = i
         /\ q.kind = op[o].kind /\ q.val = op[o].val /\ q.orphan = op[o].orphan
         /\ q.host = op[o].host
<1> DEFINE k == op[o]
           x == [op EXCEPT ![o].at = at]
           y == [k EXCEPT !.at = at]
           z == [y EXCEPT !.index = i]
<1>1. SUFFICES ASSUME op' = [op EXCEPT ![o].at = at, ![o].index = i]
               PROVE  LET q == op'[o] IN
                      /\ Alone(o) /\ q = [f \in OpFields |-> q[f]] /\ q.at = at /\ q.index = i
                      /\ q.kind = k.kind /\ q.val = k.val /\ q.orphan = k.orphan /\ q.host = k.host
  OBVIOUS
<1>2. op = [q \in Ops |-> op[q]] /\ k = [f \in OpFields |-> k[f]]
  BY DEF BaseInv, OpOK
<1>3. op' = [x EXCEPT ![o].index = i]
  BY <1>1
<1>4. /\ x = [q \in Ops |-> x[q]] /\ x[o] = y
      /\ \A q \in Ops : q # o => x[q] = op[q]
  BY <1>2
<1> HIDE DEF x
<1>5. op'[o] = z
  BY <1>2, <1>3, <1>4
<1>6. Alone(o)
  BY <1>2, <1>3, <1>4 DEF Alone
<1> HIDE DEF k
<1>7. /\ y = [f \in OpFields |-> y[f]] /\ y.at = at /\ y.kind = k.kind /\ y.val = k.val
      /\ y.orphan = k.orphan /\ y.host = k.host
  BY <1>2 DEF OpFields
<1> HIDE DEF y
<1>8. /\ z = [f \in OpFields |-> z[f]] /\ z.index = i /\ z.at = at /\ z.kind = k.kind
      /\ z.val = k.val /\ z.orphan = k.orphan /\ z.host = k.host
  BY <1>7 DEF OpFields
<1> HIDE DEF z
<1> QED BY <1>5, <1>6, <1>8

\* The steps that write registry credentials.
LEMMA LoginFrame ==
  ASSUME BaseInv, NEW o \in Requests, LoginStep(o)
  PROVE  /\ BaseInv' /\ Within({"reg"}, fs, fs') /\ Alone(o)
         /\ UNCHANGED <<env, used, live, ack>>
<1>0. /\ o \in Ops /\ o # "svc" /\ IsFs(fs) /\ Within({"reg"}, fs, fs) /\ OpOK(o, op[o])
      /\ AtOK(op[o].kind, op[o].at)
  BY OwnNames, ZenonT(40) DEF Ops, BaseInv, Within, Same, OpOK
<1>1. UNCHANGED <<env, used, live, ack>>
  BY DEF LoginStep, Login, Logout, RegistryPassword, ReadIndex, OpenIndex, FillIndex, RenameIndex
<1>2. CASE op[o].kind = "none"
  <2>1. Alone(o) /\ fs' = fs /\ OpOK(o, op'[o])
    BY <1>0, <1>2, LoginBegins DEF OpOK, AtOK, LoginSteps
  <2> QED BY <1>0, <1>1, <2>1, RequestKept
<1>3. CASE op[o].kind # "none"
  <2>1. op[o].at \in LoginSteps /\ op[o].kind \in {"login", "logout"} /\ op[o].host \in Hosts
    BY <1>0, <1>3, KindAt DEF LoginStep, Login, Logout, RegistryPassword, ReadIndex, OpenIndex,
       FillIndex, RenameIndex, Idle, LoginSteps, OpOK
  <2>2. \A at \in LoginSteps : AtOK(op[o].kind, at)
    BY <2>1 DEF AtOK
  <2> DEFINE k == RegistryKey(op[o].host)
  <2>3. /\ k \in Paths /\ k[1] = "reg" /\ RegistryIndex \in Paths /\ RegistryIndex[1] = "reg"
        /\ RegistryTemp \in Paths /\ RegistryTemp[1] = "reg" /\ RegistryTemp # RegistryIndex
    BY <2>1, PathNames, PathParts
  <2> HIDE DEF k
  <2>4. /\ Within({"reg"}, fs, Unlinked(fs, k))
        /\ \A v : Within({"reg"}, fs, WroteSoft(fs, RegistryTemp, v))
        /\ \A v : Within({"reg"}, fs, WroteSoft(fs, RegistryIndex, v))
        /\ Within({"reg"}, fs, Renamed(fs, RegistryTemp, RegistryIndex))
    BY <1>0, <2>3, WithinWrote, WithinRenamed
  <2>5. \A v : Within({"reg"}, fs, Synced(Wrote(fs, k, v), "reg"))
    BY <1>0, <2>3, WroteFs, SyncedFs DEF Within, Same
  <2>6. CASE RegistryPassword(o)
    <3>1. \/ Goes(o, Synced(Wrote(fs, k, op[o].val), "reg"), "readindex")
          \/ Goes(o, Unlinked(fs, k), "readindex") \/ Ends(o, fs)
      BY <2>6 DEF RegistryPassword, k
    <3>2. AtOK(op[o].kind, "readindex")
      BY <2>2 DEF LoginSteps
    <3> QED BY <1>0, <1>1, <2>4, <2>5, <3>1, <3>2, CallKept
  <2>7. CASE ReadIndex(o)
    <3>1. CASE Ends(o, fs)
      BY <1>0, <1>1, <3>1, CallKept
    <3>2. CASE fs' = fs /\ \E i : op' = [op EXCEPT ![o].at = "openindex", ![o].index = i]
      <4>0. PICK i : op' = [op EXCEPT ![o].at = "openindex", ![o].index = i]
        BY <3>2
      <4> DEFINE at == "openindex"
      <4>1. AtOK(op[o].kind, at) /\ op' = [op EXCEPT ![o].at = at, ![o].index = i]
        BY <2>2, <4>0 DEF LoginSteps
      <4> HIDE DEF at
      <4>2. LET q == op'[o] IN
            /\ Alone(o) /\ q = [f \in OpFields |-> q[f]] /\ q.at = at /\ q.index = i
            /\ q.kind = op[o].kind /\ q.val = op[o].val /\ q.orphan = op[o].orphan
            /\ q.host = op[o].host
        BY <1>0, <4>1, ReadIndexOp
      <4>3. OpOK(o, op'[o])
        BY <1>0, <4>1, <4>2 DEF OpOK
      <4> QED BY <1>0, <1>1, <3>2, <4>2, <4>3, RequestKept
    <3> QED BY <2>7, <3>1, <3>2 DEF ReadIndex
  <2>8. CASE OpenIndex(o)
    <3>1. Goes(o, WroteSoft(fs, RegistryTemp, Torn), "fillindex") \/ Ends(o, fs)
      BY <2>8 DEF OpenIndex
    <3>2. AtOK(op[o].kind, "fillindex")
      BY <2>2 DEF LoginSteps
    <3> QED BY <1>0, <1>1, <2>4, <3>1, <3>2, CallKept
  <2>9. CASE FillIndex(o)
    <3>1. \/ \E v : Goes(o, WroteSoft(fs, RegistryIndex, v), "renameindex")
          \/ \E v : Goes(o, WroteSoft(fs, RegistryTemp, v), "renameindex")
          \/ Ends(o, fs)
      BY <2>9 DEF FillIndex
    <3>2. AtOK(op[o].kind, "renameindex")
      BY <2>2 DEF LoginSteps
    <3> QED BY <1>0, <1>1, <2>4, <3>1, <3>2, CallKept
  <2>10. CASE RenameIndex(o)
    <3>1. \/ Ends(o, Renamed(fs, RegistryTemp, RegistryIndex)) \/ Ends(o, fs)
      BY <2>10 DEF RenameIndex
    <3> QED BY <1>0, <1>1, <2>4, <3>1, CallKept
  <2>11. CASE Logout(o) \/ \E v \in Values : Login(o, v)
    BY <1>3, <2>11 DEF Login, Logout, Idle
  <2> QED BY <2>6, <2>7, <2>8, <2>9, <2>10, <2>11 DEF LoginStep
<1> QED BY <1>1, <1>2, <1>3

\* Restarts.
LEMMA RestartFrame ==
  ASSUME BaseInv, NEW f, IsFs(f), Restart(f)
  PROVE  /\ BaseInv' /\ fs' = f /\ \A o \in Ops : op'[o] = NoOp
         /\ live' = f.mem[Config] /\ UNCHANGED <<env, used, ack, logins>>
<1>1. \A o \in Ops : op'[o] = NoOp /\ OpOK(o, NoOp)
  BY NoOpFacts DEF Restart
<1>2. op' = [o \in Ops |-> op'[o]] /\ UNCHANGED <<env, used, ack, logins>> /\ fs' = f
  BY DEF Restart
<1>3. \A o \in Ops : OpOK(o, NoOp)'
  BY <1>1, <1>2 DEF OpOK
<1> QED BY <1>1, <1>2, <1>3 DEF BaseInv, Restart

\* The steps.
LEMMA NextSteps ==
  ASSUME Next
  PROVE  \/ BundleStep \/ Crash \/ PowerLoss
         \/ \E o \in Requests : SetStep(o) \/ ApplyStep(o) \/ LoginStep(o)
BY DEF Next, BundleStep, SetStep, ApplyStep, LoginStep

\* Files and operations are in order at the start,
LEMMA BaseInit == Init => BaseInv
<1> SUFFICES ASSUME Init PROVE BaseInv
  OBVIOUS
<1>1. IsFs(fs)
  <2> DEFINE m == [p \in Paths |-> IF (p = AppDir /\ env.namespace) \/ p = Config
                                  THEN CHOOSE v \in Values : TRUE ELSE Nil]
  <2>1. fs = [mem |-> m, disk |-> m, soft |-> {}]
    BY DEF Init
  <2>2. m = [p \in Paths |-> m[p]]
    OBVIOUS
  <2> HIDE DEF m
  <2> QED BY <2>1, <2>2 DEF IsFs, FsFields
<1>2. op = [o \in Ops |-> op[o]] /\ \A o \in Ops : op[o] = NoOp
  BY DEF Init
<1> QED BY <1>1, <1>2, NoOpFacts DEF BaseInv, Init

\* after every step,
LEMMA BaseStep == ASSUME BaseInv, [Next]_vars PROVE BaseInv'
<1>1. CASE BundleStep
  BY <1>1, BundleFrame
<1>2. CASE \E o \in Requests : SetStep(o) \/ ApplyStep(o) \/ LoginStep(o)
  BY <1>2, SetFrame, ApplyFrame, LoginFrame
<1>3. CASE Crash
  BY <1>3, RestartFrame DEF Crash, BaseInv
<1>4. CASE PowerLoss
  <2>1. PICK f \in AfterPowerLoss(fs) : Restart(f)
    BY <1>4 DEF PowerLoss
  <2>2. IsFs(f)
    BY PowerFs DEF BaseInv
  <2> QED BY <2>1, <2>2, RestartFrame
<1>5. CASE UNCHANGED vars
  BY <1>5 DEF vars, BaseInv, OpOK
<1> QED BY <1>1, <1>2, <1>3, <1>4, <1>5, NextSteps

\* and always.
LEMMA BaseInvariant == Spec => []BaseInv
BY BaseInit, BaseStep, PTL DEF Spec

\* The steps of a request are of its own kind.
LEMMA StepKinds ==
  ASSUME BaseInv, NEW o \in Requests
  PROVE  /\ SetStep(o) => /\ op[o].kind \in {"none", "set", "key", "clear"}
                          /\ op'[o].kind \in {"none", "set", "key", "clear"}
         /\ LoginStep(o) => /\ op[o].kind \in {"none", "login", "logout"}
                            /\ op'[o].kind \in {"none", "login", "logout"}
<1>a. o \in Ops
  BY DEF Ops
<1>0. o \in Ops /\ op = [q \in Ops |-> op[q]] /\ op[o] = [f \in OpFields |-> op[o][f]]
  BY <1>a, OpShape
<1>1. ASSUME NEW f, NEW at, Goes(o, f, at) \/ Ends(o, f)
      PROVE  op'[o].kind \in {op[o].kind, "none"}
  BY <1>0, <1>1, GoesOn, EndsSo, NoOpFacts DEF On
<1>2. ASSUME NEW kind, NEW at, NEW v, Begin(o, kind, at, v)
      PROVE  op'[o].kind = kind
  BY <1>0, <1>2, Begins
<1>3. ASSUME SetStep(o)
      PROVE  /\ op[o].kind \in {"none", "set", "key", "clear"}
             /\ op'[o].kind \in {"none", "set", "key", "clear"}
  <2>1. CASE \/ \E v \in Values : SetSecrets(o, v) \/ SetDeployKey(o, v)
             \/ Clear(o)
    BY <1>2, <2>1 DEF SetSecrets, SetDeployKey, Clear, Idle
  <2>2. CASE RemoveSecret(o)
    BY <2>2 DEF RemoveSecret, Idle
  <2>3. CASE EnsureAppDir(o) \/ SyncBase(o) \/ SetWrite(o) \/ SetRename(o) \/ SetSync(o)
    <3>1. op[o].at \in SetSteps
      BY <2>3 DEF EnsureAppDir, SyncBase, SetWrite, SetRename, SetSync, SetSteps
    <3>2. \E f, at : Goes(o, f, at) \/ Ends(o, f)
      BY <2>3 DEF EnsureAppDir, SyncBase, SetWrite, SetRename, SetSync
    <3> QED BY <1>0, <1>1, <3>1, <3>2, KindAt
  <2>4. CASE ClearStep(o)
    <3>1. op[o].at = "unlink"
      BY <2>4 DEF ClearStep
    <3>2. \E f, at : Goes(o, f, at) \/ Ends(o, f)
      BY <2>4 DEF ClearStep
    <3> QED BY <1>0, <1>1, <3>1, <3>2, KindAt
  <2> QED BY <1>3, <2>1, <2>2, <2>3, <2>4 DEF SetStep
<1>4. ASSUME LoginStep(o)
      PROVE  /\ op[o].kind \in {"none", "login", "logout"}
             /\ op'[o].kind \in {"none", "login", "logout"}
  <2>1. CASE op[o].kind = "none"
    BY <1>4, <2>1, LoginBegins
  <2>2. CASE op[o].kind # "none"
    <3>1. op[o].at \in LoginSteps
      BY <1>4, <2>2 DEF LoginStep, Login, Logout, Idle, RegistryPassword, ReadIndex, OpenIndex,
         FillIndex, RenameIndex, LoginSteps
    <3>2. \/ \E f, at : Goes(o, f, at) \/ Ends(o, f)
          \/ \E i : op' = [op EXCEPT ![o].at = "openindex", ![o].index = i]
      BY <1>4, <2>2 DEF LoginStep, Login, Logout, Idle, RegistryPassword, ReadIndex, OpenIndex,
         FillIndex, RenameIndex
    <3>3. CASE \E i : op' = [op EXCEPT ![o].at = "openindex", ![o].index = i]
      <4>1. PICK i : op' = [op EXCEPT ![o].at = "openindex", ![o].index = i]
        BY <3>3
      <4> DEFINE at == "openindex"
      <4>2. op' = [op EXCEPT ![o].at = at, ![o].index = i]
        BY <4>1
      <4> HIDE DEF at
      <4>3. op'[o].kind = op[o].kind
        BY <1>0, <4>2, ReadIndexOp
      <4> QED BY <1>0, <3>1, <4>3, KindAt
    <3> QED BY <1>0, <1>1, <3>1, <3>2, <3>3, KindAt
  <2> QED BY <2>1, <2>2
<1> QED BY <1>3, <1>4

-----------------------------------------------------------------------------
(* The config file is the configuration slipd runs with.                   *)

\* An apply whose client stays is alone under the lock; the temp is its own, and the
\* file is what slipd runs with but for the moment between rename and publish.
ApplyOK(q) ==
  /\ q.at = "fill" => fs.mem[ConfigTemp] = Torn
  /\ q.at = "cfgrename" => fs.mem[ConfigTemp] = q.val
  /\ q.at = "publish" => fs.mem[Config] = q.val

ConfigInv ==
  "disconnect" \notin env.events =>
    /\ \A o \in Requests, p \in Requests : op[o].kind = "apply" /\ op[p].kind = "apply" => o = p
    /\ \A o \in Requests : ApplyOK(op[o])
    /\ (\A o \in Requests : op[o].at # "publish") => fs.mem[Config] = live

\* Steps of others.
LEMMA ConfigKept ==
  ASSUME BaseInv, BaseInv', ConfigInv, UNCHANGED <<env, live>>,
         fs'.mem[Config] = fs.mem[Config], fs'.mem[ConfigTemp] = fs.mem[ConfigTemp],
         \A q \in Requests : \/ op'[q] = op[q]
                             \/ op[q].kind # "apply" /\ op'[q].kind # "apply"
  PROVE  ConfigInv'
<1>1. \A q \in Requests : /\ op[q].kind # "apply" => op[q].at \notin ApplySteps
                          /\ op'[q].kind # "apply" => op'[q].at \notin ApplySteps
  <2>1. \A q \in Requests : AtOK(op[q].kind, op[q].at) /\ AtOK(op'[q].kind, op'[q].at)
    BY DEF BaseInv, OpOK, Ops
  <2> QED BY <2>1 DEF AtOK, ApplySteps, SetSteps, LoginSteps, GenSteps, RollbackSteps
<1>2. SUFFICES ASSUME "disconnect" \notin env.events PROVE ConfigInv'
  BY DEF ConfigInv
<1>3. \A o \in Requests, p \in Requests : op'[o].kind = "apply" /\ op'[p].kind = "apply" => o = p
  BY <1>2 DEF ConfigInv
<1>4. \A o \in Requests : ApplyOK(op[o])'
  <2> SUFFICES ASSUME NEW o \in Requests PROVE ApplyOK(op[o])'
    OBVIOUS
  <2>1. ApplyOK(op[o])
    BY <1>2 DEF ConfigInv
  <2>2. CASE op'[o] = op[o]
    BY <2>1, <2>2 DEF ApplyOK
  <2>3. CASE op'[o].kind # "apply"
    BY <1>1, <2>3 DEF ApplyOK, ApplySteps
  <2> QED BY <2>2, <2>3
<1>5. (\A o \in Requests : op'[o].at # "publish") => fs'.mem[Config] = live'
  <2> SUFFICES ASSUME \A o \in Requests : op'[o].at # "publish" PROVE fs.mem[Config] = live
    OBVIOUS
  <2>1. \A o \in Requests : op[o].at # "publish"
    BY <1>1 DEF ApplySteps
  <2> QED BY <1>2, <2>1 DEF ConfigInv
<1> QED BY <1>3, <1>4, <1>5 DEF ConfigInv

\* A step of the only apply.
LEMMA ConfigMoves ==
  ASSUME BaseInv, BaseInv', ConfigInv, NEW o \in Requests, Alone(o), UNCHANGED env,
         "disconnect" \notin env.events => op[o].kind = "apply" \/ AppFree,
         "disconnect" \notin env.events => ApplyOK(op[o])',
         "disconnect" \notin env.events /\ op'[o].at # "publish" => fs'.mem[Config] = live'
  PROVE  ConfigInv'
<1>1. SUFFICES ASSUME "disconnect" \notin env.events PROVE ConfigInv'
  BY DEF ConfigInv
<1>2. \A q \in Requests : q # o => op[q].kind # "apply" /\ op'[q] = op[q]
  <2>1. SUFFICES ASSUME NEW q \in Requests, q # o PROVE op[q].kind # "apply" /\ op'[q] = op[q]
    OBVIOUS
  <2>2. op'[q] = op[q] /\ (op[q].orphan = TRUE => "disconnect" \in env.events)
    BY <2>1 DEF Alone, Ops, BaseInv, OpOK
  <2>3. CASE op[o].kind = "apply"
    BY <1>1, <2>1, <2>2, <2>3 DEF ConfigInv
  <2>4. CASE AppFree
    <3>1. op[q].orphan = FALSE
      BY <1>1, <2>1 DEF BaseInv, OpOK, Ops
    <3> QED BY <2>2, <2>4, <3>1 DEF AppFree
  <2> QED BY <1>1, <2>3, <2>4
<1>3. \A q \in Requests : q # o => op'[q].at \notin ApplySteps
  <2>1. \A q \in Requests : AtOK(op'[q].kind, op'[q].at)
    BY DEF BaseInv, OpOK, Ops
  <2> QED BY <1>2, <2>1 DEF AtOK, ApplySteps, SetSteps, LoginSteps, GenSteps, RollbackSteps
<1>4. \A q \in Requests : ApplyOK(op[q])'
  <2> SUFFICES ASSUME NEW q \in Requests PROVE ApplyOK(op[q])'
    OBVIOUS
  <2>1. CASE q = o
    BY <1>1, <2>1
  <2>2. CASE q # o
    BY <1>3, <2>2 DEF ApplyOK, ApplySteps
  <2> QED BY <2>1, <2>2
<1>5. \A q \in Requests, p \in Requests : op'[q].kind = "apply" /\ op'[p].kind = "apply" => q = p
  BY <1>2
<1> QED BY <1>1, <1>4, <1>5 DEF ConfigInv

\* The steps of an apply.
LEMMA ConfigApply ==
  ASSUME BaseInv, ConfigInv, NEW o \in Requests, ApplyStep(o)
  PROVE  ConfigInv'
<1>0. /\ BaseInv' /\ Alone(o) /\ UNCHANGED env /\ IsFs(fs) /\ o \in Ops
  BY ApplyFrame DEF BaseInv, Ops
<1>1. SUFFICES ASSUME "disconnect" \notin env.events PROVE ConfigInv'
  BY <1>0 DEF ConfigInv
<1>2. /\ \A p \in Requests : op[o].kind = "apply" /\ op[p].kind = "apply" => p = o
      /\ ApplyOK(op[o]) /\ ((\A p \in Requests : op[p].at # "publish") => fs.mem[Config] = live)
      /\ op[o].orphan = FALSE
  BY <1>0, <1>1, ZenonT(40) DEF ConfigInv, BaseInv, OpOK
<1>3. op[o].kind = "apply" /\ op[o].at # "publish" => fs.mem[Config] = live
  <2> SUFFICES ASSUME op[o].kind = "apply", op[o].at # "publish" PROVE fs.mem[Config] = live
    OBVIOUS
  <2>1. \A p \in Requests : op[p].at = "publish" => op[p].kind = "apply"
    BY KindAt DEF Ops, ApplySteps
  <2> QED BY <1>2, <2>1
<1>4. ASSUME AppFree PROVE fs.mem[Config] = live
  <2>1. \A p \in Requests : op[p].orphan = FALSE
    BY <1>1 DEF BaseInv, OpOK, Ops
  <2>2. \A p \in Requests : op[p].kind # "apply"
    BY <1>4, <2>1 DEF AppFree
  <2>3. \A p \in Requests : op[p].at = "publish" => op[p].kind = "apply"
    BY KindAt DEF Ops, ApplySteps
  <2> QED BY <1>2, <2>2, <2>3
<1>5. NoOp.at = "idle"
  BY NoOpFacts
<1>6. CASE Ends(o, fs) /\ op[o].kind = "apply" /\ op[o].at # "publish" /\ live' = live
  <2>1. fs' = fs /\ op'[o] = NoOp
    BY <1>0, <1>6, EndsSo
  <2> QED BY <1>0, <1>3, <1>5, <1>6, <2>1, ConfigMoves DEF ApplyOK
<1>7. ASSUME NEW v \in Values, Apply(o, v) PROVE ConfigInv'
  <2>1. AppFree /\ fs' = fs /\ live' = live /\ Begin(o, "apply", "open", v)
    BY <1>7 DEF Apply
  <2>2. op'[o].at = "open"
    BY <1>0, <2>1, Begins
  <2> QED BY <1>0, <1>4, <2>1, <2>2, ConfigMoves DEF ApplyOK
<1>8. CASE ApplyOpen(o)
  <2>1. op[o].at = "open" /\ op[o].kind = "apply" /\ live' = live
    BY <1>0, <1>8, KindAt DEF ApplyOpen, ApplySteps
  <2>2. CASE Goes(o, WroteSoft(fs, ConfigTemp, Torn), "fill")
    <3>0. fs' = WroteSoft(fs, ConfigTemp, Torn) /\ On(o, "fill")
      BY <1>0, <2>2, GoesOn
    <3>1. fs' = WroteSoft(fs, ConfigTemp, Torn) /\ op'[o].at = "fill"
      BY <3>0 DEF On
    <3>2. fs'.mem[ConfigTemp] = Torn /\ fs'.mem[Config] = fs.mem[Config]
      BY <1>0, <3>1, WroteSoftFs, FillPath
    <3> QED BY <1>0, <1>3, <2>1, <3>1, <3>2, ConfigMoves DEF ApplyOK
  <2> QED BY <1>6, <1>8, <2>1, <2>2 DEF ApplyOpen
<1>9. CASE ApplyFill(o)
  <2>1. op[o].at = "fill" /\ op[o].kind = "apply" /\ live' = live
    BY <1>0, <1>9, KindAt DEF ApplyFill, ApplySteps
  <2>2. fs.mem[ConfigTemp] = Torn /\ Torn # Nil
    BY <1>2, <2>1, OwnNames DEF ApplyOK
  <2>3. Goes(o, WroteSoft(fs, ConfigTemp, op[o].val), "cfgrename") \/ Ends(o, fs)
    BY <1>9, <2>2 DEF ApplyFill
  <2>4. CASE Goes(o, WroteSoft(fs, ConfigTemp, op[o].val), "cfgrename")
    <3>0. fs' = WroteSoft(fs, ConfigTemp, op[o].val) /\ On(o, "cfgrename")
      BY <1>0, <2>4, GoesOn
    <3>1. /\ fs' = WroteSoft(fs, ConfigTemp, op[o].val) /\ op'[o].at = "cfgrename"
          /\ op'[o].val = op[o].val
      BY <3>0 DEF On
    <3>2. fs'.mem[ConfigTemp] = op[o].val /\ fs'.mem[Config] = fs.mem[Config]
      BY <1>0, <3>1, WroteSoftFs, FillPath
    <3> QED BY <1>0, <1>3, <2>1, <3>1, <3>2, ConfigMoves DEF ApplyOK
  <2> QED BY <1>6, <2>1, <2>3, <2>4
<1>10. CASE ApplyRename(o)
  <2>1. op[o].at = "cfgrename" /\ op[o].kind = "apply" /\ live' = live
    BY <1>0, <1>10, KindAt DEF ApplyRename, ApplySteps
  <2>2. Goes(o, Renamed(fs, ConfigTemp, Config), "publish") \/ Ends(o, fs)
    BY <1>2, <1>10 DEF ApplyRename
  <2>3. CASE Goes(o, Renamed(fs, ConfigTemp, Config), "publish")
    <3>0. fs' = Renamed(fs, ConfigTemp, Config) /\ On(o, "publish")
      BY <1>0, <2>3, GoesOn
    <3>1. fs' = Renamed(fs, ConfigTemp, Config) /\ op'[o].at = "publish" /\ op'[o].val = op[o].val
      BY <3>0 DEF On
    <3>2. fs'.mem[Config] = op[o].val
      BY <1>0, <1>2, <2>1, <3>1, RenamedFs, FillPath DEF ApplyOK
    <3> QED BY <1>0, <2>1, <3>1, <3>2, ConfigMoves DEF ApplyOK
  <2> QED BY <1>6, <2>1, <2>2, <2>3
<1>11. CASE Publish(o)
  <2>1. op[o].at = "publish" /\ op[o].kind = "apply" /\ live' = op[o].val /\ Ends(o, fs)
    BY <1>0, <1>11, KindAt DEF Publish, ApplySteps
  <2>2. fs' = fs /\ op'[o] = NoOp
    BY <1>0, <2>1, EndsSo
  <2> QED BY <1>0, <1>2, <1>5, <2>1, <2>2, ConfigMoves DEF ApplyOK
<1>12. CASE Disconnect(o)
  BY <1>1, <1>12 DEF Disconnect
<1> QED BY <1>7, <1>8, <1>9, <1>10, <1>11, <1>12 DEF ApplyStep

\* Every step keeps the config file what slipd runs with.
LEMMA ConfigStep ==
  ASSUME BaseInv, ConfigInv, [Next]_vars
  PROVE  ConfigInv'
<1>0. BaseInv'
  BY BaseStep
<1>1. Config \in Paths /\ ConfigTemp \in Paths /\ Config[1] = "apps" /\ ConfigTemp[1] = "apps"
  BY PathNames, PathParts
<1>2. CASE BundleStep
  <2>1. "apps" \notin BundleDirs /\ \A q \in Requests : q # "svc" /\ q \in Ops
    BY OwnNames DEF BundleDirs, FixedNames, Ops
  <2> QED BY <1>0, <1>1, <1>2, <2>1, BundleFrame, ConfigKept DEF Within, Same, Alone
<1>3. ASSUME NEW o \in Requests, SetStep(o) \/ LoginStep(o) PROVE ConfigInv'
  <2>1. op[o].kind # "apply" /\ op'[o].kind # "apply"
    BY <1>3, StepKinds
  <2>2. Alone(o) /\ UNCHANGED <<env, live>> /\ \/ Within(AppDirs, fs, fs') \/ Within({"reg"}, fs, fs')
    BY <1>3, SetFrame, LoginFrame
  <2>3. "apps" \notin AppDirs /\ "apps" \notin {"reg"}
    BY DEF AppDirs
  <2>4. fs'.mem[Config] = fs.mem[Config] /\ fs'.mem[ConfigTemp] = fs.mem[ConfigTemp]
    BY <1>1, <2>2, <2>3 DEF Within, Same
  <2>5. \A q \in Requests : q = o \/ op'[q] = op[q]
    BY <2>2 DEF Alone, Ops
  <2> QED BY <1>0, <2>1, <2>2, <2>4, <2>5, ConfigKept
<1>4. ASSUME NEW f, IsFs(f), Restart(f) PROVE ConfigInv'
  <2>1. \A o \in Requests : op'[o].kind = "none" /\ op'[o].at = "idle"
    BY <1>4, RestartFrame, NoOpFacts DEF Ops
  <2>2. fs'.mem[Config] = live'
    BY <1>4, RestartFrame
  <2> QED BY <2>1, <2>2 DEF ConfigInv, ApplyOK
<1>5. CASE Crash
  BY <1>4, <1>5 DEF Crash, BaseInv
<1>6. CASE PowerLoss
  BY <1>4, <1>6, PowerFs DEF PowerLoss, BaseInv
<1>7. CASE UNCHANGED vars
  BY <1>7 DEF vars, ConfigInv, ApplyOK
<1> QED BY <1>2, <1>3, <1>5, <1>6, <1>7, NextSteps, ConfigApply

\* With no apply in flight, the config file is the configuration slipd runs with,
\* whichever call of a create or update failed and wherever slipd died or power was
\* lost, if no client goes away in the middle.
THEOREM ConfigIsLive == Spec => []ConfigMatchesLive
<1>1. Init => ConfigInv
  BY NoOpFacts DEF Init, ConfigInv, ApplyOK, Ops
<1>2. BaseInv /\ ConfigInv /\ [Next]_vars => ConfigInv'
  BY ConfigStep
<1>3. BaseInv /\ ConfigInv => ConfigMatchesLive
  <2> SUFFICES ASSUME BaseInv, ConfigInv, "disconnect" \notin env.events,
                      \A o \in Requests : op[o].kind # "apply"
               PROVE  fs.mem[Config] = live
    BY DEF ConfigMatchesLive
  <2>1. \A o \in Requests : op[o].at # "publish"
    BY KindAt DEF Ops, ApplySteps
  <2> QED BY <2>1 DEF ConfigInv
<1> QED BY <1>1, <1>2, <1>3, BaseInvariant, PTL DEF Spec

-----------------------------------------------------------------------------
(* The secret bundle implements a register.                                *)

\* A cleanup removes a generation that the pointer in memory does not name.  If the
\* rename of the pointer can be left unsynced, by a sync that failed or a crash before
\* it, the one on disk may still name it.
Settles(e) == "cleanup" \in e.kinds => ~e.fails /\ "crash" \notin e.events

\* In the files m, generation g is all there.
Whole(m, g) == m[GenDir(g)] = g /\ m[Raw(g)] = g /\ m[Pgpass(g)] = g

Names(m) ==
  m[Active] = Nil \/ (m[Active] \in used /\ Whole(fs.mem, m[Active]) /\ Whole(fs.disk, m[Active]))

\* Both pointers name generations that are there in memory and on disk.
PointersInv ==
  /\ \A p \in Paths : p[1] \in BundleDirs => p \notin fs.soft
  /\ Names(fs.mem) /\ Names(fs.disk)
  /\ fs.mem[Active] = Nil => fs.disk[Active] = Nil

\* The generation in hand is new until the rename, and what was written is there.
Written(at, g) ==
  /\ at \in {"mkdirsync", "raw", "pgpass", "gensync", "tmp", "tmpsync", "rename"} => fs.mem[GenDir(g)] = g
  /\ at \in {"raw", "pgpass", "gensync", "tmp", "tmpsync", "rename"} => fs.disk[GenDir(g)] = g
  /\ at \in {"pgpass", "gensync", "tmp", "tmpsync", "rename"} => fs.mem[Raw(g)] = g
  /\ at \in {"gensync", "tmp", "tmpsync", "rename"} => fs.mem[Pgpass(g)] = g
  /\ at \in {"tmp", "tmpsync", "rename"} => fs.disk[Raw(g)] = g /\ fs.disk[Pgpass(g)] = g
  /\ at \in {"tmpsync", "rename"} => fs.mem[PointerTemp] = g

Unnamed(g) == g # fs.mem[Active] /\ g # fs.disk[Active]

InHand(q) ==
  q.kind # "none" =>
    /\ q.val \in used
    /\ q.at # "activesync" => Unnamed(q.val)
    /\ Written(q.at, q.val)

SettledInv ==
  "cleanup" \in env.kinds => fs.mem[Active] = fs.disk[Active] \/ op["svc"].at = "activesync"

BundleInv == PointersInv /\ InHand(op["svc"]) /\ SettledInv

\* The paths of a generation.
GenPaths(g) == {GenDir(g), Raw(g), Pgpass(g)}

\* The paths of two generations, and those of the pointer, are apart.
LEMMA GenPathsApart ==
  ASSUME NEW g \in Gens
  PROVE  /\ GenPaths(g) \subseteq Paths /\ Active \notin GenPaths(g) /\ PointerTemp \notin GenPaths(g)
         /\ GenDir(g) # Raw(g) /\ GenDir(g) # Pgpass(g) /\ Raw(g) # Pgpass(g)
         /\ \A h \in Gens : h # g => GenPaths(h) \cap GenPaths(g) = {}
         /\ Active \in Paths /\ PointerTemp \in Paths /\ Active # PointerTemp
         /\ Active[1] \in BundleDirs /\ PointerTemp[1] \in BundleDirs
         /\ \A p \in GenPaths(g) : p[1] \in BundleDirs
<1>1. g # "inst" /\ g # "active" /\ g # "tmp" /\ \A h \in Gens : h # "inst"
  BY OwnNames DEF FixedNames
<1>2. "inst" \in BundleDirs /\ g \in BundleDirs
  BY DEF BundleDirs
<1> QED BY <1>1, <1>2, PathNames, PathParts DEF GenPaths

\* Steps on a generation that is not named, and on the pointer's temp.
LEMMA PointersKept ==
  ASSUME BaseInv, PointersInv, NEW g \in Gens, Unnamed(g), used \subseteq used',
         \A p \in Paths : p \notin GenPaths(g) /\ p # PointerTemp =>
           fs'.mem[p] = fs.mem[p] /\ fs'.disk[p] = fs.disk[p],
         \A p \in Paths : p[1] \in BundleDirs => p \notin fs'.soft
  PROVE  /\ PointersInv' /\ Unnamed(g)'
         /\ fs'.mem[Active] = fs.mem[Active] /\ fs'.disk[Active] = fs.disk[Active]
<1>1. fs'.mem[Active] = fs.mem[Active] /\ fs'.disk[Active] = fs.disk[Active]
  BY GenPathsApart
<1>2. ASSUME NEW h \in used, h # g
      PROVE  /\ Whole(fs.mem, h) => Whole(fs'.mem, h)
             /\ Whole(fs.disk, h) => Whole(fs'.disk, h)
  <2>1. h \in Gens
    BY <1>2 DEF BaseInv
  <2>2. \A p \in GenPaths(h) : p \in Paths /\ p \notin GenPaths(g) /\ p # PointerTemp
    BY <1>2, <2>1, GenPathsApart
  <2>3. \A p \in GenPaths(h) : fs'.mem[p] = fs.mem[p] /\ fs'.disk[p] = fs.disk[p]
    BY <2>2
  <2> QED BY <2>3 DEF Whole, GenPaths
<1>3. Names(fs.mem)' /\ Names(fs.disk)'
  BY <1>1, <1>2 DEF PointersInv, Names, Unnamed
<1> QED BY <1>1, <1>3 DEF PointersInv, Unnamed

\* A sync of the instance directory.
LEMMA PointersSynced ==
  ASSUME BaseInv, PointersInv, fs' = Synced(fs, "inst"), used' = used
  PROVE  /\ PointersInv' /\ fs'.mem = fs.mem /\ fs'.disk[Active] = fs.mem[Active]
         /\ \A g \in Gens : /\ fs'.disk[GenDir(g)] = fs.mem[GenDir(g)]
                            /\ fs'.disk[Raw(g)] = fs.disk[Raw(g)]
                            /\ fs'.disk[Pgpass(g)] = fs.disk[Pgpass(g)]
<1>0. IsFs(fs)
  BY DEF BaseInv
<1>1. /\ fs'.mem = fs.mem /\ fs'.soft = fs.soft
      /\ \A p \in Paths : fs'.disk[p] = IF p[1] = "inst" THEN fs.mem[p] ELSE fs.disk[p]
  BY <1>0, SyncedFs
<1>2. fs'.disk[Active] = fs.mem[Active]
  BY <1>1, PathNames, PathParts
<1>3. ASSUME NEW g \in Gens
      PROVE  /\ fs'.disk[GenDir(g)] = fs.mem[GenDir(g)]
             /\ fs'.disk[Raw(g)] = fs.disk[Raw(g)] /\ fs'.disk[Pgpass(g)] = fs.disk[Pgpass(g)]
  BY <1>1, PathNames, PathParts, OwnNames DEF FixedNames
<1>4. \A g \in used : Whole(fs.mem, g) /\ Whole(fs.disk, g) => Whole(fs'.mem, g) /\ Whole(fs'.disk, g)
  BY <1>1, <1>3 DEF Whole, BaseInv
<1>5. Names(fs.mem)' /\ Names(fs.disk)'
  BY <1>1, <1>2, <1>4 DEF PointersInv, Names
<1> QED BY <1>1, <1>2, <1>3, <1>5 DEF PointersInv

\* Steps that leave the bundle alone.
LEMMA BundleKept ==
  ASSUME BaseInv, BundleInv, op'["svc"] = op["svc"], UNCHANGED <<env, used>>,
         \A p \in Paths : p[1] \in BundleDirs => Same(fs, fs', p)
  PROVE  BundleInv' /\ fs'.disk[Active] = fs.disk[Active]
<1>1. /\ fs'.mem[Active] = fs.mem[Active] /\ fs'.disk[Active] = fs.disk[Active]
      /\ fs'.mem[PointerTemp] = fs.mem[PointerTemp]
  <2>1. "inst" \in BundleDirs
    BY DEF BundleDirs
  <2> QED BY <2>1, PathNames, PathParts DEF Same
<1>2. \A g \in Gens : \A p \in GenPaths(g) : fs'.mem[p] = fs.mem[p] /\ fs'.disk[p] = fs.disk[p]
  BY GenPathsApart DEF Same
<1>3. used \subseteq Gens
  BY DEF BaseInv
<1>4. \A g \in used : /\ Whole(fs.mem, g) => Whole(fs'.mem, g)
                      /\ Whole(fs.disk, g) => Whole(fs'.disk, g)
  BY <1>2, <1>3 DEF Whole, GenPaths
<1>5. PointersInv'
  <2>1. Names(fs.mem)' /\ Names(fs.disk)'
    BY <1>1, <1>4 DEF BundleInv, PointersInv, Names
  <2>2. \A p \in Paths : p[1] \in BundleDirs => p \notin fs'.soft
    BY DEF BundleInv, PointersInv, Same
  <2> QED BY <1>1, <2>1, <2>2 DEF BundleInv, PointersInv
<1>6. InHand(op["svc"])'
  <2> DEFINE q == op["svc"]
  <2>1. SUFFICES ASSUME q.kind # "none"
                 PROVE  /\ q.val \in used' /\ (q.at # "activesync" => Unnamed(q.val)')
                        /\ Written(q.at, q.val)'
    BY DEF InHand
  <2>2. q.val \in used /\ (q.at # "activesync" => Unnamed(q.val)) /\ Written(q.at, q.val)
    BY <2>1 DEF BundleInv, InHand
  <2>3. q.val \in Gens
    BY <1>3, <2>2
  <2>4. \A p \in GenPaths(q.val) : fs'.mem[p] = fs.mem[p] /\ fs'.disk[p] = fs.disk[p]
    BY <1>2, <2>3
  <2>5. op'["svc"] = q
    OBVIOUS
  <2> HIDE DEF q
  <2>6. Unnamed(q.val) => (q.val # fs'.mem[Active] /\ q.val # fs'.disk[Active])
    BY <1>1 DEF Unnamed
  <2>7. /\ fs'.mem[GenDir(q.val)] = fs.mem[GenDir(q.val)] /\ fs'.mem[Raw(q.val)] = fs.mem[Raw(q.val)]
        /\ fs'.mem[Pgpass(q.val)] = fs.mem[Pgpass(q.val)]
        /\ fs'.disk[GenDir(q.val)] = fs.disk[GenDir(q.val)] /\ fs'.disk[Raw(q.val)] = fs.disk[Raw(q.val)]
        /\ fs'.disk[Pgpass(q.val)] = fs.disk[Pgpass(q.val)]
    BY <2>4 DEF GenPaths
  <2> QED BY <1>1, <2>2, <2>5, <2>6, <2>7 DEF Unnamed, Written, q
<1>7. SettledInv'
  BY <1>1 DEF BundleInv, SettledInv
<1> QED BY <1>1, <1>5, <1>6, <1>7 DEF BundleInv

\* The operation in hand after a step on its generation, which is still not named.
LEMMA GenMoves ==
  ASSUME BaseInv, BundleInv, op["svc"].kind # "none", op["svc"].at # "activesync",
         NEW g, g = op["svc"].val, NEW next, UNCHANGED <<env, used>>,
         \A p \in Paths : p \notin GenPaths(g) /\ p # PointerTemp =>
           fs'.mem[p] = fs.mem[p] /\ fs'.disk[p] = fs.disk[p],
         \A p \in Paths : p[1] \in BundleDirs => p \notin fs'.soft,
         \/ op'["svc"].kind = "none"
         \/ op'["svc"].val = g /\ op'["svc"].at = next /\ Written(next, g)'
  PROVE  BundleInv' /\ fs'.disk[Active] = fs.disk[Active]
<1>1. g \in used /\ Unnamed(g) /\ g \in Gens /\ PointersInv
  BY DEF BundleInv, InHand, BaseInv
<1>2. /\ PointersInv' /\ Unnamed(g)'
      /\ fs'.mem[Active] = fs.mem[Active] /\ fs'.disk[Active] = fs.disk[Active]
  BY <1>1, PointersKept
<1>3. InHand(op["svc"])'
  BY <1>1, <1>2 DEF InHand, Unnamed, Written
<1>4. SettledInv'
  BY <1>2 DEF BundleInv, SettledInv
<1> QED BY <1>2, <1>3, <1>4 DEF BundleInv

\* A write to, or an unlink of, a file of the generation or the pointer's temp.
LEMMA GenWrites ==
  ASSUME BaseInv, BundleInv, NEW g \in Gens, NEW p \in GenPaths(g) \cup {PointerTemp},
         (\E v : fs' = Wrote(fs, p, v)) \/ fs' = Unlinked(fs, p) \/ fs' = fs
  PROVE  /\ \A r \in Paths : r # p => fs'.mem[r] = fs.mem[r] /\ fs'.disk[r] = fs.disk[r]
         /\ fs'.disk = fs.disk
         /\ \A r \in Paths : r[1] \in BundleDirs => r \notin fs'.soft
<1>1. IsFs(fs) /\ \A r \in Paths : r[1] \in BundleDirs => r \notin fs.soft
  BY DEF BaseInv, BundleInv, PointersInv
<1>2. p \in Paths
  BY GenPathsApart
<1>3. CASE \E v : fs' = Wrote(fs, p, v)
  BY <1>1, <1>2, <1>3, WroteFs
<1>4. CASE fs' = Unlinked(fs, p)
  BY <1>1, <1>2, <1>4, UnlinkedFs
<1>5. CASE fs' = fs
  BY <1>1, <1>5
<1> QED BY <1>3, <1>4, <1>5

\* The rename of the pointer's temp.
LEMMA PointerRenamed ==
  ASSUME IsFs(fs), NEW f, f = Renamed(fs, PointerTemp, Active)
  PROVE  /\ f.mem[Active] = fs.mem[PointerTemp] /\ f.disk = fs.disk
         /\ \A p \in Paths : p # PointerTemp /\ p # Active =>
              f.mem[p] = fs.mem[p] /\ (p \in f.soft <=> p \in fs.soft)
         /\ (Active \in f.soft <=> PointerTemp \in fs.soft)
         /\ PointerTemp \notin f.soft
<1>1. PICK a \in Paths, b \in Paths : a = PointerTemp /\ b = Active /\ a # b
  BY PathNames, PathParts
<1>1a. IsFs(fs) /\ a \in Paths /\ b \in Paths
  BY <1>1
<1>2. LET g == Renamed(fs, a, b) IN
      /\ g.mem[b] = fs.mem[a] /\ g.disk = fs.disk
      /\ \A q \in Paths : q # a /\ q # b => g.mem[q] = fs.mem[q] /\ (q \in g.soft <=> q \in fs.soft)
      /\ (b \in g.soft <=> a \in fs.soft)
      /\ a \notin g.soft
  <2>1. a # b
    BY <1>1
  <2> QED BY ONLY <1>1a, <2>1, RenamedFs
<1>3. f = Renamed(fs, a, b)
  BY <1>1
<1> QED BY <1>1, <1>2, <1>3

\* generate's steps up to the rename.
LEMMA GenerateKeeps ==
  ASSUME BaseInv, BundleInv, NEW at, at = op["svc"].at, NEW g, g = op["svc"].val,
         op["svc"].kind = "generate", at \in GenSteps, UNCHANGED <<env, used>>,
         fs' = Effect(at, g), op'["svc"].at = AfterStep(at), op'["svc"].val = g,
         op'["svc"].kind = "generate"
  PROVE  /\ BundleInv' /\ fs'.disk[Active] \in {fs.disk[Active], fs.mem[Active]}
<1>1. /\ g \in used /\ Unnamed(g) /\ g \in Gens /\ Written(at, g) /\ IsFs(fs) /\ PointersInv
      /\ \A p \in Paths : p[1] \in BundleDirs => p \notin fs.soft
  BY DEF BundleInv, InHand, BaseInv, GenSteps, PointersInv
<1>2. /\ GenPaths(g) \subseteq Paths /\ PointerTemp \in Paths /\ Active \in Paths
      /\ PointerTemp \notin GenPaths(g) /\ Active \notin GenPaths(g) /\ Active # PointerTemp
      /\ GenDir(g) # Raw(g) /\ GenDir(g) # Pgpass(g) /\ Raw(g) # Pgpass(g)
      /\ GenDir(g) \in Paths /\ Raw(g) \in Paths /\ Pgpass(g) \in Paths
      /\ GenDir(g) \in GenPaths(g) /\ Raw(g) \in GenPaths(g) /\ Pgpass(g) \in GenPaths(g)
      /\ GenDir(g) # PointerTemp /\ Raw(g) # PointerTemp /\ Pgpass(g) # PointerTemp
  BY <1>1, GenPathsApart DEF GenPaths
<1>3. op["svc"].kind # "none" /\ at # "activesync"
  BY DEF GenSteps
<1>4. ASSUME NEW p \in GenPaths(g) \cup {PointerTemp}, fs' = Wrote(fs, p, g), Written(AfterStep(at), g)'
      PROVE  BundleInv' /\ fs'.disk[Active] = fs.disk[Active]
  <2>1. /\ \A r \in Paths : r # p => fs'.mem[r] = fs.mem[r] /\ fs'.disk[r] = fs.disk[r]
        /\ \A r \in Paths : r[1] \in BundleDirs => r \notin fs'.soft
    BY <1>1, <1>4, GenWrites
  <2>1a. \A r \in Paths : r \notin GenPaths(g) /\ r # PointerTemp =>
           fs'.mem[r] = fs.mem[r] /\ fs'.disk[r] = fs.disk[r]
    BY <2>1
  <2> QED BY <1>3, <1>4, <2>1, <2>1a, GenMoves
<1>5. ASSUME NEW p \in GenPaths(g) \cup {PointerTemp}, fs' = Wrote(fs, p, g)
      PROVE  /\ fs'.mem[p] = g /\ fs'.disk = fs.disk
             /\ \A r \in Paths : r # p => fs'.mem[r] = fs.mem[r]
  <2>1. p \in Paths
    BY <1>2
  <2> QED BY <1>1, <1>5, <2>1, WroteFs
<1>6. CASE at = "mkdir"
  <2>1. fs' = Wrote(fs, GenDir(g), g) /\ AfterStep(at) = "mkdirsync"
    BY <1>6 DEF Effect, AfterStep
  <2>2. fs'.mem[GenDir(g)] = g
    BY <1>2, <1>5, <2>1
  <2>3. Written("mkdirsync", g)'
    BY <2>2 DEF Written
  <2> QED BY <1>2, <1>4, <2>1, <2>3
<1>7. CASE at = "raw"
  <2>1. fs' = Wrote(fs, Raw(g), g) /\ AfterStep(at) = "pgpass"
    BY <1>7 DEF Effect, AfterStep
  <2>2. /\ fs'.mem[Raw(g)] = g /\ fs'.disk = fs.disk /\ fs'.mem[GenDir(g)] = fs.mem[GenDir(g)]
    BY <1>2, <1>5, <2>1
  <2>3. Written("pgpass", g)'
    BY <1>1, <1>7, <2>2 DEF Written
  <2> QED BY <1>2, <1>4, <2>1, <2>3
<1>8. CASE at = "pgpass"
  <2>1. fs' = Wrote(fs, Pgpass(g), g) /\ AfterStep(at) = "gensync"
    BY <1>8 DEF Effect, AfterStep
  <2>2. /\ fs'.mem[Pgpass(g)] = g /\ fs'.disk = fs.disk /\ fs'.mem[GenDir(g)] = fs.mem[GenDir(g)]
        /\ fs'.mem[Raw(g)] = fs.mem[Raw(g)]
    BY <1>2, <1>5, <2>1
  <2>3. Written("gensync", g)'
    BY <1>1, <1>8, <2>2 DEF Written
  <2> QED BY <1>2, <1>4, <2>1, <2>3
<1>9. CASE at = "tmp"
  <2>1. fs' = Wrote(fs, PointerTemp, g) /\ AfterStep(at) = "tmpsync"
    BY <1>9 DEF Effect, AfterStep
  <2>2. /\ fs'.mem[PointerTemp] = g /\ fs'.disk = fs.disk /\ fs'.mem[GenDir(g)] = fs.mem[GenDir(g)]
        /\ fs'.mem[Raw(g)] = fs.mem[Raw(g)] /\ fs'.mem[Pgpass(g)] = fs.mem[Pgpass(g)]
    BY <1>2, <1>5, <2>1
  <2>3. Written("tmpsync", g)'
    BY <1>1, <1>9, <2>2 DEF Written
  <2> QED BY <1>2, <1>4, <2>1, <2>3
<1>10. CASE at = "gensync"
  <2>1. fs' = Synced(fs, g) /\ AfterStep(at) = "tmp"
    BY <1>10 DEF Effect, AfterStep
  <2>2. /\ fs'.mem = fs.mem /\ fs'.soft = fs.soft
        /\ \A p \in Paths : fs'.disk[p] = IF p[1] = g THEN fs.mem[p] ELSE fs.disk[p]
    BY <1>1, <2>1, SyncedFs
  <2>3. \A p \in Paths : p[1] = g => p \in GenPaths(g)
    <3>1. SUFFICES ASSUME NEW p \in Paths, p[1] = g PROVE p \in GenPaths(g)
      OBVIOUS
    <3>2. g \notin {"inst", "base", "app", "apps", "reg"}
      BY <1>1, OwnNames DEF FixedNames
    <3>3. \E h \in Gens : p = <<h, "raw">> \/ p = <<h, "pgpass">>
      BY <3>1, <3>2, FilesAssumption
    <3> QED BY <3>1, <3>3 DEF GenPaths, Raw, Pgpass
  <2>4. /\ fs'.disk[Raw(g)] = fs.mem[Raw(g)] /\ fs'.disk[Pgpass(g)] = fs.mem[Pgpass(g)]
        /\ fs'.disk[GenDir(g)] = fs.disk[GenDir(g)]
    BY <1>1, <1>2, <2>2, PathParts, OwnNames DEF FixedNames
  <2>5. Written("tmp", g)'
    BY <1>1, <1>10, <2>2, <2>4 DEF Written
  <2>6. \A p \in Paths : p \notin GenPaths(g) => fs'.mem[p] = fs.mem[p] /\ fs'.disk[p] = fs.disk[p]
    BY <2>2, <2>3
  <2>7. \A p \in Paths : p[1] \in BundleDirs => p \notin fs'.soft
    BY <1>1, <2>2
  <2>8. Written(AfterStep(at), g)'
    BY <2>1, <2>5
  <2> QED BY <1>3, <2>6, <2>7, <2>8, GenMoves
<1>11. CASE at \in {"mkdirsync", "tmpsync"}
  <2>1. fs' = Synced(fs, "inst")
    BY <1>11 DEF Effect
  <2>2. /\ PointersInv' /\ fs'.mem = fs.mem /\ fs'.disk[Active] = fs.mem[Active]
        /\ fs'.disk[GenDir(g)] = fs.mem[GenDir(g)]
        /\ fs'.disk[Raw(g)] = fs.disk[Raw(g)] /\ fs'.disk[Pgpass(g)] = fs.disk[Pgpass(g)]
    BY <1>1, <2>1, PointersSynced
  <2>3. Written(AfterStep(at), g)'
    <3>1. CASE at = "mkdirsync"
      <4>1. AfterStep(at) = "raw"
        BY <3>1 DEF AfterStep
      <4>2. Written("raw", g)'
        BY <1>1, <2>2, <3>1 DEF Written
      <4> QED BY <4>1, <4>2
    <3>2. CASE at = "tmpsync"
      <4>1. AfterStep(at) = "rename"
        BY <3>2 DEF AfterStep
      <4>2. Written("rename", g)'
        BY <1>1, <2>2, <3>2 DEF Written
      <4> QED BY <4>1, <4>2
    <3> QED BY <1>11, <3>1, <3>2
  <2>4. Unnamed(g)'
    BY <1>1, <2>2 DEF Unnamed
  <2>5. InHand(op["svc"])'
    BY <1>1, <2>3, <2>4 DEF InHand
  <2>6. SettledInv'
    BY <2>2 DEF SettledInv
  <2> QED BY <2>2, <2>5, <2>6 DEF BundleInv
<1>12. CASE at = "rename"
  <2>1. fs' = Renamed(fs, PointerTemp, Active) /\ AfterStep(at) = "activesync"
    BY <1>12 DEF Effect, AfterStep
  <2>2. /\ fs'.mem[Active] = g /\ fs'.disk = fs.disk
        /\ \A p \in Paths : p # PointerTemp /\ p # Active => fs'.mem[p] = fs.mem[p]
    <3>1. fs.mem[PointerTemp] = g
      BY <1>1, <1>12 DEF Written
    <3> QED BY <1>1, <2>1, <3>1, PointerRenamed
  <2>3. \A p \in Paths : p[1] \in BundleDirs => p \notin fs'.soft
    <3>1. PointerTemp \notin fs.soft
      BY <1>1, <1>2, GenPathsApart
    <3>2. /\ \A p \in Paths : p # PointerTemp /\ p # Active => (p \in fs'.soft <=> p \in fs.soft)
          /\ Active \in fs'.soft <=> PointerTemp \in fs.soft
          /\ PointerTemp \notin fs'.soft
      BY <1>1, <2>1, PointerRenamed
    <3> QED BY <1>1, <3>1, <3>2
  <2>4. \A h \in used : Whole(fs.mem, h) => Whole(fs'.mem, h)
    <3>1. SUFFICES ASSUME NEW h \in used PROVE Whole(fs.mem, h) => Whole(fs'.mem, h)
      OBVIOUS
    <3>2. h \in Gens
      BY DEF BaseInv
    <3>3. \A p \in GenPaths(h) : fs'.mem[p] = fs.mem[p]
      BY <2>2, <3>2, GenPathsApart
    <3> QED BY <3>3 DEF Whole, GenPaths
  <2>5. Whole(fs.mem, g) /\ Whole(fs.disk, g)
    BY <1>1, <1>12 DEF Written, Whole
  <2>6. Names(fs.mem)' /\ Names(fs.disk)'
    BY <1>1, <2>2, <2>4, <2>5 DEF PointersInv, Names
  <2>7. PointersInv'
    BY <1>1, <2>2, <2>3, <2>6, OwnNames DEF PointersInv
  <2>8. InHand(op["svc"])'
    <3>1. Written("activesync", g)'
      BY DEF Written
    <3> QED BY <1>1, <2>1, <3>1 DEF InHand
  <2>9. SettledInv'
    BY <2>1 DEF SettledInv
  <2> QED BY <2>2, <2>7, <2>8, <2>9 DEF BundleInv
<1> QED BY <1>6, <1>7, <1>8, <1>9, <1>10, <1>11, <1>12 DEF GenSteps

\* The steps of the bundle.
LEMMA BundleSteps ==
  ASSUME BaseInv, BundleInv, Settles(env), BundleStep
  PROVE  BundleInv' /\ fs'.disk[Active] \in {fs.disk[Active], fs.mem[Active]}
<1>0. /\ "svc" \in Ops /\ IsFs(fs) /\ PointersInv /\ OpOK("svc", op["svc"]) /\ used \subseteq Gens
      /\ BaseInv' /\ UNCHANGED env
      /\ \A p \in Paths : p[1] \in BundleDirs => p \notin fs.soft
  BY BundleFrame DEF Ops, BaseInv, BundleInv, PointersInv
<1>1. NoOp.kind = "none"
  BY NoOpFacts
<1>2. ASSUME Ends("svc", fs), op["svc"].at # "activesync" \/ "cleanup" \notin env.kinds, used' = used
      PROVE  BundleInv' /\ fs'.disk[Active] = fs.disk[Active]
  <2>1. fs' = fs /\ op'["svc"].kind = "none"
    BY <1>0, <1>1, <1>2, EndsSo
  <2>2. PointersInv'
    BY <1>0, <1>2, <2>1 DEF PointersInv, Names
  <2> QED BY <1>0, <1>2, <2>1, <2>2 DEF BundleInv, InHand, SettledInv
<1>3. CASE Generate
  <2>1. PICK g \in Gens \ used : used' = used \cup {g} /\ Begin("svc", "generate", "mkdir", g)
    BY <1>3 DEF Generate
  <2>2. fs' = fs /\ op["svc"].kind = "none"
    BY <1>3 DEF Generate, Idle
  <2>3. op'["svc"].at = "mkdir" /\ op'["svc"].val = g
    BY <1>0, <2>1, Begins
  <2>4. Unnamed(g)
    BY <1>0, <2>1, OwnNames DEF Unnamed, PointersInv, Names
  <2>5. PointersInv'
    BY <1>0, <2>1, <2>2 DEF PointersInv, Names
  <2>6. InHand(op["svc"])'
    <3>1. Written("mkdir", g)'
      BY DEF Written
    <3> QED BY <2>1, <2>2, <2>3, <2>4, <3>1 DEF InHand, Unnamed
  <2>7. op["svc"].at = "idle"
    BY <1>0, <2>2 DEF OpOK, AtOK
  <2>8. SettledInv'
    BY <1>0, <2>2, <2>7 DEF BundleInv, SettledInv
  <2> QED BY <2>2, <2>5, <2>6, <2>8 DEF BundleInv
<1>4. CASE Cleanup
  <2>1. PICK g \in used \ {fs.mem[Active]} : Begin("svc", "cleanup", "rb_raw", g)
    BY <1>4 DEF Cleanup
  <2>2. fs' = fs /\ op["svc"].kind = "none" /\ "cleanup" \in env.kinds /\ used' = used
    BY <1>4 DEF Cleanup, Idle
  <2>3. op'["svc"].at = "rb_raw" /\ op'["svc"].val = g
    BY <1>0, <2>1, Begins
  <2>4. op["svc"].at = "idle"
    BY <1>0, <2>2 DEF OpOK, AtOK
  <2>5. fs.mem[Active] = fs.disk[Active]
    BY <2>2, <2>4 DEF BundleInv, SettledInv
  <2>6. PointersInv'
    BY <1>0, <2>2 DEF PointersInv, Names
  <2>7. InHand(op["svc"])'
    <3>1. Written("rb_raw", g)'
      BY DEF Written
    <3> QED BY <2>1, <2>2, <2>3, <2>5, <3>1 DEF InHand, Unnamed
  <2>8. SettledInv'
    BY <2>2, <2>5 DEF SettledInv
  <2> QED BY <2>2, <2>6, <2>7, <2>8 DEF BundleInv
<1>5. CASE GenerateStep
  <2>0. PICK at, g : at = op["svc"].at /\ g = op["svc"].val
    OBVIOUS
  <2>1. /\ at \in GenSteps /\ op["svc"].kind = "generate" /\ used' = used
        /\ g \in Gens /\ Unnamed(g) /\ g \in used
    BY <1>0, <1>5, <2>0 DEF GenerateStep, GenSteps, BundleInv, InHand
  <2>2. CASE fs' = Effect(at, g) /\ \E t : op' = [op EXCEPT !["svc"].at = AfterStep(at), !["svc"].temp = t]
    <3>1. PICK t : op' = [op EXCEPT !["svc"].at = AfterStep(at), !["svc"].temp = t]
      BY <2>2
    <3>2. op'["svc"].at = AfterStep(at) /\ op'["svc"].val = g /\ op'["svc"].kind = "generate"
      BY <1>0, <2>0, <2>1, <3>1, GenerateOp
    <3> QED BY <1>0, <2>0, <2>1, <2>2, <3>2, GenerateKeeps
  <2>3. CASE /\ fs' \in {fs, PartialEffect(at, g)}
             /\ op' = [op EXCEPT !["svc"].at = IF op["svc"].temp THEN "rb_tmp" ELSE "rb_raw"]
    <3>1. PICK next \in {"rb_tmp", "rb_raw"} : Goes("svc", fs', next)
      BY <2>3 DEF Goes
    <3>2. op'["svc"].at = next /\ op'["svc"].val = g
      BY <1>0, <2>0, <3>1, GoesOn DEF On
    <3>3. Written(next, g)'
      BY <3>1 DEF Written
    <3>4. \E p \in GenPaths(g) \cup {PointerTemp} : (\E v : fs' = Wrote(fs, p, v)) \/ fs' = fs
      <4>1. \/ PartialEffect(at, g) = Wrote(fs, Raw(g), Torn)
            \/ PartialEffect(at, g) = Wrote(fs, Pgpass(g), Torn)
            \/ PartialEffect(at, g) = Wrote(fs, PointerTemp, Torn)
            \/ PartialEffect(at, g) = fs
        BY DEF PartialEffect
      <4> QED BY <2>3, <4>1 DEF GenPaths
    <3>5. PICK p \in GenPaths(g) \cup {PointerTemp} : (\E v : fs' = Wrote(fs, p, v)) \/ fs' = fs
      BY <3>4
    <3>6. /\ \A r \in Paths : r # p => fs'.mem[r] = fs.mem[r] /\ fs'.disk[r] = fs.disk[r]
          /\ \A r \in Paths : r[1] \in BundleDirs => r \notin fs'.soft
      BY <2>1, <3>5, GenWrites
    <3>7. \A r \in Paths : r \notin GenPaths(g) /\ r # PointerTemp =>
            fs'.mem[r] = fs.mem[r] /\ fs'.disk[r] = fs.disk[r]
      BY <3>6
    <3>8. op["svc"].kind # "none" /\ op["svc"].at # "activesync"
      BY <2>0, <2>1 DEF GenSteps
    <3> QED BY <1>0, <2>0, <2>1, <3>2, <3>3, <3>6, <3>7, <3>8, GenMoves
  <2>4. CASE Ends("svc", fs)
    <3>1. op["svc"].at # "activesync"
      BY <2>0, <2>1 DEF GenSteps
    <3> QED BY <1>2, <2>1, <2>4, <3>1
  <2> QED BY <1>5, <2>0, <2>2, <2>3, <2>4 DEF GenerateStep
<1>6. ASSUME Ends("svc", Synced(fs, "inst")), used' = used
      PROVE  BundleInv' /\ fs'.disk[Active] = fs.mem[Active]
  <2>1. fs' = Synced(fs, "inst") /\ op'["svc"].kind = "none"
    BY <1>0, <1>1, <1>6, EndsSo
  <2>2. PointersInv' /\ fs'.mem = fs.mem /\ fs'.disk[Active] = fs.mem[Active]
    BY <1>0, <1>6, <2>1, PointersSynced
  <2> QED BY <2>1, <2>2 DEF BundleInv, InHand, SettledInv
<1>7. CASE Commit \/ RollbackSync
  <2>1. CASE Ends("svc", Synced(fs, "inst"))
    BY <1>6, <1>7, <2>1 DEF Commit, RollbackSync
  <2>2. CASE Fails /\ Ends("svc", fs)
    <3>1. "cleanup" \notin env.kinds
      BY <2>2 DEF Settles, Fails
    <3> QED BY <1>2, <1>7, <2>2, <3>1 DEF Commit, RollbackSync
  <2> QED BY <1>7, <2>1, <2>2 DEF Commit, RollbackSync
<1>8. CASE RollbackStep
  <2>0. PICK at, g, p : at = op["svc"].at /\ g = op["svc"].val /\ p = RollbackPath(at, g)
    OBVIOUS
  <2>1. /\ at \in RollbackSteps /\ used' = used
        /\ \/ Goes("svc", Unlinked(fs, p), AfterRollback(at)) \/ Goes("svc", fs, AfterRollback(at))
           \/ Ends("svc", fs)
    BY <1>8, <2>0 DEF RollbackStep, RollbackSteps
  <2>2. op["svc"].kind \in {"generate", "cleanup"} /\ at # "activesync"
    BY <1>0, <2>0, <2>1, KindAt DEF RollbackSteps
  <2>3. g \in Gens /\ Unnamed(g)
    BY <1>0, <2>0, <2>2 DEF OpOK, BundleInv, InHand
  <2>4. p \in GenPaths(g) \cup {PointerTemp}
    BY <2>0, <2>1 DEF RollbackPath, RollbackSteps, GenPaths
  <2>5. AfterRollback(at) \in {"rb_raw", "rb_pgpass", "rb_dir", "rb_sync"}
    BY <2>1 DEF AfterRollback, RollbackSteps
  <2>6. CASE Ends("svc", fs)
    BY <1>2, <2>0, <2>1, <2>2, <2>6
  <2>7. CASE Goes("svc", Unlinked(fs, p), AfterRollback(at)) \/ Goes("svc", fs, AfterRollback(at))
    <3>1. On("svc", AfterRollback(at)) /\ fs' \in {fs, Unlinked(fs, p)}
      BY <1>0, <2>7, GoesOn
    <3>2. op'["svc"].val = g /\ op'["svc"].at = AfterRollback(at)
      BY <2>0, <3>1 DEF On
    <3>2a. Written(AfterRollback(at), g)'
      BY <2>5 DEF Written
    <3>3. /\ \A r \in Paths : r # p => fs'.mem[r] = fs.mem[r] /\ fs'.disk[r] = fs.disk[r]
          /\ \A r \in Paths : r[1] \in BundleDirs => r \notin fs'.soft
      BY <2>3, <2>4, <3>1, GenWrites
    <3>4. \A r \in Paths : r \notin GenPaths(g) /\ r # PointerTemp =>
            fs'.mem[r] = fs.mem[r] /\ fs'.disk[r] = fs.disk[r]
      BY <2>4, <3>3
    <3>5. op["svc"].kind # "none" /\ op["svc"].at # "activesync"
      BY <2>0, <2>2
    <3> QED BY <1>0, <2>0, <2>1, <3>2, <3>2a, <3>3, <3>4, <3>5, GenMoves
  <2> QED BY <2>1, <2>6, <2>7
<1> QED BY <1>3, <1>4, <1>5, <1>7, <1>8 DEF BundleStep

\* The files that a power failure leaves: both pointers are one of the two.
LEMMA BundleAfterPower ==
  ASSUME BaseInv, BundleInv, NEW f \in AfterPowerLoss(fs), Restart(f)
  PROVE  BundleInv' /\ fs'.disk[Active] \in {fs.disk[Active], fs.mem[Active]}
<1>0. /\ IsFs(fs) /\ PointersInv /\ used \subseteq Gens
      /\ \A p \in Paths : p[1] \in BundleDirs => p \notin fs.soft
  BY DEF BaseInv, BundleInv, PointersInv
<1>1. /\ fs' = f /\ UNCHANGED <<env, used>> /\ \A o \in Ops : op'[o] = NoOp
  BY <1>0, PowerFs, RestartFrame
<1>2. /\ fs'.mem = fs'.disk /\ fs'.soft = {}
      /\ \A p \in Paths : p \notin fs.soft /\ p[1] \in Roots => fs'.mem[p] \in {fs.mem[p], fs.disk[p]}
      /\ \A p \in Paths, d \in Paths :
           /\ d[1] \in Roots /\ d[2] = p[1] /\ d \notin fs.soft /\ p \notin fs.soft
           /\ fs.mem[d] # Nil /\ fs.disk[d] # Nil
           => fs'.mem[p] \in {fs.mem[p], fs.disk[p]}
  BY <1>0, <1>1, PowerFs
<1>3. fs'.mem[Active] \in {fs.mem[Active], fs.disk[Active]}
  <2>1. Active \in Paths /\ Active[1] \in Roots /\ Active[1] \in BundleDirs
    BY PathNames, PathParts, RootDirs DEF BundleDirs
  <2> QED BY <1>0, <1>2, <2>1
<1>4. ASSUME NEW g \in used, Whole(fs.mem, g), Whole(fs.disk, g)
      PROVE  Whole(fs'.mem, g)
  <2>1. /\ g \in Gens /\ GenDir(g) \in Paths /\ Raw(g) \in Paths /\ Pgpass(g) \in Paths
        /\ GenDir(g)[1] \in Roots /\ GenDir(g)[2] = g /\ Raw(g)[1] = g /\ Pgpass(g)[1] = g
    BY <1>0, PathNames, PathParts, RootDirs
  <2>2. GenDir(g) \notin fs.soft /\ Raw(g) \notin fs.soft /\ Pgpass(g) \notin fs.soft
    BY <1>0, <2>1, GenPathsApart DEF GenPaths
  <2>3. fs.mem[GenDir(g)] # Nil /\ fs.disk[GenDir(g)] # Nil
    BY <1>4, <2>1, OwnNames DEF Whole
  <2>4. fs'.mem[GenDir(g)] \in {fs.mem[GenDir(g)], fs.disk[GenDir(g)]}
    BY <1>2, <2>1, <2>2
  <2>5. fs'.mem[Raw(g)] \in {fs.mem[Raw(g)], fs.disk[Raw(g)]}
    BY <1>2, <2>1, <2>2, <2>3
  <2>6. fs'.mem[Pgpass(g)] \in {fs.mem[Pgpass(g)], fs.disk[Pgpass(g)]}
    BY <1>2, <2>1, <2>2, <2>3
  <2> QED BY <1>4, <2>4, <2>5, <2>6 DEF Whole
<1>5. \A g \in used : Whole(fs.mem, g) /\ Whole(fs.disk, g) => Whole(fs'.mem, g)
  BY <1>4
<1>6. Names(fs.mem)' /\ Names(fs.disk)'
  BY <1>0, <1>1, <1>2, <1>3, <1>5 DEF PointersInv, Names
<1>7. PointersInv'
  BY <1>2, <1>6 DEF PointersInv
<1>8. op'["svc"].kind = "none"
  BY <1>1, NoOpFacts DEF Ops
<1> QED BY <1>2, <1>3, <1>7, <1>8 DEF BundleInv, InHand, SettledInv

\* slipd dies.
LEMMA BundleAfterCrash ==
  ASSUME BaseInv, BundleInv, Settles(env), Crash
  PROVE  BundleInv' /\ fs'.disk[Active] = fs.disk[Active]
<1>1. fs' = fs /\ UNCHANGED <<env, used>> /\ (\A o \in Ops : op'[o] = NoOp) /\ "cleanup" \notin env.kinds
  BY RestartFrame DEF Crash, BaseInv, Settles
<1>2. op'["svc"].kind = "none"
  BY <1>1, NoOpFacts DEF Ops
<1>3. PointersInv'
  BY <1>1 DEF BundleInv, PointersInv, Names
<1> QED BY <1>1, <1>2, <1>3 DEF BundleInv, InHand, SettledInv

\* A step keeps the bundle, and the pointer on disk is replaced, if at all, by the
\* one in memory.
LEMMA BundleNext ==
  ASSUME BaseInv, BundleInv, Settles(env), [Next]_vars
  PROVE  BundleInv' /\ fs'.disk[Active] \in {fs.disk[Active], fs.mem[Active]}
<1>1. CASE BundleStep
  BY <1>1, BundleSteps
<1>2. CASE Crash
  BY <1>2, BundleAfterCrash
<1>3. CASE PowerLoss
  BY <1>3, BundleAfterPower DEF PowerLoss
<1>4. ASSUME NEW o \in Requests, SetStep(o) \/ ApplyStep(o) \/ LoginStep(o)
      PROVE  BundleInv' /\ fs'.disk[Active] = fs.disk[Active]
  <2>1. /\ Alone(o) /\ UNCHANGED <<env, used>>
        /\ Within(AppDirs, fs, fs') \/ Within({"apps"}, fs, fs') \/ Within({"reg"}, fs, fs')
    BY <1>4, SetFrame, ApplyFrame, LoginFrame
  <2>2. op'["svc"] = op["svc"]
    BY <2>1, OwnNames DEF Alone, Ops
  <2>3. \A d \in BundleDirs : d \notin AppDirs /\ d # "apps" /\ d # "reg"
    BY OwnNames DEF BundleDirs, AppDirs, FixedNames
  <2>4. \A p \in Paths : p[1] \in BundleDirs => Same(fs, fs', p)
    BY <2>1, <2>3 DEF Within
  <2> QED BY <2>1, <2>2, <2>4, BundleKept
<1>5. CASE UNCHANGED vars
  <2>1. UNCHANGED <<fs, env, used, op>>
    BY <1>5 DEF vars
  <2> QED BY <2>1, BundleKept DEF Same
<1> QED BY <1>1, <1>2, <1>3, <1>4, <1>5, NextSteps

\* The scenario of a behaviour stays.
LEMMA EnvKept == ASSUME BaseInv, [Next]_vars PROVE env' = env
<1>1. CASE BundleStep
  BY <1>1, BundleFrame
<1>2. CASE \E o \in Requests : SetStep(o) \/ ApplyStep(o) \/ LoginStep(o)
  BY <1>2, SetFrame, ApplyFrame, LoginFrame
<1>3. CASE Crash \/ PowerLoss \/ UNCHANGED vars
  BY <1>3 DEF Crash, PowerLoss, Restart, vars
<1> QED BY <1>1, <1>2, <1>3, NextSteps

\* The password that the disk gives is the generation its pointer names.
LEMMA PasswordNamed ==
  ASSUME BaseInv, BundleInv
  PROVE  Password(fs.disk) = fs.disk[Active] /\ fs.disk[Active] \in Gens \cup {Nil}
<1>1. Names(fs.disk) /\ used \subseteq Gens
  BY DEF BundleInv, PointersInv, BaseInv
<1> QED BY <1>1 DEF Names, Whole, Password

\* At the start there is no password.
LEMMA BundleInit == Init => BundleInv /\ Password(fs.disk) = Nil
<1> SUFFICES ASSUME Init PROVE BundleInv /\ Password(fs.disk) = Nil
  OBVIOUS
<1>1. fs.mem[Active] = Nil /\ fs.disk[Active] = Nil /\ fs.soft = {}
  <2> DEFINE m == [p \in Paths |-> IF (p = AppDir /\ env.namespace) \/ p = Config
                                  THEN CHOOSE v \in Values : TRUE ELSE Nil]
  <2>1. fs = [mem |-> m, disk |-> m, soft |-> {}]
    BY DEF Init
  <2>2. Active # AppDir /\ Active # Config /\ Active \in Paths
    BY PathNames, PathParts
  <2>3. m[Active] = Nil
    BY <2>2
  <2> HIDE DEF m
  <2> QED BY <2>1, <2>3
<1>2. op["svc"].kind = "none"
  BY NoOpFacts DEF Init, Ops
<1>3. BundleInv
  BY <1>1, <1>2 DEF BundleInv, PointersInv, Names, InHand, SettledInv
<1> QED BY <1>1, <1>3 DEF Password

\* What survives a power failure is a register of passwords: whatever fails, the
\* durable password is that of one whole generation, it changes only into that of
\* another, and once there it is never gone, if a cleanup runs only where no sync of
\* the pointer was left undone.
THEOREM BundleIsRegister ==
  ASSUME \A e \in Scenarios : Settles(e)
  PROVE  Spec => DurablePassword
<1>1. Init => BundleInv /\ Durable!Init /\ Settles(env)
  BY BundleInit DEF Init, Durable!Init
<1>2. BaseInv /\ BundleInv /\ Settles(env) /\ [Next]_vars => BundleInv' /\ Settles(env)'
  <2> SUFFICES ASSUME BaseInv, BundleInv, Settles(env), [Next]_vars
               PROVE  BundleInv' /\ Settles(env)'
    OBVIOUS
  <2>1. env' = env
    BY EnvKept
  <2> QED BY <2>1, BundleNext DEF Settles
<1>3. BaseInv /\ BundleInv /\ Settles(env) /\ BaseInv' /\ BundleInv' /\ [Next]_vars
        => [Durable!Next]_(Password(fs.disk))
  <2> SUFFICES ASSUME BaseInv, BundleInv, Settles(env), BaseInv', BundleInv', [Next]_vars
               PROVE  Durable!Next \/ Password(fs.disk)' = Password(fs.disk)
    OBVIOUS
  <2>1. Password(fs.disk) = fs.disk[Active] /\ fs.disk[Active] \in Gens \cup {Nil}
    BY PasswordNamed
  <2>2. Password(fs.disk)' = fs'.disk[Active] /\ fs'.disk[Active] \in Gens \cup {Nil}
    <3>1. Names(fs.disk)' /\ used' \subseteq Gens
      BY DEF BundleInv, PointersInv, BaseInv
    <3> QED BY <3>1 DEF Names, Whole, Password
  <2>3. fs'.disk[Active] \in {fs.disk[Active], fs.mem[Active]}
    BY BundleNext
  <2>4. fs.mem[Active] = Nil => fs.disk[Active] = Nil
    BY DEF BundleInv, PointersInv
  <2>5. fs'.disk[Active] = fs.disk[Active] \/ fs'.disk[Active] \in Gens
    BY <2>2, <2>3, <2>4
  <2> QED BY <2>1, <2>2, <2>5 DEF Durable!Next, Durable!Replace
<1> QED BY <1>1, <1>2, <1>3, BaseInvariant, PTL DEF Spec, DurablePassword, Durable!Spec

-----------------------------------------------------------------------------
(* A secret whose set was answered survives.                               *)

\* Every entry below the namespace of the app is synced data, whole.
CleanInv ==
  \A p \in Paths : p[1] \in AppDirs => p \notin fs.soft /\ fs.mem[p] # Torn /\ fs.disk[p] # Torn

\* The call that a step that sets or removes secrets makes.
LEMMA SetCalls ==
  ASSUME BaseInv, NEW o \in Requests, SetStep(o)
  PROVE  \/ fs' = fs \/ fs' = Wrote(fs, AppDir, op[o].val) \/ fs' = Synced(fs, "base")
         \/ fs' = Wrote(fs, SetTemp(o), op[o].val) \/ fs' = Renamed(fs, SetTemp(o), Key)
         \/ fs' = Synced(fs, "app") \/ \E p \in Paths : fs' = Unlinked(fs, p)
<1>1. AppDir \in Paths /\ Key \in Paths /\ SetTemp(o) \in Paths
  BY PathNames
<1> QED BY <1>1 DEF SetStep, SetSecrets, SetDeployKey, EnsureAppDir, SyncBase, SetWrite,
       SetRename, SetSync, RemoveSecret, Clear, ClearStep, Goes, Ends

\* The steps that set and remove secrets leave whole entries.
LEMMA CleanSet ==
  ASSUME BaseInv, CleanInv, NEW o \in Requests, SetStep(o)
  PROVE  CleanInv'
<1>0. /\ IsFs(fs) /\ AppDir \in Paths /\ Key \in Paths /\ SetTemp(o) \in Paths /\ SetTemp(o) # Key
      /\ AppDir[1] \in AppDirs /\ Key[1] \in AppDirs /\ SetTemp(o)[1] \in AppDirs /\ Nil # Torn
  BY PathNames, PathParts, OwnNames DEF AppDirs, FixedNames, BaseInv
<1>1. ASSUME NEW p \in Paths, NEW v, v # Torn, fs' = Wrote(fs, p, v) PROVE CleanInv'
  BY <1>0, <1>1, WroteFs DEF CleanInv
<1>2. ASSUME NEW p \in Paths, fs' = Unlinked(fs, p) PROVE CleanInv'
  <2>1. /\ fs'.mem[p] = Nil /\ fs'.disk = fs.disk /\ fs'.soft = fs.soft \ {p}
        /\ \A q \in Paths : q # p => fs'.mem[q] = fs.mem[q]
    <3>1. LET g == Unlinked(fs, p) IN
          /\ g.mem[p] = Nil /\ g.disk = fs.disk /\ g.soft = fs.soft \ {p}
          /\ \A q \in Paths : q # p => g.mem[q] = fs.mem[q]
      <4>1. IsFs(fs) /\ p \in Paths
        BY <1>0
      <4> QED BY ONLY <4>1, UnlinkedFs
    <3> QED BY <1>2, <3>1
  <2> QED BY <1>0, <2>1 DEF CleanInv
<1>3. ASSUME NEW d, fs' = Synced(fs, d) PROVE CleanInv'
  <2>1. /\ fs'.mem = fs.mem /\ fs'.soft = fs.soft
        /\ \A q \in Paths : fs'.disk[q] \in {fs.mem[q], fs.disk[q]}
    BY <1>0, <1>3, SyncedFs
  <2> QED BY <2>1 DEF CleanInv
<1>4. CASE fs' = Renamed(fs, SetTemp(o), Key)
  <2>1. PICK a \in Paths, b \in Paths : a = SetTemp(o) /\ b = Key /\ a # b
    BY <1>0
  <2>2. a # b /\ a \in Paths /\ b \in Paths /\ IsFs(fs)
    BY <1>0, <2>1
  <2>3. LET g == Renamed(fs, a, b) IN
        /\ g.mem[b] = fs.mem[a] /\ g.mem[a] = Nil /\ g.disk = fs.disk
        /\ \A q \in Paths : q # a /\ q # b => g.mem[q] = fs.mem[q] /\ (q \in g.soft <=> q \in fs.soft)
        /\ (b \in g.soft <=> a \in fs.soft) /\ a \notin g.soft
    BY ONLY <2>2, RenamedFs
  <2>4. fs' = Renamed(fs, a, b) /\ a[1] \in AppDirs /\ b[1] \in AppDirs
    BY <1>0, <1>4, <2>1
  <2>5. SUFFICES ASSUME NEW q \in Paths, q[1] \in AppDirs
                 PROVE  q \notin fs'.soft /\ fs'.mem[q] # Torn /\ fs'.disk[q] # Torn
    BY DEF CleanInv
  <2>6. CASE q = a
    BY <1>0, <2>3, <2>4, <2>5, <2>6 DEF CleanInv
  <2>7. CASE q = b
    BY <1>0, <2>3, <2>4, <2>5, <2>7 DEF CleanInv
  <2>8. CASE q # a /\ q # b
    BY <2>3, <2>4, <2>5, <2>8 DEF CleanInv
  <2> QED BY <2>6, <2>7, <2>8
<1>5. CASE fs' = fs
  BY <1>5 DEF CleanInv
<1>6. op[o].kind \in {"set", "key"} => op[o].val # Torn
  BY OwnNames DEF BaseInv, OpOK, Ops
<1>7. CASE op[o].val = Torn
  <2>1. op[o].at \notin SetSteps
    BY <1>6, <1>7, KindAt DEF Ops
  <2>2. ~(EnsureAppDir(o) \/ SyncBase(o) \/ SetWrite(o) \/ SetRename(o) \/ SetSync(o))
    BY <2>1 DEF EnsureAppDir, SyncBase, SetWrite, SetRename, SetSync, SetSteps
  <2>3. fs' = fs \/ \E p \in Paths : fs' = Unlinked(fs, p)
    BY <1>0, <2>2 DEF SetStep, SetSecrets, SetDeployKey, RemoveSecret, Clear, ClearStep, Goes, Ends
  <2> QED BY <1>2, <1>5, <2>3
<1>8. CASE op[o].val # Torn
  BY <1>0, <1>1, <1>2, <1>3, <1>4, <1>5, <1>8, SetCalls
<1> QED BY <1>7, <1>8

\* The invariant of those entries, over every step.
LEMMA CleanStep ==
  ASSUME BaseInv, CleanInv, [Next]_vars
  PROVE  CleanInv'
<1>1. ASSUME \A p \in Paths : p[1] \in AppDirs => Same(fs, fs', p) PROVE CleanInv'
  BY <1>1 DEF CleanInv, Same
<1>2. CASE BundleStep
  <2>1. \A d \in AppDirs : d \notin BundleDirs
    BY OwnNames DEF BundleDirs, AppDirs, FixedNames
  <2> QED BY <1>1, <1>2, <2>1, BundleFrame DEF Within
<1>3. ASSUME NEW o \in Requests, ApplyStep(o) \/ LoginStep(o) PROVE CleanInv'
  <2>1. Within({"apps"}, fs, fs') \/ Within({"reg"}, fs, fs')
    BY <1>3, ApplyFrame, LoginFrame
  <2> QED BY <1>1, <2>1 DEF Within, AppDirs
<1>4. CASE PowerLoss
  <2>1. PICK f \in AfterPowerLoss(fs) : fs' = f
    BY <1>4 DEF PowerLoss, Restart
  <2>2. /\ fs'.mem = fs'.disk /\ fs'.soft = {}
        /\ \A p \in Paths : p \notin fs.soft => fs'.mem[p] \in {fs.mem[p], fs.disk[p], Nil}
    BY <2>1, PowerFs DEF BaseInv
  <2> QED BY <2>2, OwnNames DEF CleanInv
<1>5. CASE Crash \/ UNCHANGED vars
  BY <1>5 DEF Crash, Restart, vars, CleanInv
<1> QED BY <1>2, <1>3, <1>4, <1>5, CleanSet, NextSteps

\* When an answered secret survives.  A deploy key is set without the lock, and the
\* base directory is synced only by the call that creates the namespace: that sync
\* must not be left undone, unless the namespace was there and stays.
Keeps(e) ==
  "set" \in e.kinds => /\ "key" \notin e.kinds
                       /\ \/ e.namespace /\ "clear" \notin e.kinds
                          \/ ~e.fails /\ "crash" \notin e.events

\* An operation that changes the secrets, under the lock of the app.
Changes(q) == q.kind \in {"set", "clear"}

SetOK(o) ==
  /\ op[o].kind = "clear" => ack = Nil
  /\ op[o].at = "setrename" => fs.mem[SetTemp(o)] \in {op[o].val, Nil}
  /\ op[o].at = "setsync" => fs.mem[Key] = op[o].val

AckedInv ==
  ack # Nil => /\ fs.mem[Key] = ack /\ fs.disk[Key] = ack
               /\ fs.mem[AppDir] # Nil /\ fs.disk[AppDir] # Nil

\* The namespace is durable, but for the moment between its creation and the sync.
DirInv ==
  /\ fs.mem[AppDir] # Nil => fs.disk[AppDir] # Nil \/ \E o \in Requests : op[o].at = "basesync"
  /\ env.namespace /\ "clear" \notin env.kinds => fs.mem[AppDir] # Nil /\ fs.disk[AppDir] # Nil

OneChanges == \A o \in Requests, p \in Requests : Changes(op[o]) /\ Changes(op[p]) => o = p

AckInv == AckedInv /\ DirInv /\ OneChanges /\ \A o \in Requests : SetOK(o)

\* Without deploy keys, only an operation that changes the secrets is at their steps.
LEMMA ChangesAt ==
  ASSUME BaseInv, "key" \notin env.kinds, NEW o \in Requests
  PROVE  ~Changes(op[o]) => op[o].at \notin SetSteps /\ op[o].kind # "clear"
<1>1. o \in Ops /\ OpOK(o, op[o])
  BY DEF Ops, BaseInv
<1>2. op[o].kind # "key"
  BY <1>1 DEF OpOK
<1> QED BY <1>1, <1>2, KindAt DEF Changes

\* A step of the operation that changes the secrets.
LEMMA AckMoves ==
  ASSUME BaseInv, "key" \notin env.kinds, NEW o \in Requests, Alone(o),
         \A p \in Requests : p # o => ~Changes(op[p]),
         SetOK(o)', AckedInv', DirInv'
  PROVE  AckInv'
<1>1. \A p \in Requests : p # o => op'[p] = op[p]
  BY DEF Alone, Ops
<1>2. OneChanges'
  BY <1>1 DEF OneChanges, Changes
<1>3. ASSUME NEW p \in Requests, p # o PROVE SetOK(p)'
  <2>1. op'[p] = op[p] /\ op[p].at \notin SetSteps /\ op[p].kind # "clear"
    BY <1>1, <1>3, ChangesAt
  <2> QED BY <2>1 DEF SetOK, SetSteps
<1> QED BY <1>2, <1>3 DEF AckInv

\* Steps that leave the secrets alone.
LEMMA AckKept ==
  ASSUME BaseInv, BaseInv', AckInv, "key" \notin env.kinds, UNCHANGED <<env, ack>>,
         \A p \in Paths : p[1] \in AppDirs => Same(fs, fs', p),
         \A q \in Requests : \/ op'[q] = op[q]
                             \/ ~Changes(op[q]) /\ ~Changes(op'[q])
  PROVE  AckInv'
<1>1. \A q \in Requests : /\ ~Changes(op[q]) => op[q].at \notin SetSteps /\ op[q].kind # "clear"
                          /\ ~Changes(op'[q]) => op'[q].at \notin SetSteps /\ op'[q].kind # "clear"
  <2>1. \A q \in Requests : /\ AtOK(op[q].kind, op[q].at) /\ AtOK(op'[q].kind, op'[q].at)
                            /\ op[q].kind # "key" /\ op'[q].kind # "key"
    <3>1. SUFFICES ASSUME NEW q \in Requests
                   PROVE  /\ AtOK(op[q].kind, op[q].at) /\ AtOK(op'[q].kind, op'[q].at)
                          /\ op[q].kind # "key" /\ op'[q].kind # "key"
      OBVIOUS
    <3>2. OpOK(q, op[q]) /\ OpOK(q, op[q])'
      BY DEF BaseInv, Ops
    <3> QED BY <3>2 DEF OpOK
  <2> QED BY <2>1 DEF Changes, AtOK, SetSteps, ApplySteps, LoginSteps, GenSteps, RollbackSteps
<1>2. /\ fs'.mem[Key] = fs.mem[Key] /\ fs'.disk[Key] = fs.disk[Key]
      /\ fs'.mem[AppDir] = fs.mem[AppDir] /\ fs'.disk[AppDir] = fs.disk[AppDir]
      /\ \A q \in Requests : fs'.mem[SetTemp(q)] = fs.mem[SetTemp(q)]
  BY PathNames, PathParts DEF Same, AppDirs
<1>3. AckedInv'
  BY <1>2 DEF AckInv, AckedInv
<1>4. DirInv'
  <2>1. \A q \in Requests : op[q].at = "basesync" => op'[q].at = "basesync"
    BY <1>1 DEF SetSteps
  <2> QED BY <1>2, <2>1 DEF AckInv, DirInv
<1>5. OneChanges'
  BY DEF AckInv, OneChanges, Changes
<1>6. ASSUME NEW q \in Requests PROVE SetOK(q)'
  <2>1. CASE op'[q] = op[q]
    BY <1>2, <2>1 DEF AckInv, SetOK
  <2>2. CASE ~Changes(op'[q])
    BY <1>1, <2>2 DEF SetOK, SetSteps
  <2> QED BY <2>1, <2>2
<1> QED BY <1>3, <1>4, <1>5, <1>6 DEF AckInv

\* With the lock free, no operation changes the secrets.
LEMMA FreeOfChanges ==
  ASSUME BaseInv, AppFree
  PROVE  \A p \in Requests : ~Changes(op[p])
<1>1. SUFFICES ASSUME NEW p \in Requests PROVE ~Changes(op[p])
  OBVIOUS
<1>2. OpOK(p, op[p])
  BY DEF BaseInv, Ops
<1>3. op[p].orphan = TRUE => op[p].kind = "apply"
  BY <1>2 DEF OpOK
<1>4. op[p].kind \in {"none", "key", "login", "logout"} \/ op[p].orphan = TRUE
  <2>1. op[p].orphan \in BOOLEAN
    BY <1>2 DEF OpOK
  <2> QED BY <2>1 DEF AppFree
<1> QED BY <1>3, <1>4 DEF Changes

\* The steps that set and remove secrets.
LEMMA AckSet ==
  ASSUME BaseInv, AckInv, Keeps(env), "set" \in env.kinds, NEW o \in Requests, SetStep(o)
  PROVE  AckInv'
<1>0. /\ o \in Ops /\ IsFs(fs) /\ AppDir \in Paths /\ Key \in Paths /\ SetTemp(o) \in Paths
      /\ SetTemp(o) # Key /\ SetTemp(o) # AppDir /\ Key # AppDir
      /\ AppDir[1] = "base" /\ Key[1] = "app" /\ SetTemp(o)[1] = "app"
      /\ "key" \notin env.kinds /\ OpOK(o, op[o])
  <2>1. /\ o \in Ops /\ IsFs(fs) /\ "key" \notin env.kinds /\ OpOK(o, op[o]) /\ o # "key"
    BY OwnNames DEF FixedNames, BaseInv, Ops, Keeps
  <2> QED BY <2>1, PathNames, PathParts
<1>1. Alone(o) /\ env' = env
  BY SetFrame
<1>2. ASSUME \A p \in Requests : p # o => ~Changes(op[p]), SetOK(o)', AckedInv', DirInv'
      PROVE  AckInv'
  BY <1>0, <1>1, <1>2, AckMoves
<1>3. op[o].at \in SetSteps \/ op[o].kind = "clear" => Changes(op[o])
  BY <1>0, ChangesAt
<1>4. Changes(op[o]) => \A p \in Requests : p # o => ~Changes(op[p])
  BY DEF AckInv, OneChanges
<1>5. \A p \in Requests : p # o => op'[p] = op[p]
  BY <1>1 DEF Alone, Ops
\* The namespace when its entries stay.
<1>6. ASSUME fs'.mem[AppDir] = fs.mem[AppDir], fs'.disk[AppDir] = fs.disk[AppDir],
             op[o].at = "basesync" => op'[o].at = "basesync" \/ (env.namespace /\ "clear" \notin env.kinds)
      PROVE  DirInv'
  <2>1. CASE env.namespace /\ "clear" \notin env.kinds
    BY <1>1, <1>6, <2>1 DEF AckInv, DirInv
  <2>2. CASE ~(env.namespace /\ "clear" \notin env.kinds)
    BY <1>1, <1>5, <1>6, <2>2 DEF AckInv, DirInv
  <2> QED BY <2>1, <2>2
<1>7. ASSUME NEW v \in Values, SetSecrets(o, v) PROVE AckInv'
  <2>1. Begin(o, "set", "dir", v) /\ AppFree /\ UNCHANGED <<fs, ack>> /\ Idle(o, "set")
    BY <1>7 DEF SetSecrets
  <2>2. op'[o].kind = "set" /\ op'[o].at = "dir" /\ op[o].kind = "none"
    <3>1. op[o].kind = "none"
      BY <2>1 DEF Idle
    <3>2. BaseInv /\ o \in Ops /\ Begin(o, "set", "dir", v)
      BY <1>0, <2>1
    <3>3. op'[o].kind = "set" /\ op'[o].at = "dir"
      BY ONLY <3>2, Begins
    <3> QED BY <3>1, <3>3
  <2>3. op[o].at # "basesync"
    BY <1>0, <2>2, KindAt DEF SetSteps
  <2>4. DirInv'
    BY <1>6, <2>1, <2>3
  <2>5. AckedInv' /\ SetOK(o)'
    BY <2>1, <2>2 DEF AckInv, AckedInv, SetOK
  <2> QED BY <1>2, <2>1, <2>4, <2>5, FreeOfChanges
<1>8. ASSUME NEW v \in Values, SetDeployKey(o, v) PROVE AckInv'
  BY <1>0, <1>8 DEF SetDeployKey, Idle
<1>9. CASE Clear(o)
  <2>1. Begin(o, "clear", "unlink", Nil) /\ AppFree /\ fs' = fs /\ ack' = Nil /\ Idle(o, "clear")
    BY <1>9 DEF Clear
  <2>2. op'[o].kind = "clear" /\ op'[o].at = "unlink" /\ op[o].kind = "none"
    <3>1. op[o].kind = "none"
      BY <2>1 DEF Idle
    <3>2. BaseInv /\ o \in Ops /\ Begin(o, "clear", "unlink", Nil)
      BY <1>0, <2>1
    <3>3. op'[o].kind = "clear" /\ op'[o].at = "unlink"
      BY ONLY <3>2, Begins
    <3> QED BY <3>1, <3>3
  <2>3. op[o].at # "basesync"
    BY <1>0, <2>2, KindAt DEF SetSteps
  <2>4. DirInv'
    BY <1>6, <2>1, <2>3
  <2>5. AckedInv' /\ SetOK(o)'
    BY <2>1, <2>2 DEF AckInv, AckedInv, SetOK
  <2> QED BY <1>2, <2>1, <2>4, <2>5, FreeOfChanges
<1>10. CASE RemoveSecret(o)
  <2>1. AppFree /\ fs' = Unlinked(fs, Key) /\ op' = op /\ ack' = Nil
    BY <1>10 DEF RemoveSecret
  <2>2. fs'.mem[AppDir] = fs.mem[AppDir] /\ fs'.disk[AppDir] = fs.disk[AppDir]
    BY <1>0, <2>1, UnlinkedFs
  <2>3. DirInv'
    <3>1. op'[o].at = op[o].at
      BY <2>1
    <3> QED BY <1>6, <2>2, <3>1
  <2>4. op[o].at \notin SetSteps
    BY <1>3, <2>1, FreeOfChanges
  <2>5. AckedInv' /\ SetOK(o)'
    BY <2>1, <2>4 DEF AckedInv, SetOK, SetSteps
  <2> QED BY <1>2, <2>1, <2>3, <2>5, FreeOfChanges
<1>11. CASE EnsureAppDir(o)
  <2>1. op[o].at = "dir" /\ ack' = ack
    BY <1>11 DEF EnsureAppDir
  <2>2. Changes(op[o]) /\ op[o].val \in Values
    <3>1. Changes(op[o])
      BY <1>3, <2>1 DEF SetSteps
    <3>2. op[o].kind = "set"
      BY <1>0, <2>1, <3>1, KindAt DEF SetSteps, Changes
    <3> QED BY <1>0, <3>1, <3>2 DEF OpOK
  <2>3. CASE fs.mem[AppDir] # Nil
    <3>0. Goes(o, fs, "write")
      BY <1>11, <2>3, Namespace DEF EnsureAppDir
    <3>1. fs' = fs /\ On(o, "write")
      BY <1>0, <3>0, GoesOn
    <3>2. op'[o].at = "write" /\ op'[o].kind = op[o].kind
      BY <3>1 DEF On
    <3>3. DirInv'
      BY <1>6, <2>1, <3>1
    <3>4. AckedInv' /\ SetOK(o)'
      BY <2>1, <3>1, <3>2 DEF AckInv, AckedInv, SetOK
    <3> QED BY <1>2, <1>4, <2>2, <3>3, <3>4
  <2>4. CASE fs.mem[AppDir] = Nil
    <3>0. Goes(o, Wrote(fs, AppDir, op[o].val), "basesync")
      BY <1>11, <2>4, Namespace DEF EnsureAppDir
    <3>1. fs' = Wrote(fs, AppDir, op[o].val) /\ On(o, "basesync")
      BY <1>0, <3>0, GoesOn
    <3>2. op'[o].at = "basesync" /\ op'[o].kind = op[o].kind
      BY <3>1 DEF On
    <3>3. fs'.mem[AppDir] = op[o].val /\ fs'.disk = fs.disk
      BY <1>0, <3>1, WroteFs
    <3>4. DirInv'
      BY <1>1, <2>2, <2>4, <3>2, <3>3, OwnNames DEF AckInv, DirInv
    <3>5. ack = Nil
      BY <2>4 DEF AckInv, AckedInv
    <3>6. AckedInv' /\ SetOK(o)'
      BY <2>1, <3>2, <3>5 DEF AckedInv, SetOK
    <3> QED BY <1>2, <1>4, <2>2, <3>4, <3>6
  <2> QED BY <2>3, <2>4
<1>12. CASE SyncBase(o)
  <2>1. op[o].at = "basesync" /\ ack' = ack
    BY <1>12 DEF SyncBase
  <2>2. Changes(op[o])
    BY <1>3, <2>1 DEF SetSteps
  <2>3. CASE Goes(o, Synced(fs, "base"), "write")
    <3>1. fs' = Synced(fs, "base") /\ On(o, "write")
      BY <1>0, <2>3, GoesOn
    <3>2. op'[o].at = "write" /\ op'[o].kind = op[o].kind
      BY <3>1 DEF On
    <3>3. fs'.mem = fs.mem /\ fs'.disk[AppDir] = fs.mem[AppDir] /\ fs'.disk[Key] = fs.disk[Key]
      BY <1>0, <3>1, SyncedFs
    <3>4. DirInv'
      BY <1>1, <3>3 DEF AckInv, DirInv
    <3>5. AckedInv' /\ SetOK(o)'
      BY <2>1, <3>2, <3>3 DEF AckInv, AckedInv, SetOK
    <3> QED BY <1>2, <1>4, <2>2, <3>4, <3>5
  <2>4. CASE Fails /\ Ends(o, fs)
    <3>1. fs' = fs /\ op'[o] = NoOp
      BY <1>0, <2>4, EndsSo
    <3>2. env.namespace /\ "clear" \notin env.kinds
      BY <2>4 DEF Keeps, Fails
    <3>3. DirInv'
      BY <1>6, <3>1, <3>2
    <3>4. AckedInv' /\ SetOK(o)'
      BY <2>1, <3>1, NoOpFacts DEF AckInv, AckedInv, SetOK
    <3> QED BY <1>2, <1>4, <2>2, <3>3, <3>4
  <2> QED BY <1>12, <2>3, <2>4 DEF SyncBase
\* A call that ends the operation and touches neither the secret nor the namespace.
<1>13. ASSUME NEW f, Ends(o, f), f.mem[Key] = fs.mem[Key], f.disk[Key] = fs.disk[Key],
              f.mem[AppDir] = fs.mem[AppDir], f.disk[AppDir] = fs.disk[AppDir], ack' = ack,
              op[o].at # "basesync", Changes(op[o])
       PROVE  AckInv'
  <2>1. fs' = f /\ op'[o] = NoOp
    BY <1>0, <1>13, EndsSo
  <2>2. DirInv'
    BY <1>6, <1>13, <2>1
  <2>3. AckedInv' /\ SetOK(o)'
    BY <1>13, <2>1, NoOpFacts DEF AckInv, AckedInv, SetOK
  <2> QED BY <1>2, <1>4, <1>13, <2>2, <2>3
<1>14. CASE SetWrite(o)
  <2>1. op[o].at = "write" /\ ack' = ack
    BY <1>14 DEF SetWrite
  <2>2. Changes(op[o])
    BY <1>3, <2>1 DEF SetSteps
  <2>3. CASE Goes(o, Wrote(fs, SetTemp(o), op[o].val), "setrename")
    <3>1. fs' = Wrote(fs, SetTemp(o), op[o].val) /\ On(o, "setrename")
      BY <1>0, <2>3, GoesOn
    <3>2. op'[o].at = "setrename" /\ op'[o].kind = op[o].kind /\ op'[o].val = op[o].val
      BY <3>1 DEF On
    <3>3. /\ fs'.mem[SetTemp(o)] = op[o].val /\ fs'.disk = fs.disk
          /\ fs'.mem[Key] = fs.mem[Key] /\ fs'.mem[AppDir] = fs.mem[AppDir]
      BY <1>0, <3>1, WroteFs
    <3>4. DirInv'
      BY <1>6, <2>1, <3>3
    <3>5. AckedInv'
      BY <2>1, <3>3 DEF AckInv, AckedInv
    <3>6. SetOK(o)'
      BY <2>1, <3>2, <3>3 DEF AckInv, SetOK
    <3> QED BY <1>2, <1>4, <2>2, <3>4, <3>5, <3>6
  <2>4. CASE Ends(o, fs)
    BY <1>13, <2>1, <2>2, <2>4
  <2> QED BY <1>14, <2>3, <2>4 DEF SetWrite
<1>15. CASE SetRename(o)
  <2>1. op[o].at = "setrename"
    BY <1>15 DEF SetRename
  <2>2. Changes(op[o])
    BY <1>3, <2>1 DEF SetSteps
  <2>3. CASE /\ fs.mem[SetTemp(o)] # Nil /\ ack' = Nil
             /\ Goes(o, Renamed(fs, SetTemp(o), Key), "setsync")
    <3>1. fs' = Renamed(fs, SetTemp(o), Key) /\ On(o, "setsync")
      BY <1>0, <2>3, GoesOn
    <3>2. op'[o].at = "setsync" /\ op'[o].kind = op[o].kind /\ op'[o].val = op[o].val
      BY <3>1 DEF On
    <3>3. fs.mem[SetTemp(o)] = op[o].val
      BY <2>1, <2>3 DEF AckInv, SetOK
    <3>4. LET g == Renamed(fs, SetTemp(o), Key) IN
          g.mem[Key] = fs.mem[SetTemp(o)] /\ g.disk = fs.disk /\ g.mem[AppDir] = fs.mem[AppDir]
      BY ONLY <1>0, RenamedFs
    <3>5. DirInv'
      BY <1>6, <2>1, <3>1, <3>4
    <3>6. AckedInv' /\ SetOK(o)'
      BY <2>3, <3>1, <3>2, <3>3, <3>4 DEF AckedInv, SetOK
    <3> QED BY <1>2, <1>4, <2>2, <3>5, <3>6
  <2>4. CASE Ends(o, Unlinked(fs, SetTemp(o))) /\ ack' = ack
    <3>1. LET f == Unlinked(fs, SetTemp(o)) IN
          f.mem[Key] = fs.mem[Key] /\ f.disk = fs.disk /\ f.mem[AppDir] = fs.mem[AppDir]
      BY ONLY <1>0, UnlinkedFs
    <3> QED BY <1>13, <2>1, <2>2, <2>4, <3>1
  <2> QED BY <1>15, <2>3, <2>4 DEF SetRename
<1>16. CASE SetSync(o)
  <2>1. op[o].at = "setsync"
    BY <1>16 DEF SetSync
  <2>2. Changes(op[o]) /\ op[o].kind = "set"
    <3>1. Changes(op[o])
      BY <1>3, <2>1 DEF SetSteps
    <3> QED BY <1>0, <2>1, <3>1, KindAt DEF SetSteps, Changes
  <2>3. CASE IsDir(fs.mem, "app") /\ Ends(o, Synced(fs, "app")) /\ ack' = op[o].val
    <3>1. fs' = Synced(fs, "app") /\ op'[o] = NoOp
      BY <1>0, <2>3, EndsSo
    <3>2. fs'.mem = fs.mem /\ fs'.disk[Key] = fs.mem[Key] /\ fs'.disk[AppDir] = fs.disk[AppDir]
      BY <1>0, <3>1, SyncedFs
    <3>3. fs.mem[AppDir] # Nil /\ fs.mem[Key] = op[o].val
      BY <2>1, <2>3, Namespace DEF AckInv, SetOK
    <3>4. \A p \in Requests : op[p].at # "basesync"
      BY <1>0, <1>4, <2>1, <2>2, ChangesAt DEF SetSteps
    <3>5. fs.disk[AppDir] # Nil
      BY <3>3, <3>4 DEF AckInv, DirInv
    <3>6. DirInv'
      BY <1>6, <2>1, <3>2
    <3>7. AckedInv' /\ SetOK(o)'
      BY <2>3, <3>1, <3>2, <3>3, <3>5, NoOpFacts DEF AckedInv, SetOK
    <3> QED BY <1>2, <1>4, <2>2, <3>6, <3>7
  <2>4. CASE Ends(o, fs) /\ ack' = ack
    BY <1>13, <2>1, <2>2, <2>4
  <2> QED BY <1>16, <2>2, <2>3, <2>4 DEF SetSync
<1>17. CASE ClearStep(o)
  <2>1. op[o].at = "unlink" /\ ack' = ack
    BY <1>17 DEF ClearStep
  <2>2. op[o].kind = "clear" /\ Changes(op[o]) /\ "clear" \in env.kinds
    <3>1. op[o].kind = "clear"
      BY <1>0, <2>1, KindAt
    <3> QED BY <1>0, <3>1 DEF Changes, OpOK
  <2>3. ack = Nil
    BY <2>2 DEF AckInv, SetOK
  <2>4. CASE \E p \in Paths : p[1] = "app" /\ Goes(o, Unlinked(fs, p), "unlink")
    <3>1. PICK p \in Paths : p[1] = "app" /\ Goes(o, Unlinked(fs, p), "unlink")
      BY <2>4
    <3>2. fs' = Unlinked(fs, p) /\ On(o, "unlink")
      BY <1>0, <3>1, GoesOn
    <3>3. op'[o].at = "unlink" /\ op'[o].kind = op[o].kind
      BY <3>2 DEF On
    <3>4. p # AppDir
      BY <1>0, <3>1
    <3>5. LET f == Unlinked(fs, p) IN f.disk = fs.disk /\ f.mem[AppDir] = fs.mem[AppDir]
      BY ONLY <1>0, <3>1, <3>4, UnlinkedFs
    <3>6. DirInv'
      BY <1>6, <2>1, <3>2, <3>5
    <3>7. AckedInv' /\ SetOK(o)'
      BY <2>1, <2>3, <3>3 DEF AckedInv, SetOK
    <3> QED BY <1>2, <1>4, <2>2, <3>6, <3>7
  <2>5. CASE Ends(o, Unlinked(fs, AppDir))
    <3>1. fs' = Unlinked(fs, AppDir) /\ op'[o] = NoOp
      BY <1>0, <2>5, EndsSo
    <3>2. fs'.mem[AppDir] = Nil
      BY <1>0, <3>1, UnlinkedFs
    <3>3. DirInv'
      BY <1>1, <2>2, <3>2 DEF DirInv
    <3>4. AckedInv' /\ SetOK(o)'
      BY <2>1, <2>3, <3>1, NoOpFacts DEF AckedInv, SetOK
    <3> QED BY <1>2, <1>4, <2>2, <3>3, <3>4
  <2> QED BY <1>17, <2>4, <2>5 DEF ClearStep
<1> QED BY <1>7, <1>8, <1>9, <1>10, <1>11, <1>12, <1>14, <1>15, <1>16, <1>17 DEF SetStep

\* slipd dies, or power fails.
LEMMA AckRestart ==
  ASSUME BaseInv, CleanInv, AckInv, Keeps(env), "set" \in env.kinds, Crash \/ PowerLoss
  PROVE  AckInv'
<1>0. /\ IsFs(fs) /\ AppDir \in Paths /\ Key \in Paths /\ AppDir[1] \in Roots /\ AppDir[2] = Key[1]
      /\ AppDir \notin fs.soft /\ Key \notin fs.soft
  BY PathNames, PathParts, RootDirs DEF BaseInv, CleanInv, AppDirs
<1>1. PICK f : Restart(f) /\ IsFs(f) /\ (f \in AfterPowerLoss(fs) \/ (f = fs /\ "crash" \in env.events))
  BY <1>0, PowerFs DEF Crash, PowerLoss
<1>2. /\ fs' = f /\ UNCHANGED <<env, ack>>
      /\ \A o \in Requests : op'[o].kind = "none" /\ op'[o].at = "idle"
  BY <1>1, RestartFrame, NoOpFacts DEF Ops
<1>3. OneChanges' /\ \A o \in Requests : SetOK(o)'
  BY <1>2 DEF OneChanges, Changes, SetOK
<1>4. CASE f = fs /\ "crash" \in env.events
  <2>1. env.namespace /\ "clear" \notin env.kinds
    BY <1>4 DEF Keeps
  <2>2. AckedInv' /\ DirInv'
    BY <1>2, <1>4, <2>1 DEF AckInv, AckedInv, DirInv
  <2> QED BY <1>3, <2>2 DEF AckInv
<1>5. CASE f \in AfterPowerLoss(fs)
  <2>1. /\ fs'.mem = fs'.disk /\ fs'.mem[AppDir] \in {fs.mem[AppDir], fs.disk[AppDir]}
        /\ fs.mem[AppDir] # Nil /\ fs.disk[AppDir] # Nil => fs'.mem[Key] \in {fs.mem[Key], fs.disk[Key]}
    BY <1>0, <1>2, <1>5, PowerFs
  <2>2. AckedInv' /\ DirInv'
    BY <1>2, <2>1 DEF AckInv, AckedInv, DirInv
  <2> QED BY <1>3, <2>2 DEF AckInv
<1> QED BY <1>1, <1>4, <1>5

\* The steps of an apply are of its kind.
LEMMA ApplyKinds ==
  ASSUME BaseInv, NEW o \in Requests, ApplyStep(o)
  PROVE  op[o].kind \in {"none", "apply"} /\ op'[o].kind \in {"none", "apply"}
<1>a. o \in Ops
  BY DEF Ops
<1>0. o \in Ops /\ op = [q \in Ops |-> op[q]] /\ op[o] = [f \in OpFields |-> op[o][f]]
  BY <1>a, OpShape
<1>1. CASE \E v \in Values : Apply(o, v)
  <2>1. PICK v \in Values : Idle(o, "apply") /\ Begin(o, "apply", "open", v)
    BY <1>1 DEF Apply
  <2>2. op[o].kind = "none"
    BY <2>1 DEF Idle
  <2> QED BY <1>0, <2>1, <2>2, Begins
<1>2. CASE ApplyOpen(o) \/ ApplyFill(o) \/ ApplyRename(o) \/ Publish(o)
  <2>1. op[o].at \in ApplySteps
    BY <1>2 DEF ApplyOpen, ApplyFill, ApplyRename, Publish, ApplySteps
  <2>2. \E f, at : Goes(o, f, at) \/ Ends(o, f)
    BY <1>2 DEF ApplyOpen, ApplyFill, ApplyRename, Publish
  <2>3. op'[o].kind \in {op[o].kind, "none"}
    BY <1>0, <2>2, GoesOn, EndsSo, NoOpFacts DEF On
  <2> QED BY <1>0, <2>1, <2>3, KindAt
<1>3. CASE Disconnect(o)
  <2>1. /\ op[o].kind = "apply"
        /\ op' = [op EXCEPT ![o] = NoOp] \/ op' = [op EXCEPT ![o] = [op[o] EXCEPT !.orphan = TRUE]]
    BY <1>3 DEF Disconnect
  <2> DEFINE q == [op[o] EXCEPT !.orphan = TRUE]
  <2>2. op'[o] \in {NoOp, q}
    BY <1>0, <2>1
  <2>3. q.kind = op[o].kind
    BY <1>0 DEF OpFields
  <2> HIDE DEF q
  <2> QED BY <2>1, <2>2, <2>3, NoOpFacts
<1> QED BY <1>1, <1>2, <1>3 DEF ApplyStep

SecretsInv ==
  /\ CleanInv /\ ("set" \notin env.kinds => ack = Nil)
  /\ "set" \in env.kinds => AckInv

\* At the start no secret was answered.
LEMMA SecretsInit == Init => SecretsInv
<1> SUFFICES ASSUME Init PROVE SecretsInv
  OBVIOUS
<1>0. /\ AppDir \in Paths /\ Key \in Paths /\ Key # AppDir /\ Key # Config
      /\ \A p \in Paths : p[1] \in AppDirs => p # Config
  BY PathNames, PathParts DEF AppDirs
<1>1. (CHOOSE v \in Values : TRUE) \in Values
  BY FilesAssumption
<1> DEFINE m == [p \in Paths |-> IF (p = AppDir /\ env.namespace) \/ p = Config
                                THEN CHOOSE v \in Values : TRUE ELSE Nil]
<1>2. fs = [mem |-> m, disk |-> m, soft |-> {}]
  BY DEF Init
<1>3. (\A p \in Paths : m[p] # Torn) /\ (env.namespace => m[AppDir] # Nil)
  <2>1. \A v \in Values : v # Nil /\ v # Torn
    BY OwnNames
  <2>2. \A p \in Paths : m[p] # Torn
    BY <1>1, <2>1, OwnNames
  <2>3. ASSUME env.namespace PROVE m[AppDir] # Nil
    BY <1>0, <1>1, <2>1, <2>3
  <2> QED BY <2>2, <2>3
<1> HIDE DEF m
<1>4. CleanInv
  BY <1>2, <1>3 DEF CleanInv
<1>5. ack = Nil /\ \A o \in Requests : op[o].kind = "none" /\ op[o].at = "idle"
  BY NoOpFacts DEF Init, Ops
<1>6. AckInv
  BY <1>2, <1>3, <1>5 DEF AckInv, AckedInv, DirInv, OneChanges, Changes, SetOK
<1> QED BY <1>4, <1>5, <1>6 DEF SecretsInv

\* Every step keeps what was answered.
LEMMA SecretsStep ==
  ASSUME BaseInv, SecretsInv, Keeps(env), [Next]_vars
  PROVE  SecretsInv'
<1>0. BaseInv' /\ CleanInv' /\ env' = env /\ CleanInv
  BY BaseStep, CleanStep, EnvKept DEF SecretsInv
<1>1. CASE "set" \notin env.kinds
  <2>1. ack = Nil /\ \A o \in Requests : op[o].kind # "set"
    <3>1. \A o \in Requests : OpOK(o, op[o])
      BY DEF BaseInv, Ops
    <3>2. \A o \in Requests : op[o].kind # "set"
      <4> SUFFICES ASSUME NEW o \in Requests PROVE op[o].kind # "set"
        OBVIOUS
      <4>1. OpOK(o, op[o])
        BY <3>1
      <4> QED BY <1>1, <4>1 DEF OpOK
    <3> QED BY <1>1, <3>2 DEF SecretsInv
  <2>2. ack' = Nil
    <3>1. CASE BundleStep
      BY <2>1, <3>1, BundleFrame
    <3>2. ASSUME NEW o \in Requests, ApplyStep(o) \/ LoginStep(o) PROVE ack' = Nil
      BY <2>1, <3>2, ApplyFrame, LoginFrame
    <3>3. ASSUME NEW o \in Requests, SetStep(o) PROVE ack' = Nil
      BY <2>1, <3>3 DEF SetStep, SetSecrets, SetDeployKey, EnsureAppDir, SyncBase, SetWrite,
         SetRename, SetSync, RemoveSecret, Clear, ClearStep
    <3>4. CASE Crash \/ PowerLoss \/ UNCHANGED vars
      BY <2>1, <3>4 DEF Crash, PowerLoss, Restart, vars
    <3> QED BY <3>1, <3>2, <3>3, <3>4, NextSteps
  <2> QED BY <1>0, <1>1, <2>2 DEF SecretsInv
<1>2. CASE "set" \in env.kinds
  <2>0. AckInv /\ "key" \notin env.kinds
    BY <1>2 DEF SecretsInv, Keeps
  <2>1. CASE BundleStep
    <3>1. \A d \in AppDirs : d \notin BundleDirs
      BY OwnNames DEF BundleDirs, AppDirs, FixedNames
    <3>2. UNCHANGED <<env, ack>> /\ Alone("svc") /\ Within(BundleDirs, fs, fs')
      BY <2>1, BundleFrame
    <3>3. \A p \in Paths : p[1] \in AppDirs => Same(fs, fs', p)
      BY <3>1, <3>2 DEF Within
    <3>4. \A q \in Requests : op'[q] = op[q]
      BY <3>2, OwnNames DEF Alone, Ops
    <3>5. AckInv'
      BY <1>0, <2>0, <3>2, <3>3, <3>4, AckKept
    <3> QED BY <1>0, <1>2, <3>5 DEF SecretsInv
  <2>2. ASSUME NEW o \in Requests, ApplyStep(o) \/ LoginStep(o) PROVE AckInv'
    <3>1. UNCHANGED <<env, ack>> /\ Alone(o) /\ (Within({"apps"}, fs, fs') \/ Within({"reg"}, fs, fs'))
      BY <2>2, ApplyFrame, LoginFrame
    <3>2. \A p \in Paths : p[1] \in AppDirs => Same(fs, fs', p)
      BY <3>1 DEF Within, AppDirs
    <3>3. ~Changes(op[o]) /\ ~Changes(op'[o])
      BY <2>2, StepKinds, ApplyKinds DEF Changes
    <3>4. \A q \in Requests : op'[q] = op[q] \/ (~Changes(op[q]) /\ ~Changes(op'[q]))
      BY <3>1, <3>3 DEF Alone, Ops
    <3> QED BY <1>0, <2>0, <3>1, <3>2, <3>4, AckKept
  <2>3. CASE UNCHANGED vars
    <3>1. UNCHANGED <<fs, env, op, ack>>
      BY <2>3 DEF vars
    <3>2. AckInv'
      BY <1>0, <2>0, <3>1, AckKept DEF Same
    <3> QED BY <1>0, <1>2, <3>2 DEF SecretsInv
  <2>4. CASE Crash \/ PowerLoss
    BY <1>0, <1>2, <2>0, <2>4, AckRestart DEF SecretsInv
  <2>5. ASSUME NEW o \in Requests, SetStep(o) PROVE AckInv'
    BY <1>2, <2>0, <2>5, AckSet
  <2> QED BY <1>0, <1>2, <2>1, <2>2, <2>3, <2>4, <2>5, NextSteps DEF SecretsInv
<1> QED BY <1>1, <1>2

\* A secret whose set was answered survives a power failure, whole, until it is
\* replaced or removed, and no reader meets part of a value, whatever the requests
\* under the lock do, where no sync of a new namespace was left undone.
THEOREM SecretsSurvive ==
  ASSUME \A e \in Scenarios : Keeps(e)
  PROVE  Spec => []AckedSurvives
<1>1. Init => SecretsInv /\ Keeps(env)
  BY SecretsInit DEF Init
<1>2. BaseInv /\ SecretsInv /\ Keeps(env) /\ [Next]_vars => SecretsInv' /\ Keeps(env)'
  <2> SUFFICES ASSUME BaseInv, SecretsInv, Keeps(env), [Next]_vars
               PROVE  SecretsInv' /\ Keeps(env)'
    OBVIOUS
  <2>1. env' = env
    BY EnvKept
  <2> QED BY <2>1, SecretsStep DEF Keeps
<1>3. SecretsInv => AckedSurvives
  <2>1. Key \in Paths /\ Key[1] \in AppDirs
    BY PathNames, PathParts DEF AppDirs
  <2> QED BY <2>1, Namespace DEF SecretsInv, CleanInv, AckInv, AckedInv, AckedSurvives
<1> QED BY <1>1, <1>2, <1>3, BaseInvariant, PTL DEF Spec

-----------------------------------------------------------------------------
(* A login that was answered is the credential that pulls use.             *)

\* A serial operator has one operation at a time.
OneOp == \A o \in Ops, p \in Ops : op[o].kind # "none" /\ op[p].kind # "none" => o = p

\* A step of o; the name of the service controller is "svc".
StepOf(o) ==
  \/ o = "svc" /\ BundleStep
  \/ o \in Requests /\ (SetStep(o) \/ ApplyStep(o) \/ LoginStep(o))

\* It is that of the operation in flight, or of the only one that starts.
LEMMA SoloStep ==
  ASSUME BaseInv, env.serial, OneOp, NEW o \in Ops, StepOf(o)
  PROVE  Alone(o) /\ OneOp' /\ \A p \in Ops : p # o => op[p].kind = "none" /\ op'[p] = op[p]
<1>1. Alone(o)
  BY BundleFrame, SetFrame, ApplyFrame, LoginFrame DEF StepOf
<1>2. ASSUME op[o].kind = "none" PROVE \A p \in Ops : op[p].kind = "none"
  <2>1. op[o].at = "idle"
    BY <1>2, KindAt DEF AtOK
  <2>2. \E kind : Idle(o, kind)
    <3>1. CASE o = "svc" /\ BundleStep
      BY <1>2, <2>1, <3>1 DEF BundleStep, Generate, GenerateStep, Commit, RollbackStep, RollbackSync,
         Cleanup
    <3>2. CASE SetStep(o)
      BY <2>1, <3>2 DEF SetStep, SetSecrets, SetDeployKey, EnsureAppDir, SyncBase, SetWrite,
         SetRename, SetSync, RemoveSecret, Clear, ClearStep
    <3>3. CASE ApplyStep(o)
      BY <1>2, <2>1, <3>3 DEF ApplyStep, Apply, ApplyOpen, ApplyFill, ApplyRename, Publish, Disconnect
    <3>4. CASE LoginStep(o)
      BY <2>1, <3>4 DEF LoginStep, Login, Logout, RegistryPassword, ReadIndex, OpenIndex, FillIndex,
         RenameIndex
    <3> QED BY <3>1, <3>2, <3>3, <3>4 DEF StepOf
  <2> QED BY <2>2 DEF Idle
<1>3. \A p \in Ops : p # o => op[p].kind = "none"
  BY <1>2 DEF OneOp
<1>4. \A p \in Ops : p # o => op'[p] = op[p]
  BY <1>1 DEF Alone
<1>5. OneOp'
  BY <1>3, <1>4 DEF OneOp
<1> QED BY <1>1, <1>3, <1>4, <1>5

\* What was answered is stored and indexed; the operation in hand carries it on.
Logged(h) ==
  logins[h] # Nil => fs.mem[RegistryKey(h)] = logins[h] /\ h \in Index(fs.mem)

Indexing == {"openindex", "fillindex", "renameindex"}

LoginOK(q) ==
  q.kind \in {"login", "logout"} =>
    /\ logins[q.host] = Nil
    /\ q.kind = "login" /\ q.at # "password" => fs.mem[RegistryKey(q.host)] = q.val
    /\ q.at \in Indexing => /\ q.index \in SUBSET Hosts
                            /\ q.kind = "login" => q.host \in q.index
                            /\ \A h \in Hosts : logins[h] # Nil => h \in q.index
    /\ q.at = "fillindex" => fs.mem[RegistryTemp] = Torn
    /\ q.at = "renameindex" => fs.mem[RegistryTemp] = q.index

StoreInv ==
  /\ logins = [h \in Hosts |-> logins[h]]
  /\ fs.mem[RegistryIndex] \in {Nil, Torn} \cup SUBSET Hosts
  /\ \A h \in Hosts : Logged(h)

LoginInv == OneOp /\ StoreInv /\ \A o \in Requests : LoginOK(op[o])

\* A step of o.
LEMMA LoginMoves ==
  ASSUME BaseInv, LoginInv, env.serial, NEW o \in Ops, StepOf(o), StoreInv',
         o \in Requests => LoginOK(op[o])'
  PROVE  LoginInv'
<1>1. OneOp' /\ \A p \in Ops : p # o => op[p].kind = "none" /\ op'[p] = op[p]
  BY SoloStep DEF LoginInv
<1>2. ASSUME NEW p \in Requests, p # o PROVE LoginOK(op[p])'
  <2>1. op'[p].kind = "none"
    BY <1>1, <1>2 DEF Ops
  <2> QED BY <2>1 DEF LoginOK
<1> QED BY <1>1, <1>2 DEF LoginInv

\* Steps that leave the registries alone.
LEMMA LoginKept ==
  ASSUME BaseInv, LoginInv, logins' = logins, \A p \in Paths : p[1] = "reg" => Same(fs, fs', p)
  PROVE  StoreInv'
<1>1. /\ fs'.mem[RegistryIndex] = fs.mem[RegistryIndex]
      /\ \A h \in Hosts : fs'.mem[RegistryKey(h)] = fs.mem[RegistryKey(h)]
  BY PathNames, PathParts DEF Same
<1>2. Index(fs.mem)' = Index(fs.mem)
  BY <1>1 DEF Index
<1> QED BY <1>1, <1>2 DEF LoginInv, StoreInv, Logged

\* The paths of the registries are apart.
LEMMA RegistryPaths ==
  /\ RegistryIndex \in Paths /\ RegistryTemp \in Paths /\ RegistryTemp # RegistryIndex
  /\ \A h \in Hosts : /\ RegistryKey(h) \in Paths
                      /\ RegistryKey(h) # RegistryIndex /\ RegistryKey(h) # RegistryTemp
                      /\ \A k \in Hosts : k # h => RegistryKey(k) # RegistryKey(h)
<1>1. \A h \in Hosts : h # "index" /\ h # "indextmp"
  BY OwnNames DEF FixedNames
<1> QED BY <1>1, PathNames, PathParts

\* The index a set of hosts is read back as.
LEMMA IndexIs ==
  ASSUME NEW m, m[RegistryIndex] \in {Nil, Torn} \cup SUBSET Hosts
  PROVE  /\ Index(m) \in SUBSET Hosts
         /\ m[RegistryIndex] \in SUBSET Hosts => Index(m) = m[RegistryIndex]
BY FilesAssumption DEF Index

\* The steps of a login or logout.
LEMMA LoginAdvances ==
  ASSUME BaseInv, LoginInv, env.serial, NEW o \in Requests, LoginStep(o)
  PROVE  LoginInv'
<1>0. /\ o \in Ops /\ StepOf(o) /\ IsFs(fs) /\ OpOK(o, op[o]) /\ StoreInv /\ LoginOK(op[o])
      /\ Nil # Torn /\ \A h \in Hosts : Logged(h)
  BY OwnNames DEF Ops, StepOf, BaseInv, LoginInv, StoreInv
<1>1. ASSUME StoreInv', LoginOK(op[o])' PROVE LoginInv'
  BY <1>0, <1>1, LoginMoves
<1>2. ASSUME logins' = logins, fs'.mem[RegistryIndex] = fs.mem[RegistryIndex],
             \A h \in Hosts : logins[h] # Nil => fs'.mem[RegistryKey(h)] = fs.mem[RegistryKey(h)]
      PROVE  StoreInv'
  <2>1. Index(fs.mem)' = Index(fs.mem)
    BY <1>2 DEF Index
  <2> QED BY <1>0, <1>2, <2>1 DEF StoreInv, Logged
<1>3. ASSUME Ends(o, fs), logins' = logins PROVE LoginInv'
  <2>1. fs' = fs /\ op'[o].kind = "none"
    BY <1>0, <1>3, EndsSo, NoOpFacts
  <2>2. StoreInv'
    BY <1>2, <1>3, <2>1
  <2> QED BY <1>1, <2>1, <2>2 DEF LoginOK
<1>4. CASE op[o].kind = "none"
  <2> DEFINE q == op'[o]
  <2>1. /\ q.at = "password" /\ q.host \in Hosts /\ fs' = fs
        /\ logins' = [logins EXCEPT ![q.host] = Nil]
    BY <1>4, LoginBegins
  <2>2. /\ logins' = [h \in Hosts |-> logins'[h]] /\ logins'[q.host] = Nil
        /\ \A h \in Hosts : logins'[h] # Nil => logins'[h] = logins[h]
    BY <1>0, <2>1 DEF StoreInv
  <2>3. StoreInv'
    BY <1>0, <2>1, <2>2 DEF StoreInv, Logged
  <2>4. LoginOK(op[o])'
    BY <2>1, <2>2 DEF LoginOK, Indexing
  <2> QED BY <1>1, <2>3, <2>4
<1>5. ASSUME op[o].kind # "none"
      PROVE  /\ op[o].kind \in {"login", "logout"} /\ op[o].host \in Hosts /\ logins[op[o].host] = Nil
             /\ RegistryPassword(o) \/ ReadIndex(o) \/ OpenIndex(o) \/ FillIndex(o) \/ RenameIndex(o)
  <2>1. op[o].kind \in {"login", "logout"}
    BY <1>5, StepKinds
  <2>2. op[o].host \in Hosts
    BY <1>0, <2>1 DEF OpOK
  <2>3. logins[op[o].host] = Nil
    BY <1>0, <2>1 DEF LoginOK
  <2> QED BY <1>5, <2>1, <2>2, <2>3 DEF LoginStep, Login, Logout, Idle
<1>6. SUFFICES ASSUME op[o].kind # "none" PROVE LoginInv'
  BY <1>4
<1>7. PICK k, h, v : k = op[o].kind /\ h = op[o].host /\ v = op[o].val
  OBVIOUS
<1>8. /\ k \in {"login", "logout"} /\ h \in Hosts /\ logins[h] = Nil
      /\ RegistryKey(h) \in Paths /\ RegistryKey(h) # RegistryIndex /\ RegistryKey(h) # RegistryTemp
      /\ \A x \in Hosts : x # h => RegistryKey(x) # RegistryKey(h)
      /\ k = "login" => v \in Values
      /\ k = "logout" => v = Nil
  <2>1. k \in {"login", "logout"} /\ h \in Hosts /\ logins[h] = Nil
    BY <1>5, <1>6, <1>7
  <2>2. (k = "login" => v \in Values) /\ (k = "logout" => v = Nil)
    BY <1>0, <1>7, <2>1 DEF OpOK
  <2> QED BY <2>1, <2>2, RegistryPaths
<1>9. CASE RegistryPassword(o)
  <2>0. op[o].at = "password" /\ logins' = logins
    BY <1>9 DEF RegistryPassword
  <2>1. ASSUME NEW f, f.mem[RegistryIndex] = fs.mem[RegistryIndex],
               \A x \in Hosts : x # h => f.mem[RegistryKey(x)] = fs.mem[RegistryKey(x)],
               k = "login" => f.mem[RegistryKey(h)] = v, Goes(o, f, "readindex")
        PROVE  LoginInv'
    <3>1. fs' = f /\ On(o, "readindex")
      BY <1>0, <2>1, GoesOn
    <3>2. op'[o].at = "readindex" /\ op'[o].kind = k /\ op'[o].host = h /\ op'[o].val = v
      BY <1>7, <3>1 DEF On
    <3>3. StoreInv'
      BY <1>2, <1>8, <2>0, <2>1, <3>1
    <3>4. LoginOK(op[o])'
      BY <1>8, <2>0, <2>1, <3>1, <3>2 DEF LoginOK, Indexing
    <3> QED BY <1>1, <3>3, <3>4
  <2>2. CASE k = "login" /\ Goes(o, Synced(Wrote(fs, RegistryKey(h), v), "reg"), "readindex")
    <3>1. LET w == Wrote(fs, RegistryKey(h), v) IN
          /\ IsFs(w) /\ w.mem[RegistryKey(h)] = v
          /\ \A p \in Paths : p # RegistryKey(h) => w.mem[p] = fs.mem[p]
      BY ONLY <1>0, <1>8, WroteFs
    <3>2. Synced(Wrote(fs, RegistryKey(h), v), "reg").mem = Wrote(fs, RegistryKey(h), v).mem
      BY ONLY <3>1, SyncedFs
    <3> QED BY <1>8, <2>1, <2>2, <3>1, <3>2, RegistryPaths
  <2>3. CASE k = "logout" /\ Goes(o, Unlinked(fs, RegistryKey(h)), "readindex")
    <3>1. \A p \in Paths : p # RegistryKey(h) => Unlinked(fs, RegistryKey(h)).mem[p] = fs.mem[p]
      BY ONLY <1>0, <1>8, UnlinkedFs
    <3> QED BY <1>8, <2>1, <2>3, <3>1, RegistryPaths
  <2>4. CASE Ends(o, fs)
    BY <1>3, <2>0, <2>4
  <2> QED BY <1>7, <1>9, <2>2, <2>3, <2>4 DEF RegistryPassword
<1>10. CASE ReadIndex(o)
  <2>0. op[o].at = "readindex" /\ logins' = logins
    BY <1>10 DEF ReadIndex
  <2>1. CASE Ends(o, fs)
    BY <1>3, <2>0, <2>1
  <2>2. CASE /\ fs' = fs
             /\ op' = [op EXCEPT ![o].at = "openindex",
                                 ![o].index = IF op[o].kind = "login"
                                                THEN Index(fs.mem) \cup {op[o].host}
                                                ELSE Index(fs.mem) \ {op[o].host}]
    <3>1. PICK i : i = IF k = "login" THEN Index(fs.mem) \cup {h} ELSE Index(fs.mem) \ {h}
      OBVIOUS
    <3> DEFINE at == "openindex"
    <3>2. op' = [op EXCEPT ![o].at = at, ![o].index = i]
      BY <1>7, <2>2, <3>1
    <3> HIDE DEF at
    <3>3. /\ op'[o].at = at /\ op'[o].index = i /\ op'[o].kind = k /\ op'[o].val = v /\ op'[o].host = h
      <4>1. BaseInv /\ o \in Ops
        BY <1>0
      <4>2. LET q == op'[o] IN
            /\ Alone(o) /\ q = [f \in OpFields |-> q[f]] /\ q.at = at /\ q.index = i
            /\ q.kind = op[o].kind /\ q.val = op[o].val /\ q.orphan = op[o].orphan
            /\ q.host = op[o].host
        BY <3>2, <4>1, ReadIndexOp, Zenon
      <4> QED BY <1>7, <4>2
    <3>4. Index(fs.mem) \in SUBSET Hosts
      BY <1>0, IndexIs DEF StoreInv
    <3>5. /\ i \in SUBSET Hosts /\ (k = "login" => h \in i)
          /\ \A x \in Hosts : logins[x] # Nil => x \in i
      BY <1>0, <1>8, <3>1, <3>4 DEF Logged
    <3>6. StoreInv'
      BY <1>2, <2>0, <2>2
    <3>7. k = "login" => fs.mem[RegistryKey(h)] = v
      BY <1>0, <1>7, <2>0 DEF LoginOK
    <3>8. LoginOK(op[o])'
      BY <1>8, <2>0, <2>2, <3>3, <3>5, <3>7 DEF LoginOK, at
    <3> QED BY <1>1, <3>6, <3>8
  <2> QED BY <1>10, <2>1, <2>2 DEF ReadIndex
<1>11. ASSUME op[o].at \in Indexing
       PROVE  /\ k = "login" => fs.mem[RegistryKey(h)] = v
              /\ op[o].index \in SUBSET Hosts /\ (k = "login" => h \in op[o].index)
              /\ \A x \in Hosts : logins[x] # Nil => x \in op[o].index
              /\ op[o].at = "fillindex" => fs.mem[RegistryTemp] = Torn
              /\ op[o].at = "renameindex" => fs.mem[RegistryTemp] = op[o].index
  <2>1. op[o].at # "password"
    BY <1>11 DEF Indexing
  <2> QED BY <1>0, <1>7, <1>8, <1>11, <2>1 DEF LoginOK
\* A write to the temp of the index.
<1>12. ASSUME op[o].at \in Indexing, logins' = logins, NEW x, NEW next,
              Goes(o, WroteSoft(fs, RegistryTemp, x), next), next \in Indexing,
              next = "fillindex" => x = Torn, next = "renameindex" => x = op[o].index
       PROVE  LoginInv'
  <2>1. fs' = WroteSoft(fs, RegistryTemp, x) /\ On(o, next)
    BY <1>0, <1>12, GoesOn
  <2>2. /\ op'[o].at = next /\ op'[o].kind = k /\ op'[o].host = h /\ op'[o].val = v
        /\ op'[o].index = op[o].index
    BY <1>7, <2>1 DEF On
  <2>3. LET g == WroteSoft(fs, RegistryTemp, x) IN
        g.mem[RegistryTemp] = x /\ \A p \in Paths : p # RegistryTemp => g.mem[p] = fs.mem[p]
    BY ONLY <1>0, RegistryPaths, WroteSoftFs
  <2>4. /\ fs'.mem[RegistryTemp] = x /\ fs'.mem[RegistryIndex] = fs.mem[RegistryIndex]
        /\ \A y \in Hosts : fs'.mem[RegistryKey(y)] = fs.mem[RegistryKey(y)]
    BY <2>1, <2>3, RegistryPaths
  <2>5. StoreInv'
    BY <1>2, <1>12, <2>4
  <2>6. LoginOK(op[o])'
    BY <1>8, <1>11, <1>12, <2>2, <2>4 DEF LoginOK
  <2> QED BY <1>1, <2>5, <2>6
<1>13. CASE OpenIndex(o)
  <2>1. op[o].at = "openindex" /\ logins' = logins /\ op[o].at \in Indexing
    BY <1>13 DEF OpenIndex, Indexing
  <2>2. CASE Goes(o, WroteSoft(fs, RegistryTemp, Torn), "fillindex")
    BY <1>12, <2>1, <2>2 DEF Indexing
  <2> QED BY <1>3, <1>13, <2>1, <2>2 DEF OpenIndex
<1>14. CASE FillIndex(o)
  <2>1. op[o].at = "fillindex" /\ logins' = logins /\ op[o].at \in Indexing
    BY <1>14 DEF FillIndex, Indexing
  <2>2. fs.mem[RegistryTemp] # Nil
    BY <1>0, <1>11, <2>1
  <2>3. CASE Goes(o, WroteSoft(fs, RegistryTemp, op[o].index), "renameindex")
    BY <1>12, <2>1, <2>3 DEF Indexing
  <2> QED BY <1>3, <1>14, <2>1, <2>2, <2>3 DEF FillIndex
<1>15. CASE RenameIndex(o)
  <2>1. op[o].at = "renameindex" /\ op[o].at \in Indexing
    BY <1>15 DEF RenameIndex, Indexing
  <2>2. CASE /\ Ends(o, Renamed(fs, RegistryTemp, RegistryIndex))
             /\ logins' = [logins EXCEPT ![op[o].host] = op[o].val]
    <3>1. fs' = Renamed(fs, RegistryTemp, RegistryIndex) /\ op'[o].kind = "none"
      BY <1>0, <2>2, EndsSo, NoOpFacts
    <3>2. LET g == Renamed(fs, RegistryTemp, RegistryIndex) IN
          /\ g.mem[RegistryIndex] = fs.mem[RegistryTemp]
          /\ \A p \in Paths : p # RegistryTemp /\ p # RegistryIndex => g.mem[p] = fs.mem[p]
      BY ONLY <1>0, RegistryPaths, RenamedFs
    <3>3. /\ fs'.mem[RegistryIndex] = op[o].index
          /\ \A y \in Hosts : fs'.mem[RegistryKey(y)] = fs.mem[RegistryKey(y)]
      BY <1>11, <2>1, <3>1, <3>2, RegistryPaths
    <3>4. /\ logins' = [x \in Hosts |-> logins'[x]] /\ logins'[h] = v
          /\ \A x \in Hosts : x # h => logins'[x] = logins[x]
      BY <1>0, <1>7, <1>8, <2>2 DEF StoreInv
    <3>5. op[o].index \in SUBSET Hosts
      BY <1>11, <2>1
    <3>6. Index(fs.mem)' = op[o].index
      BY <3>3, <3>5, FilesAssumption DEF Index
    <3>7. ASSUME NEW x \in Hosts PROVE Logged(x)'
      <4>1. CASE x = h
        BY <1>8, <1>11, <2>1, <3>3, <3>4, <3>6, <4>1 DEF Logged
      <4>2. CASE x # h
        BY <1>0, <1>11, <2>1, <3>3, <3>4, <3>6, <4>2 DEF Logged
      <4> QED BY <4>1, <4>2
    <3>8. StoreInv'
      BY <3>3, <3>4, <3>5, <3>7 DEF StoreInv
    <3> QED BY <1>1, <3>1, <3>8 DEF LoginOK
  <2>3. CASE Ends(o, fs) /\ logins' = logins
    BY <1>3, <2>3
  <2> QED BY <1>15, <2>2, <2>3 DEF RenameIndex
<1> QED BY <1>5, <1>6, <1>9, <1>10, <1>13, <1>14, <1>15

\* Every step keeps it, but a power failure, which may cut the index short.
LEMMA LoginNext ==
  ASSUME BaseInv, LoginInv, env.serial, "power" \notin env.events, [Next]_vars
  PROVE  LoginInv'
<1>0. BaseInv'
  BY BaseStep
<1>1. CASE BundleStep
  <2>1. logins' = logins /\ Within(BundleDirs, fs, fs') /\ "reg" \notin BundleDirs /\ StepOf("svc")
    BY <1>1, BundleFrame, OwnNames DEF BundleDirs, FixedNames, StepOf
  <2>2. StoreInv'
    BY <2>1, LoginKept DEF Within
  <2>3. "svc" \in Ops /\ "svc" \notin Requests
    BY OwnNames DEF Ops
  <2> QED BY <2>1, <2>2, <2>3, LoginMoves
<1>2. ASSUME NEW o \in Requests, SetStep(o) \/ ApplyStep(o) PROVE LoginInv'
  <2>1. logins' = logins /\ (Within(AppDirs, fs, fs') \/ Within({"apps"}, fs, fs'))
    BY <1>2, SetFrame, ApplyFrame
  <2>2. StoreInv'
    BY <2>1, LoginKept DEF Within, AppDirs
  <2>3. op'[o].kind \notin {"login", "logout"}
    BY <1>2, StepKinds, ApplyKinds
  <2>4. LoginOK(op[o])'
    BY <2>3 DEF LoginOK
  <2> QED BY <1>2, <2>2, <2>4, LoginMoves DEF StepOf, Ops
<1>3. ASSUME NEW o \in Requests, LoginStep(o) PROVE LoginInv'
  BY <1>3, LoginAdvances
<1>4. CASE Crash
  <2>1. fs' = fs /\ logins' = logins /\ \A o \in Ops : op'[o].kind = "none"
    BY <1>4, RestartFrame, NoOpFacts DEF Crash, BaseInv
  <2>2. StoreInv'
    BY <2>1, LoginKept DEF Same
  <2> QED BY <2>1, <2>2 DEF LoginInv, OneOp, LoginOK, Ops
<1>5. CASE UNCHANGED vars
  BY <1>5 DEF vars, LoginInv, OneOp, StoreInv, Logged, Index, LoginOK
<1>6. ~PowerLoss
  BY DEF PowerLoss
<1> QED BY <1>1, <1>2, <1>3, <1>4, <1>5, <1>6, NextSteps

\* What a pull uses and the listing shows, of a host that is stored and indexed.
LEMMA StoredIsUsed ==
  ASSUME NEW img \in Images, StoreInv, logins[NormalizeImageRef(img)] # Nil
  PROVE  LET h == NormalizeImageRef(img) IN
         /\ PullCredential(img) = {logins[h]} /\ h \in Index(fs.mem)
         /\ ListRegistries(Index(fs.mem))[h] \in {"store", "toml+store"}
<1>1. PICK h : h = NormalizeImageRef(img)
  OBVIOUS
<1>2. h \in Hosts
  BY <1>1, FilesAssumption DEF Images, NormalizeImageRef
<1>3. fs.mem[RegistryKey(h)] = logins[h] /\ h \in Index(fs.mem) /\ logins[h] # Nil
  BY <1>1, <1>2 DEF StoreInv, Logged
<1> DEFINE pass == [x \in Hosts |-> fs.mem[RegistryKey(x)]]
           i == Index(fs.mem)
           table == MergedTable(i, pass, Nil)
<1>4. pass[h] = logins[h] /\ h \in StoreEntries(i, pass, Nil)
  BY <1>2, <1>3 DEF StoreEntries
<1>5. PullCredential(img) = {e.password : e \in {f \in table : f.url = h}}
  BY <1>1 DEF PullCredential, Resolve
<1> HIDE DEF pass, i
<1>6. \A f : f \in table /\ f.url = h <=> f = [url |-> h, password |-> pass[h]]
  BY <1>4 DEF MergedTable
<1>7. {f \in table : f.url = h} = {[url |-> h, password |-> pass[h]]}
  BY <1>6
<1>8. PullCredential(img) = {logins[h]}
  <2> DEFINE r == [url |-> h, password |-> pass[h]]
  <2>1. r.password = logins[h]
    BY <1>4
  <2>2. {f \in table : f.url = h} = {r}
    BY <1>7
  <2> HIDE DEF r, table
  <2>3. {e.password : e \in {r}} = {r.password}
    OBVIOUS
  <2> QED BY <1>5, <2>1, <2>2, <2>3
<1>9. ListRegistries(Index(fs.mem))[h] \in {"store", "toml+store"}
  BY <1>3 DEF ListRegistries
<1> QED BY <1>1, <1>3, <1>8, <1>9

\* At the start no login was answered.
LEMMA LoginInit == Init => LoginInv
<1> SUFFICES ASSUME Init PROVE LoginInv
  OBVIOUS
<1>1. fs.mem[RegistryIndex] = Nil
  <2> DEFINE m == [p \in Paths |-> IF (p = AppDir /\ env.namespace) \/ p = Config
                                  THEN CHOOSE v \in Values : TRUE ELSE Nil]
  <2>1. fs = [mem |-> m, disk |-> m, soft |-> {}]
    BY DEF Init
  <2>2. RegistryIndex # AppDir /\ RegistryIndex # Config /\ RegistryIndex \in Paths
    BY PathNames, PathParts
  <2>3. m[RegistryIndex] = Nil
    BY <2>2
  <2> HIDE DEF m
  <2> QED BY <2>1, <2>3
<1>2. logins = [h \in Hosts |-> logins[h]] /\ \A h \in Hosts : logins[h] = Nil
  BY DEF Init
<1>3. \A o \in Ops : op[o].kind = "none"
  BY NoOpFacts DEF Init
<1> QED BY <1>1, <1>2, <1>3 DEF LoginInv, OneOp, StoreInv, Logged, LoginOK, Ops

\* A registry login that was answered is the credential the next pull of an image of
\* that host uses, and the listing shows it, whatever else was logged in or out, failed
\* or died since, for an operator who waits for each answer, until power fails.
THEOREM LoginsStick ==
  ASSUME \A e \in Scenarios : e.serial => "power" \notin e.events
  PROVE  Spec => []LoginSticks
<1> DEFINE Inv == env.serial => LoginInv
<1>1. Init => Inv
  BY LoginInit
<1>2. BaseInv /\ Inv /\ [Next]_vars => Inv'
  <2> SUFFICES ASSUME BaseInv, Inv, [Next]_vars, env.serial' PROVE LoginInv'
    OBVIOUS
  <2>1. env' = env
    BY EnvKept
  <2>2. env.serial /\ "power" \notin env.events
    BY <2>1 DEF BaseInv
  <2> QED BY <2>2, LoginNext
<1>3. Inv => LoginSticks
  <2> SUFFICES ASSUME LoginInv, NEW img \in Images, logins[NormalizeImageRef(img)] # Nil
               PROVE  LET h == NormalizeImageRef(img) IN
                      /\ PullCredential(img) = {logins[h]} /\ h \in Index(fs.mem)
                      /\ ListRegistries(Index(fs.mem))[h] \in {"store", "toml+store"}
    BY DEF LoginSticks
  <2> QED BY StoredIsUsed DEF LoginInv
<1> QED BY <1>1, <1>2, <1>3, BaseInvariant, PTL DEF Spec
================================================================================
