-------------------------------- MODULE Files --------------------------------
(***************************************************************************)
(* The files slipd owns whose loss a restart cannot repair: the secret     *)
(* bundle of a service instance, the secrets of an app, the config file of *)
(* the app and the registry credentials.  One step per system call; slipd  *)
(* may die and power may fail between any two of them.                     *)
(***************************************************************************)
EXTENDS Disk, Registry

CONSTANTS
  Gens,       \* generation names, drawn at random and never twice
  Values,     \* values of a secret, versions of a config
  Requests,   \* slots for API requests
  Scenarios   \* what may happen in each of the instances that are explored

Kinds == {"generate", "cleanup", "set", "key", "remove", "clear", "apply", "login", "logout"}
Events == {"crash", "power", "disconnect"}

\* The names of directories and files that are the same on every host.
FixedNames == {"inst", "active", "tmp", "base", "app", "key", "apps", "cfg", "cfgtmp",
               "reg", "index", "indextmp", "raw", "pgpass"}

ASSUME FilesAssumption ==
  /\ "svc" \notin Requests /\ IsFiniteSet(Gens)
  /\ \A e \in Scenarios : /\ e.kinds \subseteq Kinds /\ e.events \subseteq Events
                          /\ e.fails \in BOOLEAN /\ e.namespace \in BOOLEAN
                          /\ e.serial \in BOOLEAN
  /\ DockerHub \in Hosts /\ DOMAIN Tokens \subseteq Hosts
  /\ Nil # Torn /\ {Nil, Torn} \cap (Gens \cup Values) = {} /\ Values # {}
  /\ \A S \in SUBSET Hosts : S # Nil /\ S # Torn
  /\ FixedNames \cap (Gens \cup Requests \cup Hosts) = {}
  /\ Paths = {<<"inst", "active">>, <<"inst", "tmp">>, <<"base", "app">>, <<"app", "key">>,
              <<"apps", "cfg">>, <<"apps", "cfgtmp">>, <<"reg", "index">>, <<"reg", "indextmp">>}
             \cup {<<"reg", h>> : h \in Hosts}
             \cup {<<"inst", g>> : g \in Gens} \cup {<<"app", r>> : r \in Requests}
             \cup UNION {{<<g, "raw">>, <<g, "pgpass">>} : g \in Gens}

VARIABLES
  env,     \* the scenario of this behaviour
  op,      \* per slot: the operation in flight
  used,    \* generation names drawn so far
  live,    \* the config version in the apps map
  ack,     \* history: the secret whose set was answered last, until it is replaced
  logins   \* history: per registry, the credential whose login was answered last

vars == <<fs, env, op, used, live, ack, logins>>

Ops == Requests \cup {"svc"}

\* The paths.
Active == <<"inst", "active">>
PointerTemp == <<"inst", "tmp">>
GenDir(g) == <<"inst", g>>
Raw(g) == <<g, "raw">>
Pgpass(g) == <<g, "pgpass">>
AppDir == <<"base", "app">>
Key == <<"app", "key">>
SetTemp(o) == <<"app", o>>
Config == <<"apps", "cfg">>
ConfigTemp == <<"apps", "cfgtmp">>
RegistryKey(h) == <<"reg", h>>
RegistryIndex == <<"reg", "index">>
RegistryTemp == <<"reg", "indextmp">>

\* val: the generation, the secret or the config version that is written.
\* temp: the pointer temp is recorded as created.  orphan: the handler is gone,
\* the blocking write goes on.  host, index: the registry, and the index to write.
NoOp == [kind |-> "none", at |-> "idle", val |-> Nil, temp |-> FALSE, orphan |-> FALSE,
         host |-> Nil, index |-> {}]

Steps == {"idle", "mkdir", "mkdirsync", "raw", "pgpass", "gensync", "tmp", "tmpsync",
          "rename", "activesync", "rb_tmp", "rb_raw", "rb_pgpass", "rb_dir", "rb_sync",
          "check", "dir", "basesync", "write", "setrename", "setsync", "unlink", "rmdir",
          "open", "fill", "cfgrename", "publish",
          "password", "readindex", "openindex", "fillindex", "renameindex"}

Init ==
  /\ env \in Scenarios
  /\ fs = LET m == [p \in Paths |->
                      IF (p = AppDir /\ env.namespace) \/ p = Config
                      THEN CHOOSE v \in Values : TRUE ELSE Nil]
          IN [mem |-> m, disk |-> m, soft |-> {}]
  /\ op = [o \in Ops |-> NoOp]
  /\ used = {}
  /\ live = fs.mem[Config]
  /\ ack = Nil
  /\ logins = [h \in Hosts |-> Nil]

-----------------------------------------------------------------------------
(* Steps of an operation.                                                  *)

Begin(o, kind, at, v) ==
  op' = [op EXCEPT ![o] = [NoOp EXCEPT !.kind = kind, !.at = at, !.val = v]]

\* serial: an operator who waits for each answer.
Idle(o, kind) ==
  /\ op[o].kind = "none" /\ kind \in env.kinds
  /\ env.serial => \A p \in Ops : op[p].kind = "none"

\* One system call: the file system becomes f and o goes on at `at`.
Goes(o, f, at) ==
  /\ fs' = f
  /\ op' = [op EXCEPT ![o].at = at]

Ends(o, f) ==
  /\ fs' = f
  /\ op' = [op EXCEPT ![o] = NoOp]

\* A system call may fail.
Fails == env.fails

-----------------------------------------------------------------------------
(* The secret bundle.                                                      *)

\* generate, and rotate, which is the same: a new generation directory.
Generate ==
  /\ Idle("svc", "generate")
  /\ \E g \in Gens \ used :
       /\ used' = used \cup {g}
       /\ Begin("svc", "generate", "mkdir", g)
  /\ UNCHANGED <<fs, env, live, ack, logins>>

\* The step that follows each step of generate.
AfterStep(at) ==
  CASE at = "mkdir" -> "mkdirsync" [] at = "mkdirsync" -> "raw" [] at = "raw" -> "pgpass"
    [] at = "pgpass" -> "gensync" [] at = "gensync" -> "tmp" [] at = "tmp" -> "tmpsync"
    [] at = "tmpsync" -> "rename" [] at = "rename" -> "activesync"

\* Mutant of Effect: the generation directory is not synced.
EffectUnsynced(at, g) ==
  CASE at = "mkdir" -> Wrote(fs, GenDir(g), g)
    [] at \in {"mkdirsync", "tmpsync"} -> Synced(fs, "inst")
    [] at = "raw" -> Wrote(fs, Raw(g), g)
    [] at = "pgpass" -> Wrote(fs, Pgpass(g), g)
    [] at = "gensync" -> fs
    [] at = "tmp" -> Wrote(fs, PointerTemp, g)
    [] at = "rename" -> Renamed(fs, PointerTemp, Active)

\* What each step does to the file system.
Effect(at, g) ==
  CASE at = "mkdir" -> Wrote(fs, GenDir(g), g)
    [] at \in {"mkdirsync", "tmpsync"} -> Synced(fs, "inst")
    [] at = "raw" -> Wrote(fs, Raw(g), g)
    [] at = "pgpass" -> Wrote(fs, Pgpass(g), g)
    [] at = "gensync" -> Synced(fs, g)
    [] at = "tmp" -> Wrote(fs, PointerTemp, g)
    [] at = "rename" -> Renamed(fs, PointerTemp, Active)

\* A failed write may leave part of the file behind.
PartialEffect(at, g) ==
  CASE at = "raw" -> Wrote(fs, Raw(g), Torn)
    [] at = "pgpass" -> Wrote(fs, Pgpass(g), Torn)
    [] at = "tmp" -> Wrote(fs, PointerTemp, Torn)
    [] OTHER -> fs

\* Every step before the rename is undone if it fails; a pointer temp counts
\* as created only once its write has succeeded.
GenerateStep ==
  LET at == op["svc"].at g == op["svc"].val IN
  /\ op["svc"].kind = "generate"
  /\ at \in {"mkdir", "mkdirsync", "raw", "pgpass", "gensync", "tmp", "tmpsync", "rename"}
  /\ \/ /\ fs' = Effect(at, g)
        /\ op' = [op EXCEPT !["svc"].at = AfterStep(at),
                            !["svc"].temp = (at = "tmp" \/ (@ /\ at # "rename"))]
     \/ /\ Fails /\ at # "mkdir"
        /\ fs' \in {fs, PartialEffect(at, g)}
        /\ op' = [op EXCEPT !["svc"].at = IF op["svc"].temp THEN "rb_tmp" ELSE "rb_raw"]
     \/ Fails /\ at = "mkdir" /\ Ends("svc", fs)
  /\ UNCHANGED <<env, used, live, ack, logins>>

\* After the rename the generation may be active: nothing is undone, an error
\* of the last sync is reported as ambiguous.
Commit ==
  /\ op["svc"].at = "activesync"
  /\ \/ Ends("svc", Synced(fs, "inst"))
     \/ Fails /\ Ends("svc", fs)
  /\ UNCHANGED <<env, used, live, ack, logins>>

RollbackPath(at, g) ==
  CASE at = "rb_tmp" -> PointerTemp [] at = "rb_raw" -> Raw(g)
    [] at = "rb_pgpass" -> Pgpass(g) [] at = "rb_dir" -> GenDir(g)

AfterRollback(at) ==
  CASE at = "rb_tmp" -> "rb_raw" [] at = "rb_raw" -> "rb_pgpass"
    [] at = "rb_pgpass" -> "rb_dir" [] at = "rb_dir" -> "rb_sync"

\* rollback_cleanup, and cleanup_generation: known files, then the empty
\* directory, then a sync.  The rollback goes on after an error, a cleanup
\* stops.
RollbackStep ==
  LET at == op["svc"].at g == op["svc"].val p == RollbackPath(at, g) IN
  /\ at \in {"rb_tmp", "rb_raw", "rb_pgpass", "rb_dir"}
  /\ \/ /\ at # "rb_dir" \/ EmptyDir(fs.mem, g)
        /\ Goes("svc", Unlinked(fs, p), AfterRollback(at))
     \/ /\ Fails \/ (at = "rb_dir" /\ ~EmptyDir(fs.mem, g))
        /\ IF op["svc"].kind = "cleanup" THEN Ends("svc", fs)
           ELSE Goes("svc", fs, AfterRollback(at))
  /\ UNCHANGED <<env, used, live, ack, logins>>

RollbackSync ==
  /\ op["svc"].at = "rb_sync"
  /\ Ends("svc", Synced(fs, "inst")) \/ (Fails /\ Ends("svc", fs))
  /\ UNCHANGED <<env, used, live, ack, logins>>

\* cleanup_generation of a generation the pointer does not name.
Cleanup ==
  /\ Idle("svc", "cleanup") /\ fs.mem[Active] # Nil
  /\ \E g \in used \ {fs.mem[Active]} : Begin("svc", "cleanup", "rb_raw", g)
  /\ UNCHANGED <<fs, env, used, live, ack, logins>>

-----------------------------------------------------------------------------
(* The secrets of an app.                                                  *)

\* lock_app: the guard lives in the handler, so that of an orphan is dropped.
\* The handlers of deploy keys and registries take no lock.
AppFree ==
  \A o \in Requests : op[o].kind \in {"none", "key", "login", "logout"} \/ op[o].orphan

\* handle_set_secrets, and the credentials a service binding stores.
SetSecrets(o, v) ==
  /\ Idle(o, "set") /\ AppFree
  /\ Begin(o, "set", "dir", v)
  /\ UNCHANGED <<fs, env, used, live, ack, logins>>

\* handle_set_deploy_key without rotate: a key is made if there is none.
SetDeployKey(o, v) ==
  /\ Idle(o, "key") /\ fs.mem[Key] = Nil
  /\ Begin(o, "key", "dir", v)
  /\ UNCHANGED <<fs, env, used, live, ack, logins>>

\* Mutant of EnsureAppDir: the new namespace is not synced.
EnsureAppDirUnsynced(o) ==
  /\ op[o].at = "dir"
  /\ Goes(o, Wrote(fs, AppDir, op[o].val), "write")
  /\ UNCHANGED <<env, used, live, ack, logins>>

\* ensure_app_dir: the base directory is synced only by the call that creates
\* the namespace.
EnsureAppDir(o) ==
  /\ op[o].at = "dir"
  /\ IF IsDir(fs.mem, "app") THEN Goes(o, fs, "write")
     ELSE Goes(o, Wrote(fs, AppDir, op[o].val), "basesync")
  /\ UNCHANGED <<env, used, live, ack, logins>>

SyncBase(o) ==
  /\ op[o].at = "basesync"
  /\ Goes(o, Synced(fs, "base"), "write") \/ (Fails /\ Ends(o, fs))
  /\ UNCHANGED <<env, used, live, ack, logins>>

\* A temp file of its own, created exclusively, written and synced; an error
\* removes it.  The directory may be deleted meanwhile.
SetWrite(o) ==
  /\ op[o].at = "write"
  /\ \/ /\ IsDir(fs.mem, "app")
        /\ Goes(o, Wrote(fs, SetTemp(o), op[o].val), "setrename")
     \/ (Fails \/ ~IsDir(fs.mem, "app")) /\ Ends(o, fs)
  /\ UNCHANGED <<env, used, live, ack, logins>>

SetRename(o) ==
  /\ op[o].at = "setrename"
  /\ \/ /\ fs.mem[SetTemp(o)] # Nil
        /\ Goes(o, Renamed(fs, SetTemp(o), Key), "setsync")
        /\ ack' = Nil
     \/ /\ Fails \/ fs.mem[SetTemp(o)] = Nil
        /\ Ends(o, Unlinked(fs, SetTemp(o)))
        /\ UNCHANGED ack
  /\ UNCHANGED <<env, used, live, logins>>

\* The answer: a set that fails only here has replaced the value.
SetSync(o) ==
  /\ op[o].at = "setsync"
  /\ \/ /\ IsDir(fs.mem, "app")
        /\ Ends(o, Synced(fs, "app"))
        /\ ack' = IF op[o].kind = "set" THEN op[o].val ELSE ack
     \/ /\ Fails \/ ~IsDir(fs.mem, "app")
        /\ Ends(o, fs)
        /\ UNCHANGED ack
  /\ UNCHANGED <<env, used, live, logins>>

\* handle_remove_secret: the unlink is not synced.
RemoveSecret(o) ==
  /\ Idle(o, "remove") /\ AppFree /\ fs.mem[Key] # Nil
  /\ fs' = Unlinked(fs, Key)
  /\ ack' = Nil
  /\ UNCHANGED <<env, op, used, live, logins>>

\* remove_all: the files, then the directory.
Clear(o) ==
  /\ Idle(o, "clear") /\ AppFree /\ IsDir(fs.mem, "app")
  /\ Begin(o, "clear", "unlink", Nil)
  /\ ack' = Nil
  /\ UNCHANGED <<fs, env, used, live, logins>>

ClearStep(o) ==
  /\ \/ /\ op[o].at = "unlink"
        /\ \E p \in Paths : p[1] = "app" /\ fs.mem[p] # Nil /\ Goes(o, Unlinked(fs, p), "unlink")
     \/ /\ op[o].at = "unlink" /\ EmptyDir(fs.mem, "app")
        /\ Ends(o, Unlinked(fs, AppDir))
  /\ UNCHANGED <<env, used, live, ack, logins>>

-----------------------------------------------------------------------------
(* The config file of an app.                                              *)

\* The handlers that create or update an app, from the write on.
Apply(o, v) ==
  /\ Idle(o, "apply") /\ AppFree
  /\ Begin(o, "apply", "open", v)
  /\ UNCHANGED <<fs, env, used, live, ack, logins>>

\* Mutant of ApplyOpen: published before it is persisted.
ApplyOpenPublished(o) ==
  /\ op[o].at = "open"
  /\ live' = op[o].val
  /\ Goes(o, WroteSoft(fs, ConfigTemp, Torn), "fill") \/ (Fails /\ Ends(o, fs))
  /\ UNCHANGED <<env, used, ack, logins>>

\* fs::write opens and truncates, then writes, to a temp name all writers share.
ApplyOpen(o) ==
  /\ op[o].at = "open"
  /\ Goes(o, WroteSoft(fs, ConfigTemp, Torn), "fill") \/ (Fails /\ Ends(o, fs))
  /\ UNCHANGED <<env, used, live, ack, logins>>

\* The open file may have been renamed, or filled, by another writer.
ApplyFill(o) ==
  LET p == IF fs.mem[ConfigTemp] = Nil THEN Config ELSE ConfigTemp IN
  /\ op[o].at = "fill"
  /\ \/ \E v \in {op[o].val} \cup (IF fs.mem[p] # Torn THEN {Torn} ELSE {}) :
          Goes(o, WroteSoft(fs, p, v), "cfgrename")
     \/ Fails /\ Ends(o, fs)
  /\ UNCHANGED <<env, used, live, ack, logins>>

ApplyRename(o) ==
  /\ op[o].at = "cfgrename"
  /\ \/ /\ fs.mem[ConfigTemp] # Nil
        /\ IF op[o].orphan THEN Ends(o, Renamed(fs, ConfigTemp, Config))
           ELSE Goes(o, Renamed(fs, ConfigTemp, Config), "publish")
     \/ (Fails \/ fs.mem[ConfigTemp] = Nil) /\ Ends(o, fs)
  /\ UNCHANGED <<env, used, live, ack, logins>>

Publish(o) ==
  /\ op[o].at = "publish"
  /\ live' = op[o].val
  /\ Ends(o, fs)
  /\ UNCHANGED <<env, used, ack, logins>>

\* The client goes away: the handler is dropped, the blocking write is not.
Disconnect(o) ==
  /\ "disconnect" \in env.events /\ op[o].kind = "apply" /\ ~op[o].orphan
  /\ op' = [op EXCEPT ![o] = IF @.at = "publish" THEN NoOp ELSE [@ EXCEPT !.orphan = TRUE]]
  /\ UNCHANGED <<fs, env, used, live, ack, logins>>

-----------------------------------------------------------------------------
(* Registry credentials: a password file per registry and an index.        *)

\* The handlers take no lock.  The url was normalised, or refused.
Login(o, v) ==
  /\ Idle(o, "login")
  /\ \E u \in Urls : \E h \in NormalizeRegistryUrl(u) :
       /\ op' = [op EXCEPT ![o] = [NoOp EXCEPT !.kind = "login", !.at = "password",
                                              !.val = v, !.host = h]]
       /\ logins' = [logins EXCEPT ![h] = Nil]
  /\ UNCHANGED <<fs, env, used, live, ack>>

Logout(o) ==
  /\ Idle(o, "logout")
  /\ \E u \in Urls : \E h \in NormalizeRegistryUrl(u) :
       /\ op' = [op EXCEPT ![o] = [NoOp EXCEPT !.kind = "logout", !.at = "password", !.host = h]]
       /\ logins' = [logins EXCEPT ![h] = Nil]
  /\ UNCHANGED <<fs, env, used, live, ack>>

\* The password goes the way of every secret (SetWrite to SetSync, here in one
\* step), or is unlinked; a logout without one answers 404.
RegistryPassword(o) ==
  LET k == RegistryKey(op[o].host) IN
  /\ op[o].at = "password"
  /\ \/ op[o].kind = "login" /\ Goes(o, Synced(Wrote(fs, k, op[o].val), "reg"), "readindex")
     \/ op[o].kind = "logout" /\ fs.mem[k] # Nil /\ Goes(o, Unlinked(fs, k), "readindex")
     \/ (Fails \/ (op[o].kind = "logout" /\ fs.mem[k] = Nil)) /\ Ends(o, fs)
  /\ UNCHANGED <<env, used, live, ack, logins>>

\* read_registry_index: no file is an empty index.
Index(m) == IF m[RegistryIndex] \in {Nil, Torn} THEN {} ELSE m[RegistryIndex]

\* Mutant of ReadIndex: a login starts from an empty index.
ReadIndexFresh(o) ==
  /\ op[o].at = "readindex"
  /\ op' = [op EXCEPT ![o].at = "openindex",
                      ![o].index = IF op[o].kind = "login" THEN {op[o].host}
                                   ELSE Index(fs.mem) \ {op[o].host}]
  /\ UNCHANGED <<fs, env, used, live, ack, logins>>

\* An index that does not parse fails a login; a logout leaves it alone.
ReadIndex(o) ==
  /\ op[o].at = "readindex"
  /\ \/ /\ fs.mem[RegistryIndex] # Torn
        /\ op' = [op EXCEPT ![o].at = "openindex",
                            ![o].index = IF op[o].kind = "login"
                                           THEN Index(fs.mem) \cup {op[o].host}
                                           ELSE Index(fs.mem) \ {op[o].host}]
        /\ UNCHANGED fs
     \/ (Fails \/ fs.mem[RegistryIndex] = Torn) /\ Ends(o, fs)
  /\ UNCHANGED <<env, used, live, ack, logins>>

\* write_registry_index: fs::write to a temp name all writers share.
OpenIndex(o) ==
  /\ op[o].at = "openindex"
  /\ Goes(o, WroteSoft(fs, RegistryTemp, Torn), "fillindex") \/ (Fails /\ Ends(o, fs))
  /\ UNCHANGED <<env, used, live, ack, logins>>

\* The open file may have been renamed by another writer.
FillIndex(o) ==
  LET p == IF fs.mem[RegistryTemp] = Nil THEN RegistryIndex ELSE RegistryTemp IN
  /\ op[o].at = "fillindex"
  /\ \/ Goes(o, WroteSoft(fs, p, op[o].index), "renameindex")
     \/ Fails /\ Ends(o, fs)
  /\ UNCHANGED <<env, used, live, ack, logins>>

\* The rename and the answer.
RenameIndex(o) ==
  /\ op[o].at = "renameindex"
  /\ \/ /\ fs.mem[RegistryTemp] # Nil
        /\ Ends(o, Renamed(fs, RegistryTemp, RegistryIndex))
        /\ logins' = [logins EXCEPT ![op[o].host] = op[o].val]
     \/ /\ Fails \/ fs.mem[RegistryTemp] = Nil
        /\ Ends(o, fs)
        /\ UNCHANGED logins
  /\ UNCHANGED <<env, used, live, ack>>

\* The credential a deploy's pull of an image uses now.
PullCredential(img) ==
  Resolve(img, MergedTable(Index(fs.mem), [h \in Hosts |-> fs.mem[RegistryKey(h)]], Nil))

-----------------------------------------------------------------------------
(* slipd dies, or power fails, and slipd loads the config file again.      *)

Restart(f) ==
  /\ fs' = f
  /\ op' = [o \in Ops |-> NoOp]
  /\ live' = f.mem[Config]
  /\ UNCHANGED <<env, used, ack, logins>>

Crash == "crash" \in env.events /\ op # [o \in Ops |-> NoOp] /\ Restart(fs)

PowerLoss == "power" \in env.events /\ \E f \in AfterPowerLoss(fs) : Restart(f)

Next ==
  \/ Generate \/ GenerateStep \/ Commit \/ RollbackStep \/ RollbackSync \/ Cleanup
  \/ \E o \in Requests, v \in Values : SetSecrets(o, v) \/ SetDeployKey(o, v) \/ Apply(o, v)
                                    \/ Login(o, v)
  \/ \E o \in Requests :
       \/ EnsureAppDir(o) \/ SyncBase(o) \/ SetWrite(o) \/ SetRename(o) \/ SetSync(o)
       \/ RemoveSecret(o) \/ Clear(o) \/ ClearStep(o)
       \/ ApplyOpen(o) \/ ApplyFill(o) \/ ApplyRename(o) \/ Publish(o) \/ Disconnect(o)
       \/ Logout(o) \/ RegistryPassword(o) \/ ReadIndex(o)
       \/ OpenIndex(o) \/ FillIndex(o) \/ RenameIndex(o)
  \/ Crash \/ PowerLoss

Spec == Init /\ [][Next]_vars

-----------------------------------------------------------------------------
(* Properties.                                                             *)

\* The contents of files: a generation's are its name, a secret's its value.
Contents == {Nil, Torn} \cup Gens \cup Values \cup SUBSET Hosts

TypeOK ==
  /\ fs \in [mem : [Paths -> Contents], disk : [Paths -> Contents], soft : SUBSET Paths]
  /\ logins \in [Hosts -> Values \cup {Nil}]
  /\ env \in Scenarios
  /\ op \in [Ops -> [kind : Kinds \cup {"none"}, at : Steps, val : {Nil} \cup Gens \cup Values,
                     temp : BOOLEAN, orphan : BOOLEAN,
                     host : {Nil} \cup Hosts, index : SUBSET Hosts]]
  /\ used \subseteq Gens
  /\ live \in Values \cup {Torn} /\ ack \in Values \cup {Nil}

\* The password that the files m give a service: none without a pointer,
\* Torn if the pointer names a generation that is not all there.
Password(m) ==
  LET g == m[Active] IN
  IF g = Nil THEN Nil
  ELSE IF g \in Gens /\ m[GenDir(g)] = g /\ m[Raw(g)] = g /\ m[Pgpass(g)] = g THEN g ELSE Torn

\* What survives a power failure implements the register: at every step of
\* generate, of its rollback and of a cleanup, whatever fails, the durable
\* password is that of one whole generation, it changes only into that of
\* another, and once there it is never gone.
Durable == INSTANCE Register WITH val <- Password(fs.disk), Values <- Gens

DurablePassword == Durable!Spec

\* A secret an answer confirmed survives a power failure, whole, until it is
\* replaced or removed: the database it opens would be stranded without it.  And
\* no reader meets part of a value, with two requests and a delete at work.
AckedSurvives ==
  /\ ack # Nil => fs.disk[Key] = ack /\ Key \notin fs.soft /\ IsDir(fs.disk, "app")
  /\ fs.mem[Key] # Torn

\* With no apply in flight the config on disk, which a restart loads, is the
\* one slipd runs with, whichever step of a create or update failed and wherever
\* slipd died, if no client went away in the middle.
ConfigMatchesLive ==
  (\A o \in Requests : op[o].kind # "apply") /\ "disconnect" \notin env.events
    => fs.mem[Config] = live

\* A registry login that was answered is the credential the next pull of an
\* image of that host uses, whatever else was logged in or out, failed or died
\* since, and the listing shows it as stored.  Logins that overlap, and a
\* power failure, lose entries of the index.
LoginSticks ==
  env.serial => \A img \in Images :
    LET h == NormalizeImageRef(img) IN
    logins[h] # Nil => /\ PullCredential(img) = {logins[h]}
                       /\ h \in Index(fs.mem)
                       /\ ListRegistries(Index(fs.mem))[h] \in {"store", "toml+store"}

=============================================================================
