------------------------------ MODULE Manifest ------------------------------
(***************************************************************************)
(* How the environment of an app is put together (deploy.rs) and how a pod *)
(* manifest is rendered for one deploy (manifest.rs).  A manifest is a     *)
(* record; an image is its base and its tag; an environment is a sequence  *)
(* of <<key, value>> pairs in which the daemon takes the last of a key.    *)
(***************************************************************************)
EXTENDS Sequences, SequencesExt, Naturals

CONSTANTS
  Hole,             \* the tag ${tag} of a manifest's image
  VolumeName(_)     \* the DNS label made of a mount path; not injective

\* The value a process sees.
Seen(env, k) ==
  LET own == SelectSeq(env, LAMBDA e : e[1] = k) IN own[Len(own)][2]
HasKey(env, k) == \E i \in DOMAIN env : env[i][1] = k
Keys(env) == {env[i][1] : i \in DOMAIN env}

\* The [env] table, then the lines of the env file, then the secrets, each of
\* which takes the place of every earlier entry of its key.
ResolveEnvVars(vars, file, secrets) ==
  SelectSeq(vars \o file, LAMBDA e : ~HasKey(secrets, e[1])) \o secrets

-----------------------------------------------------------------------------
(* Rendering.                                                              *)

\* Every transformation but the first works on both lists of containers.
EachContainer(doc, Change(_)) ==
  [doc EXCEPT !.containers = [i \in DOMAIN @ |-> Change(@[i])],
              !.init = [i \in DOMAIN @ |-> Change(@[i])]]

SetVersionedName(doc, suffix) == [doc EXCEPT !.suffix = suffix]

ResolveTagPlaceholders(doc, tag) ==
  EachContainer(doc, LAMBDA c :
    IF c.image.tag = Hole THEN [c EXCEPT !.image.tag = tag] ELSE c)

\* The first container of each list whose image is the app's.
UpdatePrimaryImage(doc, image, tag) ==
  LET Update(list) ==
        [i \in DOMAIN list |->
           IF /\ list[i].image.base = image
              /\ \A j \in 1..(i - 1) : list[j].image.base # image
           THEN [list[i] EXCEPT !.image = [base |-> image, tag |-> tag]]
           ELSE list[i]]
  IN [doc EXCEPT !.containers = Update(@), !.init = Update(@)]

ApplySidecarOverrides(doc, overrides) ==
  EachContainer(doc, LAMBDA c :
    IF c.name \in DOMAIN overrides THEN [c EXCEPT !.image = overrides[c.name]]
    ELSE c)

SetHostPortsZero(doc) ==
  EachContainer(doc, LAMBDA c : [c EXCEPT !.hostPorts = {0 : p \in c.hostPorts}])

\* Mutant of InjectEnvVars: an entry of the manifest is written over.
InjectEnvVarsClobber(doc, vars) ==
  EachContainer(doc, LAMBDA c : [c EXCEPT !.env = @ \o vars])

\* A key the container sets itself is left alone.
InjectEnvVars(doc, vars) ==
  EachContainer(doc, LAMBDA c :
    [c EXCEPT !.env = @ \o SelectSeq(vars, LAMBDA e : ~HasKey(c.env, e[1]))])

MountPaths(doc) ==
  UNION {{m.path : m \in c.mounts} : c \in Range(doc.containers) \cup Range(doc.init)}

\* A volume is skipped when its name or its path is taken in the manifest as
\* it was before any volume was injected.
Injected(doc, volumes) ==
  SelectSeq(volumes, LAMBDA v :
    /\ \A i \in DOMAIN doc.volumes : doc.volumes[i].name # VolumeName(v.mount)
    /\ v.mount \notin MountPaths(doc))

InjectVolumes(doc, volumes) ==
  LET vs == Injected(doc, volumes)
      Declared == [i \in DOMAIN vs |-> [name |-> VolumeName(vs[i].mount), host |-> vs[i].host]]
      Mounts == {[name |-> VolumeName(v.mount), path |-> v.mount] : v \in Range(vs)}
  IN [EachContainer(doc, LAMBDA c : [c EXCEPT !.mounts = @ \cup Mounts])
        EXCEPT !.volumes = @ \o Declared]

SetRestartPolicy(doc, hasWorkers) ==
  IF hasWorkers THEN [doc EXCEPT !.restart = "OnFailure"] ELSE doc

\* render_manifest; a versioned name of more than 63 bytes is refused.
RenderManifest(doc, ctx) ==
  LET named   == SetVersionedName(doc, ctx.suffix)
      tagged  == ResolveTagPlaceholders(named, ctx.tag)
      primary == UpdatePrimaryImage(tagged, ctx.image, ctx.tag)
      images  == SetHostPortsZero(ApplySidecarOverrides(primary, ctx.overrides))
      env     == InjectEnvVars(images, ctx.env)
  IN SetRestartPolicy(InjectVolumes(env, ctx.volumes), ctx.workers)
=============================================================================
