----------------------------- MODULE SetupProofs -----------------------------
(***************************************************************************)
(* Proofs about Setup, for any secrets, hosts, number of kills and reboots *)
(* and scenarios: what a `slip key` that succeeded says of CI, what an     *)
(* init that succeeded says of the webhook, and what a doctor that exits 0 *)
(* says of the host.                                                       *)
(***************************************************************************)
EXTENDS Setup, TLAPS

EtcFields == {"env", "tmp", "manifest", "unit", "config"}
SvcFields == {"state", "enabled", "secret", "conf"}
CaddyFields == {"up", "conflict", "block", "hook"}
RunFields == {"at", "opts", "conf", "wrote", "failed", "exit"}
KeyFields == {"store", "ci", "call", "sure"}

\* What slip.toml may hold.
IsConf(c) == /\ c = [f \in {"domain", "extra", "ok"} |-> c[f]]
             /\ c.domain \in BOOLEAN /\ c.extra \in BOOLEAN /\ c.ok \in BOOLEAN

\* A configuration is not the absence of one.
LEMMA ConfIsSome ==
  ASSUME NEW c, IsConf(c)
  PROVE  c # Nil
BY SetupAssumption DEF IsConf, Confs

FilesInv ==
  /\ etc = [f \in EtcFields |-> etc[f]]
  /\ etc.config = Nil \/ IsConf(etc.config)

UnitInv ==
  /\ svc = [f \in SvcFields |-> svc[f]]
  /\ svc.conf = Nil \/ IsConf(svc.conf)
  /\ svc.state \in {"booting", "serving"} => IsConf(svc.conf)

RunInv ==
  /\ run = [f \in RunFields |-> run[f]]
  /\ run.at # "none" => /\ IsConf(run.conf) /\ run.opts \in scn.opts
                        /\ run.opts.domain => run.conf.domain = TRUE

\* The shapes of the state, and that init runs only where it is asked for.
BaseInv ==
  /\ scn \in Scenarios
  /\ FilesInv /\ UnitInv /\ RunInv
  /\ caddy = [f \in CaddyFields |-> caddy[f]]
  /\ scn.task # "init" => run.at = "none"

\* The steps of an init, and where it may go to.
InitSteps == {"secret", "rename", "config", "unit", "enable", "poll", "repoll", "restart", "manifest"}
             \cup Checks

\* A unit that is started.
LEMMA StartedUnit ==
  ASSUME BaseInv
  PROVE  LET s == Started(svc) IN
         /\ s = [f \in SvcFields |-> s[f]] /\ s.state = "starting" /\ s.conf = Nil
         /\ s.secret = etc.env
BY DEF BaseInv, UnitInv, Started, SvcFields

\* An init that goes on, or ends.
LEMMA RunGoes ==
  ASSUME BaseInv, run.at # "none", NEW r,
         r = [f \in RunFields |-> r[f]], r.conf = run.conf, r.opts = run.opts, run' = r, scn' = scn
  PROVE  RunInv'
BY DEF BaseInv, RunInv, IsConf

\* The steps of init.
LEMMA InitStepShape ==
  ASSUME BaseInv, InitStep
  PROVE  /\ run.at # "none" /\ scn' = scn /\ UNCHANGED <<key, host, doc>>
         /\ run' = [f \in RunFields |-> run'[f]] /\ run'.conf = run.conf /\ run'.opts = run.opts
         /\ run'.at # "none"
<1>1. run = [f \in RunFields |-> run[f]]
  BY DEF BaseInv, RunInv
<1>2. CASE WriteSecret \/ RenameSecret
  BY <1>1, <1>2 DEF WriteSecret, RenameSecret, Goes, Exits, RunFields
<1>3. CASE WriteConfig \/ WriteUnit \/ Enable
  BY <1>1, <1>3 DEF WriteConfig, WriteUnit, Enable, Goes, RunFields
<1>4. CASE Poll \/ RestartService \/ EmitManifest
  BY <1>1, <1>4 DEF Poll, RestartService, EmitManifest, Goes, Exits, RunFields
<1>5. CASE RunVerification
  <2>1. AfterCheck(run.at) \in Checks \cup {"manifest"} /\ run.at # "none"
    BY <1>5 DEF RunVerification, Checks, AfterCheck
  <2>2. scn' = scn /\ UNCHANGED <<key, host, doc>>
    BY <1>5 DEF RunVerification
  <2>3. CASE Goes("manifest")
    BY <1>1, <2>1, <2>2, <2>3 DEF Goes, RunFields
  <2>4. CASE \E v \in Verdicts(run.at) :
               run' = [run EXCEPT !.at = AfterCheck(run.at), !.failed = @ \/ v = "fail"]
    <3>1. PICK b : run' = [run EXCEPT !.at = AfterCheck(run.at), !.failed = b]
      BY <2>4
    <3>2. "none" \notin Checks \cup {"manifest"}
      BY DEF Checks
    <3> QED BY <1>1, <2>1, <2>2, <3>1, <3>2 DEF RunFields
  <2> QED BY <1>5, <2>3, <2>4 DEF RunVerification
<1> QED BY <1>2, <1>3, <1>4, <1>5 DEF InitStep

\* What the steps of init do to the files.
LEMMA InitStepFiles ==
  ASSUME BaseInv, InitStep
  PROVE  /\ etc' = [f \in EtcFields |-> etc'[f]]
         /\ \/ etc'.config = etc.config
            \/ /\ run.at = "config" /\ etc'.config = run.conf
               /\ etc.config = Nil \/ "config" \in run.opts.force
<1>1. etc = [f \in EtcFields |-> etc[f]]
  BY DEF BaseInv, FilesInv
<1>2. CASE WriteSecret \/ RenameSecret \/ WriteUnit
  BY <1>1, <1>2 DEF WriteSecret, RenameSecret, WriteUnit, EtcFields
<1>3. CASE WriteConfig
  BY <1>1, <1>3 DEF WriteConfig, EtcFields, Forces
<1>4. CASE EmitManifest
  BY <1>1, <1>4 DEF EmitManifest, EtcFields
<1>5. CASE Enable \/ Poll \/ RestartService \/ RunVerification
  BY <1>1, <1>5 DEF Enable, Poll, RestartService, RunVerification
<1> QED BY <1>2, <1>3, <1>4, <1>5 DEF InitStep

\* What they do to the unit, and that they leave Caddy alone.
LEMMA InitStepUnit ==
  ASSUME BaseInv, InitStep
  PROVE  /\ caddy' = caddy /\ svc' = [f \in SvcFields |-> svc'[f]]
         /\ \/ svc'.state = svc.state /\ svc'.conf = svc.conf /\ svc'.secret = svc.secret
            \/ svc'.state = "starting" /\ svc'.conf = Nil /\ svc'.secret = etc.env
<1>1. svc = [f \in SvcFields |-> svc[f]]
  BY DEF BaseInv, UnitInv
<1>2. CASE Enable
  <2>1. caddy' = caddy /\ \/ svc' = [svc EXCEPT !.enabled = TRUE]
                          \/ svc' = [Started(svc) EXCEPT !.enabled = TRUE]
    BY <1>2 DEF Enable
  <2>2. CASE svc' = [svc EXCEPT !.enabled = TRUE]
    BY <1>1, <2>1, <2>2 DEF SvcFields
  <2>3. CASE svc' = [Started(svc) EXCEPT !.enabled = TRUE]
    BY <1>1, <2>1, <2>3 DEF SvcFields, Started
  <2> QED BY <2>1, <2>2, <2>3
<1>3. CASE RestartService
  BY <1>1, <1>3 DEF RestartService, Started, SvcFields
<1>4. CASE \/ WriteSecret \/ RenameSecret \/ WriteConfig \/ WriteUnit \/ Poll \/ RunVerification
           \/ EmitManifest
  BY <1>1, <1>4
  DEF WriteSecret, RenameSecret, WriteConfig, WriteUnit, Poll, RunVerification, EmitManifest
<1> QED BY <1>2, <1>3, <1>4 DEF InitStep

\* A step of systemd, of slipd, of the operator or of the host: what it does to the
\* files, the unit and Caddy, with its init where it is or ended.
LEMMA HostStep ==
  ASSUME BaseInv, LoadConfig \/ Bootstrap \/ Respawn \/ Repair \/ Kill \/ Reboot
  PROVE  /\ scn' = scn /\ UNCHANGED <<key, host, doc>>
         /\ etc' = [f \in EtcFields |-> etc'[f]] /\ etc'.env = etc.env
         /\ \/ etc'.config = etc.config
            \/ IsConf(etc'.config) /\ etc.config # Nil /\ etc'.config.domain = etc.config.domain
         /\ svc' = [f \in SvcFields |-> svc'[f]]
         /\ caddy' = [f \in CaddyFields |-> caddy'[f]]
         /\ \/ run' = run
            \/ /\ run.at # "none" /\ run' = [f \in RunFields |-> run'[f]] /\ run'.at = "done"
               /\ run'.exit = 1 /\ run'.conf = run.conf /\ run'.opts = run.opts
<1>1. /\ etc = [f \in EtcFields |-> etc[f]] /\ svc = [f \in SvcFields |-> svc[f]]
      /\ caddy = [f \in CaddyFields |-> caddy[f]] /\ run = [f \in RunFields |-> run[f]]
      /\ etc.config = Nil \/ IsConf(etc.config)
  BY DEF BaseInv, FilesInv, UnitInv, RunInv
<1>2. CASE LoadConfig \/ Respawn
  BY <1>1, <1>2 DEF LoadConfig, Respawn, Started, SvcFields
<1>3. CASE Bootstrap
  BY <1>1, <1>3 DEF Bootstrap, HookAdded, SvcFields, CaddyFields
<1>4. CASE Repair
  <2>1. CASE /\ etc.config # Nil /\ etc' = [etc EXCEPT !.config.ok = TRUE] /\ UNCHANGED caddy
    <3>1. etc'.config = [etc.config EXCEPT !.ok = TRUE] /\ etc'.env = etc.env
          /\ etc' = [f \in EtcFields |-> etc'[f]]
      BY <1>1, <2>1 DEF EtcFields
    <3>2. IsConf(etc.config)
      BY <1>1, <2>1
    <3>3. /\ etc'.config = [f \in {"domain", "extra", "ok"} |-> etc'.config[f]]
          /\ etc'.config.domain = etc.config.domain /\ etc'.config.extra = etc.config.extra
      BY <3>1, <3>2 DEF IsConf
    <3>4. etc'.config.ok = TRUE
      BY <3>1, <3>2 DEF IsConf
    <3>5. IsConf(etc'.config)
      BY <3>2, <3>3, <3>4 DEF IsConf
    <3> QED BY <1>1, <1>4, <2>1, <3>1, <3>3, <3>5 DEF Repair
  <2>2. CASE etc' = etc
    BY <1>1, <1>4, <2>2 DEF Repair, CaddyFields
  <2> QED BY <1>4, <2>1, <2>2 DEF Repair
<1>5. CASE Kill
  BY <1>1, <1>5 DEF Kill, Exits, RunFields
<1>6. CASE Reboot
  <2>1. etc' = etc /\ scn' = scn /\ UNCHANGED <<key, host, doc>>
    BY <1>6 DEF Reboot
  <2>2. svc' = [f \in SvcFields |-> svc'[f]]
    BY <1>1, <1>6 DEF Reboot, Started, SvcFields
  <2>3. caddy' = [f \in CaddyFields |-> caddy'[f]]
    BY <1>1, <1>6 DEF Reboot, CaddyFields
  <2>4. \/ run' = run
        \/ run' = [run EXCEPT !.at = "done", !.exit = 1] /\ run.at # "none"
    BY <1>6 DEF Reboot
  <2> QED BY <1>1, <2>1, <2>2, <2>3, <2>4 DEF RunFields
<1> QED BY <1>2, <1>3, <1>4, <1>5, <1>6

\* What it does to the unit.
LEMMA UnitStep ==
  ASSUME BaseInv, LoadConfig \/ Bootstrap \/ Respawn \/ Repair \/ Kill \/ Reboot
  PROVE  \/ svc' = svc
         \/ svc'.state = "starting" /\ svc'.conf = Nil /\ svc'.secret = etc.env
         \/ /\ svc'.state \in {"waiting", "failed", "inactive"} /\ svc'.conf = svc.conf
            /\ svc'.secret = svc.secret
         \/ /\ LoadConfig /\ svc'.state = "booting" /\ svc'.conf = etc.config /\ etc.config # Nil
            /\ svc'.secret = svc.secret
         \/ /\ Bootstrap /\ svc.state = "booting" /\ svc'.state = "serving"
            /\ svc'.conf = svc.conf /\ svc'.secret = svc.secret
<1>1. svc = [f \in SvcFields |-> svc[f]]
  BY DEF BaseInv, UnitInv
<1>2. CASE LoadConfig
  BY <1>1, <1>2 DEF LoadConfig, SvcFields
<1>3. CASE Bootstrap
  BY <1>1, <1>3 DEF Bootstrap, SvcFields
<1>4. CASE Respawn \/ Reboot
  BY <1>1, <1>4 DEF Respawn, Reboot, Started, SvcFields
<1>5. CASE Repair \/ Kill
  BY <1>5 DEF Repair, Kill
<1> QED BY <1>2, <1>3, <1>4, <1>5

\* The steps that leave the server alone.
KeyOrDoctor ==
  \/ KeyCommand \/ KeyAnswer \/ KeyLost
  \/ DoctorStart \/ DoctorChecks \/ DoctorTimeout \/ DoctorFix \/ DoctorApply \/ DoctorRecheck
  \/ DoctorEmit \/ Finished

\* Key commands and doctor leave the files, the unit, Caddy and the init alone.
LEMMA OtherStep ==
  ASSUME KeyOrDoctor
  PROVE  UNCHANGED <<scn, etc, svc, caddy, run>>
BY DEF KeyOrDoctor, KeyCommand, KeyAnswer, KeyLost, DoctorStart, DoctorChecks, DoctorTimeout, DoctorFix,
     DoctorApply, DoctorRecheck, DoctorEmit, Finished, initVars, vars

\* Every step keeps the shapes.
LEMMA BaseStep ==
  ASSUME BaseInv, [Next]_vars
  PROVE  BaseInv'
<1>1. CASE Run
  <2>1. PICK o \in scn.opts : run' = [NoRun EXCEPT !.at = "secret", !.opts = o, !.conf = Resolved(o)]
    BY <1>1 DEF Run
  <2>2. IsConf(Resolved(o))
    BY DEF IsConf, Resolved, Conf
  <2>3. /\ run' = [f \in RunFields |-> run'[f]] /\ run'.conf = Resolved(o) /\ run'.opts = o
    BY <2>1 DEF NoRun, RunFields
  <2>4. UNCHANGED <<scn, etc, svc, caddy>> /\ scn.task = "init"
    BY <1>1 DEF Run
  <2>5. o.domain => Resolved(o).domain = TRUE
    BY DEF Resolved, Conf
  <2>6. RunInv'
    BY <2>2, <2>3, <2>4, <2>5 DEF RunInv, IsConf
  <2> QED BY <2>4, <2>6 DEF BaseInv, FilesInv, UnitInv, IsConf
<1>2. CASE InitStep
  <2>1. /\ run.at # "none" /\ scn' = scn
        /\ run' = [f \in RunFields |-> run'[f]] /\ run'.conf = run.conf /\ run'.opts = run.opts
        /\ caddy' = caddy
    BY <1>2, InitStepShape, InitStepUnit
  <2>2. RunInv'
    BY <2>1, RunGoes
  <2>3. FilesInv'
    BY <1>2, <2>1, InitStepFiles DEF BaseInv, FilesInv, RunInv, IsConf
  <2>4. UnitInv'
    BY <1>2, InitStepUnit DEF BaseInv, UnitInv, IsConf
  <2>5. scn.task = "init"
    BY <2>1 DEF BaseInv
  <2> QED BY <2>1, <2>2, <2>3, <2>4, <2>5 DEF BaseInv
<1>3. CASE LoadConfig \/ Bootstrap \/ Respawn \/ Repair \/ Kill \/ Reboot
  <2>1. FilesInv'
    BY <1>3, HostStep DEF BaseInv, FilesInv, IsConf
  <2>2. UnitInv'
    <3>1. svc' = [f \in SvcFields |-> svc'[f]]
      BY <1>3, HostStep
    <3> QED BY <1>3, <3>1, UnitStep DEF BaseInv, UnitInv, FilesInv, IsConf
  <2>3. RunInv' /\ (scn.task # "init" => run'.at = "none")
    BY <1>3, HostStep DEF BaseInv, RunInv, IsConf
  <2> QED BY <1>3, <2>1, <2>2, <2>3, HostStep DEF BaseInv
<1>4. CASE KeyOrDoctor \/ UNCHANGED vars
  <2>1. UNCHANGED <<scn, etc, svc, caddy, run>>
    BY <1>4, OtherStep DEF vars
  <2> QED BY <2>1 DEF BaseInv, FilesInv, UnitInv, RunInv, IsConf
<1> QED BY <1>1, <1>2, <1>3, <1>4 DEF Next, KeyOrDoctor

\* The initial state has them.
LEMMA InitBase ==
  ASSUME Init
  PROVE  BaseInv
<1>1. \A b \in BOOLEAN : IsConf(Conf(b, FALSE, b))
  BY DEF IsConf, Conf
<1>2. RunInv /\ run.at = "none"
  BY DEF Init, RunInv, NoRun, RunFields
<1>3. caddy = [f \in CaddyFields |-> caddy[f]] /\ scn \in Scenarios
  BY DEF Init, CaddyFields
<1>4. CASE scn.task = "init"
  <2>1. FilesInv
    <3>1. PICK c \in {Nil, Conf(FALSE, FALSE, FALSE)} :
            etc = [env |-> Nil, tmp |-> FALSE, manifest |-> Nil, unit |-> FALSE, config |-> c]
      BY <1>4 DEF Init
    <3>2. c = Nil \/ IsConf(c)
      BY <1>1
    <3> QED BY <3>1, <3>2 DEF FilesInv, EtcFields
  <2>2. UnitInv
    BY <1>4 DEF Init, UnitInv, SvcFields
  <2> QED BY <1>2, <1>3, <2>1, <2>2 DEF BaseInv
<1>5. CASE scn.task # "init"
  <2>1. PICK s : /\ etc = [env |-> s, tmp |-> FALSE, manifest |-> Nil, unit |-> TRUE,
                           config |-> Conf(TRUE, FALSE, TRUE)]
                 /\ svc = [state |-> "serving", enabled |-> TRUE, secret |-> s,
                           conf |-> Conf(TRUE, FALSE, TRUE)]
    BY <1>5 DEF Init
  <2>2. FilesInv
    BY <1>1, <2>1 DEF FilesInv, EtcFields
  <2>3. UnitInv
    BY <1>1, <2>1 DEF UnitInv, SvcFields
  <2> QED BY <1>2, <1>3, <2>2, <2>3 DEF BaseInv
<1> QED BY <1>4, <1>5

-----------------------------------------------------------------------------
(* Deploy keys.                                                            *)

\* Where keys are set the server runs with the admin secret of its file, and a CI that
\* is sure to match has the key of the store or, without one, that secret; the answer
\* on its way names the key of the store.
KeyInv ==
  /\ key = [f \in KeyFields |-> key[f]] /\ key.call = [f \in {"at", "new"} |-> key.call[f]]
  /\ key.sure \in BOOLEAN
  /\ scn.task = "init" => key.sure = FALSE /\ key.call.at = "none"
  /\ scn.task # "init" => svc.secret = etc.env
  /\ key.sure = TRUE => key.ci = IF key.store # Nil THEN key.store ELSE etc.env
  /\ key.call.at = "answer" /\ key.call.new # Nil => key.call.new = key.store

\* Steps that leave the keys alone.
LEMMA KeysStay ==
  ASSUME KeyInv, key' = key, scn' = scn, scn.task # "init" => etc'.env = etc.env /\ svc'.secret = etc.env
  PROVE  KeyInv'
<1>1. CASE scn.task = "init"
  BY <1>1 DEF KeyInv
<1>2. CASE scn.task # "init"
  BY <1>2 DEF KeyInv
<1> QED BY <1>1, <1>2

\* Every step keeps what is known of the keys.
LEMMA KeyStep ==
  ASSUME BaseInv, KeyInv, [Next]_vars
  PROVE  KeyInv'
<1>0. /\ key = [f \in KeyFields |-> key[f]] /\ key.call = [f \in {"at", "new"} |-> key.call[f]]
  BY DEF KeyInv
<1>1. CASE Run
  BY <1>1, KeysStay DEF Run
<1>2. CASE InitStep
  <2>1. scn.task = "init" /\ key' = key /\ scn' = scn
    BY <1>2, InitStepShape DEF BaseInv
  <2> QED BY <2>1, KeysStay
<1>3. CASE LoadConfig \/ Bootstrap \/ Respawn \/ Repair \/ Kill \/ Reboot
  <2>1. scn' = scn /\ key' = key /\ etc'.env = etc.env
    BY <1>3, HostStep
  <2>2. svc'.secret \in {svc.secret, etc.env}
    BY <1>3, UnitStep
  <2>3. scn.task # "init" => svc'.secret = etc.env
    BY <2>2 DEF KeyInv
  <2> QED BY <2>1, <2>3, KeysStay
<1>4. CASE KeyCommand
  <2>1. scn.task = "key" /\ UNCHANGED <<scn, etc, svc>>
    BY <1>4 DEF KeyCommand, initVars
  <2>2. PICK rotate \in BOOLEAN : SetDeployKey(rotate)
    BY <1>4 DEF KeyCommand
  <2>3. CASE key' = [key EXCEPT !.call.new = Nil, !.call.at = "answer"]
    <3>1. /\ key' = [f \in KeyFields |-> key'[f]] /\ key'.call = [f \in {"at", "new"} |-> key'.call[f]]
          /\ key'.sure = key.sure /\ key'.ci = key.ci /\ key'.store = key.store
          /\ key'.call.new = Nil
      BY <1>0, <2>3 DEF KeyFields
    <3> QED BY <2>1, <3>1 DEF KeyInv
  <2>4. CASE \E k \in Secrets \ {key.store, svc.secret} :
               key' = [key EXCEPT !.store = k, !.call.new = k, !.call.at = "answer", !.sure = FALSE]
    <3>1. PICK k \in Secrets \ {key.store, svc.secret} :
            key' = [key EXCEPT !.store = k, !.call.new = k, !.call.at = "answer", !.sure = FALSE]
      BY <2>4
    <3>2. /\ key' = [f \in KeyFields |-> key'[f]] /\ key'.call = [f \in {"at", "new"} |-> key'.call[f]]
          /\ key'.store = k /\ key'.call.new = k
      BY <1>0, <3>1 DEF KeyFields
    <3>3. key'.sure = FALSE
      BY <1>0, <3>1 DEF KeyFields
    <3> QED BY <2>1, <3>2, <3>3 DEF KeyInv
  <2> QED BY <2>2, <2>3, <2>4 DEF SetDeployKey
<1>5. CASE KeyAnswer
  <2>1. UNCHANGED <<scn, etc, svc>> /\ key.call.at = "answer"
    BY <1>5 DEF KeyAnswer, initVars
  <2>2. scn.task # "init"
    BY <2>1 DEF KeyInv
  <2>3. /\ key' = [f \in KeyFields |-> key'[f]] /\ key'.call = NoKey
        /\ key'.store = key.store
        /\ key'.ci = IF key.call.new # Nil THEN key.call.new ELSE key.ci
    BY <1>0, <1>5 DEF KeyAnswer, KeyFields
  <2>4. key'.sure = (key.sure \/ key.call.new # Nil)
    BY <1>0, <1>5 DEF KeyAnswer, KeyFields
  <2>5. key'.call = [f \in {"at", "new"} |-> key'.call[f]] /\ key'.call.at = "none"
    BY <2>3 DEF NoKey
  <2>6. key'.sure \in BOOLEAN
    BY <2>4
  <2>7. key'.sure = TRUE => key.sure = TRUE \/ key.call.new # Nil
    BY <2>4 DEF KeyInv
  <2>8. key'.sure = TRUE => key'.ci = IF key.store # Nil THEN key.store ELSE etc.env
    BY <2>1, <2>3, <2>7 DEF KeyInv
  <2> QED BY <2>1, <2>2, <2>3, <2>5, <2>6, <2>8 DEF KeyInv
<1>6. CASE KeyLost
  <2>1. UNCHANGED <<scn, etc, svc>> /\ key.call.at = "answer"
    BY <1>6 DEF KeyLost, initVars
  <2>2. /\ key' = [f \in KeyFields |-> key'[f]] /\ key'.call = NoKey
        /\ key'.store = key.store /\ key'.ci = key.ci /\ key'.sure = key.sure
    BY <1>0, <1>6 DEF KeyLost, KeyFields
  <2>3. key'.call = [f \in {"at", "new"} |-> key'.call[f]] /\ key'.call.at = "none"
    BY <2>2 DEF NoKey
  <2> QED BY <2>1, <2>2, <2>3 DEF KeyInv
<1>7. CASE \/ DoctorStart \/ DoctorChecks \/ DoctorTimeout \/ DoctorFix \/ DoctorApply \/ DoctorRecheck
           \/ DoctorEmit \/ Finished \/ UNCHANGED vars
  <2>1. UNCHANGED <<scn, etc, svc, key>>
    BY <1>7 DEF DoctorStart, DoctorChecks, DoctorTimeout, DoctorFix, DoctorApply, DoctorRecheck, DoctorEmit,
         Finished, initVars, vars
  <2> QED BY <2>1, KeysStay DEF KeyInv
<1> QED BY <1>1, <1>2, <1>3, <1>4, <1>5, <1>6, <1>7 DEF Next

\* A `slip key --gh` that reported success, or no call at all, leaves a CI whose signatures
\* slipd accepts, for deploys and for previews, whatever answer was lost before, whichever
\* keys were rotated, and after any number of reboots.
THEOREM CiSignaturesMatch == Spec => []CiMatches
<1>1. BaseInv /\ KeyInv => CiMatches
  <2> SUFFICES ASSUME BaseInv, KeyInv, key.sure, svc.state = "serving"
               PROVE  VerifySignature /\ VerifyPreviewAuth(Nil)
    BY DEF CiMatches
  <2>1. key.sure = TRUE
    BY DEF KeyInv
  <2>2. svc.secret = etc.env
    BY <2>1 DEF KeyInv
  <2>3. key.ci = ResolveSecret
    BY <2>1, <2>2 DEF KeyInv, ResolveSecret
  <2> QED BY <2>3 DEF VerifySignature, VerifyPreviewAuth
<1>2. Init => BaseInv /\ KeyInv
  <2> SUFFICES ASSUME Init
               PROVE  BaseInv /\ KeyInv
    OBVIOUS
  <2>1. BaseInv
    BY InitBase
  <2>2. CASE scn.task = "init"
    <3>1. key = [store |-> Nil, ci |-> Nil, call |-> NoKey, sure |-> FALSE]
      BY <2>2 DEF Init
    <3>2. key.sure = FALSE
      BY <3>1
    <3>3. /\ key = [f \in KeyFields |-> key[f]] /\ key.call = [f \in {"at", "new"} |-> key.call[f]]
          /\ key.call.at = "none"
      BY <3>1 DEF KeyFields, NoKey
    <3> QED BY <2>1, <2>2, <3>2, <3>3 DEF KeyInv
  <2>3. CASE scn.task # "init"
    <3>1. PICK s : /\ etc = [env |-> s, tmp |-> FALSE, manifest |-> Nil, unit |-> TRUE,
                             config |-> Conf(TRUE, FALSE, TRUE)]
                   /\ svc = [state |-> "serving", enabled |-> TRUE, secret |-> s,
                             conf |-> Conf(TRUE, FALSE, TRUE)]
                   /\ key = [store |-> Nil, ci |-> s, call |-> NoKey, sure |-> TRUE]
      BY <2>3 DEF Init
    <3>2. key.sure = TRUE
      BY <3>1
    <3>3. /\ key = [f \in KeyFields |-> key[f]] /\ key.call = [f \in {"at", "new"} |-> key.call[f]]
          /\ key.call.at = "none" /\ key.store = Nil /\ key.ci = s
      BY <3>1 DEF KeyFields, NoKey
    <3>4. etc.env = s /\ svc.secret = s
      BY <3>1
    <3> QED BY <2>1, <2>3, <3>2, <3>3, <3>4 DEF KeyInv
  <2> QED BY <2>2, <2>3
<1>3. BaseInv /\ KeyInv /\ [Next]_vars => (BaseInv /\ KeyInv)'
  BY BaseStep, KeyStep
<1> QED BY <1>1, <1>2, <1>3, PTL DEF Spec

-----------------------------------------------------------------------------
(* The webhook route.                                                      *)

\* A configuration with a domain.
Domain(c) == c # Nil /\ c.domain = TRUE

\* No init forces a configuration without a domain over one that may have it.
KeepsDomain(e) == \A o \in e.opts : "config" \in o.force => o.domain

\* The steps of init after the check of the webhook route.
Routed == {"v_tls", "v_socket", "v_active", "v_https", "manifest"}

\* The init has seen the webhook route: it is past the check, or it succeeded.
Saw ==
  /\ \/ run.at \in Routed /\ ~run.failed
     \/ run.at = "done" /\ run.exit = 0
  /\ run.conf.domain /\ ~run.opts.skip

\* The route is there, or comes with slipd's next start.
Lasts ==
  /\ Domain(etc.config)
  /\ svc.state = "serving" => caddy.hook = TRUE
  /\ svc.state = "booting" => Domain(svc.conf) \/ caddy.hook = TRUE

\* The route comes from slip.toml, which keeps its domain, and what init saw lasts.
RouteInv ==
  /\ caddy.hook \in BOOLEAN
  /\ caddy.hook = TRUE => Domain(etc.config)
  /\ Domain(svc.conf) => Domain(etc.config)
  /\ svc.state = "serving" /\ Domain(svc.conf) => caddy.hook = TRUE
  /\ Saw => Lasts

\* A step that init has not seen the route after.
LEMMA NotSeen ==
  ASSUME RouteInv, ~Saw', caddy'.hook \in BOOLEAN,
         caddy'.hook = TRUE => Domain(etc'.config), Domain(svc'.conf) => Domain(etc'.config),
         svc'.state = "serving" /\ Domain(svc'.conf) => caddy'.hook = TRUE
  PROVE  RouteInv'
BY DEF RouteInv, Domain, Saw

\* The step of init that is about the route.
LEMMA VerificationRoutes ==
  ASSUME BaseInv, RouteInv, RunVerification
  PROVE  RouteInv'
<1>1. UNCHANGED <<scn, etc, svc, caddy>> /\ run.at \in Checks /\ run = [f \in RunFields |-> run[f]]
  BY DEF RunVerification, BaseInv, RunInv
<1>2. SUFFICES ASSUME Saw'
               PROVE  Lasts
  <2>1. Lasts => Lasts'
    BY <1>1 DEF Lasts, Domain
  <2> QED BY <1>1, <1>2, <2>1 DEF RouteInv, Domain
<1>3. CASE run.opts.skip
  <2>1. Goes("manifest")
    BY <1>3 DEF RunVerification
  <2>2. run'.opts = run.opts
    BY <1>1, <2>1 DEF Goes, RunFields
  <2> QED BY <1>2, <1>3, <2>2 DEF Saw
<1>4. CASE ~run.opts.skip
  <2>1. PICK v \in Verdicts(run.at) :
          run' = [run EXCEPT !.at = AfterCheck(run.at), !.failed = @ \/ v = "fail"]
    BY <1>4 DEF RunVerification
  <2>2. run'.at = AfterCheck(run.at) /\ run'.conf = run.conf /\ run'.opts = run.opts
    BY <1>1, <2>1 DEF RunFields
  <2>3. run'.failed = (run.failed \/ v = "fail")
    BY <1>1, <2>1 DEF RunFields
  <2>4. AfterCheck(run.at) \in Checks \cup {"manifest"} /\ run'.at # "done"
    BY <1>1, <2>2 DEF Checks, AfterCheck
  <2>5. ~run'.failed /\ run'.at \in Routed
    BY <1>2, <2>4 DEF Saw
  <2>6. ~run.failed /\ v # "fail"
    BY <2>3, <2>5
  <2>7. run.conf.domain
    BY <1>2, <2>2 DEF Saw
  <2>8. CASE run.at \in Routed
    <3>1. Saw
      BY <1>4, <2>6, <2>7, <2>8 DEF Saw
    <3> QED BY <3>1 DEF RouteInv
  <2>9. CASE run.at \notin Routed
    <3>1. run.at \in {"verify", "v_block", "v_hook"}
      BY <1>1, <2>9 DEF Checks, Routed
    <3>2. run.at = "v_hook"
      BY <2>2, <2>5, <2>7, <3>1 DEF AfterCheck, Routed
    <3>3. v = VerifyDeployWebhookRoute
      BY <3>2 DEF Verdicts
    <3>4. caddy.hook
      BY <2>6, <3>3 DEF VerifyDeployWebhookRoute
    <3>5. caddy.hook = TRUE
      BY <3>4 DEF RouteInv
    <3> QED BY <3>5 DEF Lasts, RouteInv
  <2> QED BY <2>8, <2>9
<1> QED BY <1>3, <1>4

\* The other steps of init.
LEMMA InitStepRoutes ==
  ASSUME BaseInv, RouteInv, KeepsDomain(scn), InitStep
  PROVE  RouteInv'
<1>1. /\ caddy' = caddy /\ run.at # "none" /\ run = [f \in RunFields |-> run[f]]
      /\ etc = [f \in EtcFields |-> etc[f]] /\ run'.conf = run.conf /\ run'.opts = run.opts
  BY InitStepUnit, InitStepShape DEF BaseInv, RunInv, FilesInv
<1>2. Domain(etc.config) => Domain(etc'.config)
  <2>1. CASE etc'.config = etc.config
    BY <2>1
  <2>2. CASE /\ etc'.config = run.conf
             /\ etc.config = Nil \/ "config" \in run.opts.force
    <3>1. SUFFICES ASSUME Domain(etc.config)
                   PROVE  Domain(run.conf)
      BY <2>2
    <3>2. run.opts \in scn.opts /\ "config" \in run.opts.force
      BY <1>1, <2>2, <3>1 DEF BaseInv, RunInv, Domain
    <3>3. run.opts.domain
      BY <3>2 DEF KeepsDomain
    <3>4. run.conf.domain = TRUE /\ run.conf # Nil
      BY <1>1, <3>3, ConfIsSome DEF BaseInv, RunInv
    <3> QED BY <3>4 DEF Domain
  <2> QED BY <2>1, <2>2, InitStepFiles
<1>3. CASE EmitManifest
  <2>1. run.at = "manifest" /\ svc' = svc /\ etc'.config = etc.config
    BY <1>1, <1>3 DEF EmitManifest, EtcFields
  <2>2. run'.at = "done" /\ run'.exit = (IF run.failed THEN 5 ELSE 0)
    BY <1>1, <1>3 DEF EmitManifest, Exits, RunFields
  <2>3. Saw' => Saw
    <3> SUFFICES ASSUME Saw'
                 PROVE  Saw
      OBVIOUS
    <3>1. run'.exit = 0
      BY <2>2 DEF Saw, Routed
    <3>2. ~run.failed
      BY <2>2, <3>1
    <3>3. run'.conf.domain /\ ~run'.opts.skip
      BY DEF Saw
    <3>4. run.conf.domain /\ ~run.opts.skip
      BY <1>1, <3>3
    <3> QED BY <2>1, <3>2, <3>4 DEF Saw, Routed
  <2>4. Lasts => Lasts'
    BY <1>1, <2>1 DEF Lasts, Domain
  <2> QED BY <1>1, <2>1, <2>3, <2>4 DEF RouteInv, Domain
<1>4. CASE RunVerification
  BY <1>4, VerificationRoutes
<1>5. CASE WriteSecret \/ RenameSecret \/ WriteConfig \/ WriteUnit \/ Enable \/ Poll \/ RestartService
  <2>1. ~Saw'
    <3>1. run'.at \notin Routed /\ (run'.at = "done" => run'.exit \in {1, 5})
      BY <1>1, <1>5 DEF WriteSecret, RenameSecret, WriteConfig, WriteUnit, Enable, Poll, RestartService,
           Goes, Exits, RunFields, Routed
    <3> QED BY <3>1 DEF Saw
  <2>2. /\ svc'.conf \in {svc.conf, Nil}
        /\ svc'.state = "serving" => svc.state = "serving" /\ svc'.conf = svc.conf
    BY InitStepUnit
  <2>3. Domain(svc'.conf) => Domain(svc.conf)
    BY <2>2 DEF Domain
  <2> QED BY <1>1, <1>2, <2>1, <2>2, <2>3, NotSeen DEF RouteInv
<1> QED BY <1>3, <1>4, <1>5 DEF InitStep

\* What systemd, slipd, the operator and the host do.
LEMMA HostStepRoutes ==
  ASSUME BaseInv, RouteInv, LoadConfig \/ Bootstrap \/ Respawn \/ Repair \/ Kill \/ Reboot
  PROVE  RouteInv'
<1>1. /\ caddy = [f \in CaddyFields |-> caddy[f]] /\ caddy.hook \in BOOLEAN
      /\ etc.config = Nil \/ IsConf(etc.config)
  BY DEF BaseInv, RouteInv, FilesInv
<1>2. Domain(etc'.config) = Domain(etc.config)
  BY HostStep, ConfIsSome DEF Domain
<1>3. Saw' => Saw
  <2>1. CASE run' = run
    BY <2>1 DEF Saw
  <2>2. CASE run'.at = "done" /\ run'.exit = 1
    BY <2>2 DEF Saw, Routed
  <2> QED BY <2>1, <2>2, HostStep
<1>4. CASE Bootstrap
  <2>1. svc.state = "booting" /\ IsConf(svc.conf)
    BY <1>4 DEF Bootstrap, BaseInv, UnitInv
  <2>2. CASE caddy' = caddy /\ svc' \in {[svc EXCEPT !.state = "waiting"], [svc EXCEPT !.state = "failed"]}
    <3>1. svc'.state \in {"waiting", "failed"} /\ svc'.conf = svc.conf
      BY <2>2 DEF BaseInv, UnitInv, SvcFields
    <3> QED BY <1>2, <1>3, <2>2, <3>1 DEF RouteInv, Lasts, Domain
  <2>3. CASE svc' = [svc EXCEPT !.state = "serving"] /\ caddy' = HookAdded([caddy EXCEPT !.block = TRUE], svc.conf)
    <3>1. svc'.conf = svc.conf /\ svc'.state = "serving"
      BY <2>3 DEF BaseInv, UnitInv, SvcFields
    <3>2. caddy'.hook = (caddy.hook \/ svc.conf.domain)
      BY <1>1, <2>3 DEF HookAdded, CaddyFields
    <3>3. /\ caddy'.hook \in BOOLEAN
          /\ caddy'.hook = TRUE <=> caddy.hook = TRUE \/ svc.conf.domain = TRUE
      BY <1>1, <2>1, <3>2 DEF IsConf
    <3>4. Domain(svc.conf) <=> svc.conf.domain = TRUE
      BY <2>1, ConfIsSome DEF Domain
    <3> QED BY <1>2, <1>3, <2>1, <2>3, <3>1, <3>3, <3>4 DEF RouteInv, Lasts
  <2> QED BY <1>4, <2>2, <2>3 DEF Bootstrap
<1>5. CASE Reboot
  <2>1. caddy'.hook = FALSE
    BY <1>1, <1>5 DEF Reboot, CaddyFields
  <2>2. /\ svc'.state \in {"starting", "inactive"}
        /\ svc'.conf \in {Nil, svc.conf}
    BY <1>5, StartedUnit DEF Reboot, BaseInv, UnitInv, SvcFields
  <2>3. Domain(svc'.conf) => Domain(svc.conf)
    BY <2>2 DEF Domain
  <2> QED BY <1>2, <1>3, <2>1, <2>2, <2>3 DEF RouteInv, Lasts
<1>6. CASE LoadConfig \/ Respawn \/ Repair \/ Kill
  <2>1. caddy'.hook = caddy.hook
    BY <1>1, <1>6 DEF LoadConfig, Respawn, Repair, Kill, CaddyFields
  <2>2. \/ svc'.state = svc.state /\ svc'.conf = svc.conf
        \/ svc'.state \in {"starting", "waiting", "failed", "inactive"} /\ svc'.conf \in {Nil, svc.conf}
        \/ svc'.state = "booting" /\ svc'.conf = etc.config
    BY <1>6, UnitStep DEF LoadConfig, Respawn, Repair, Kill, Bootstrap
  <2>3. Domain(svc'.conf) => Domain(etc.config)
    BY <2>2 DEF Domain, RouteInv
  <2> QED BY <1>2, <1>3, <2>1, <2>2, <2>3 DEF RouteInv, Lasts
<1> QED BY <1>4, <1>5, <1>6

\* Every step keeps the invariant.
LEMMA RouteStep ==
  ASSUME BaseInv, RouteInv, KeepsDomain(scn), [Next]_vars
  PROVE  RouteInv'
<1>1. CASE Run
  <2>1. run'.at = "secret" /\ UNCHANGED <<etc, svc, caddy>>
    BY <1>1 DEF Run, NoRun
  <2>2. ~Saw'
    BY <2>1 DEF Saw, Routed
  <2> QED BY <2>1, <2>2, NotSeen DEF RouteInv
<1>2. CASE InitStep
  BY <1>2, InitStepRoutes
<1>3. CASE LoadConfig \/ Bootstrap \/ Respawn \/ Repair \/ Kill \/ Reboot
  BY <1>3, HostStepRoutes
<1>4. CASE KeyOrDoctor \/ UNCHANGED vars
  <2>1. UNCHANGED <<scn, etc, svc, caddy, run>>
    BY <1>4, OtherStep DEF vars
  <2> QED BY <2>1 DEF RouteInv, Saw, Lasts, Domain
<1> QED BY <1>1, <1>2, <1>3, <1>4 DEF Next, KeyOrDoctor

\* An init that reported success for a domain leaves a server that routes the webhook
\* whenever slipd serves, whatever was broken, killed or rebooted before and after and
\* whatever earlier inits left, if none of them forces a configuration without a domain:
\* then the route of the old one, still in Caddy, would pass the verification.
THEOREM OkStaysRouted ==
  ASSUME \A e \in Scenarios : KeepsDomain(e)
  PROVE  Spec => []OkMeansRouted
<1>1. BaseInv /\ RouteInv => OkMeansRouted
  <2> SUFFICES ASSUME BaseInv, RouteInv, run.at = "done", run.exit = 0, run.conf.domain,
                      ~run.opts.skip, svc.state = "serving"
               PROVE  caddy.hook
    BY DEF OkMeansRouted
  <2>1. Saw
    BY DEF Saw
  <2>2. caddy.hook = TRUE
    BY <2>1 DEF RouteInv, Lasts
  <2> QED BY <2>2
<1>2. Init => BaseInv /\ RouteInv
  <2> SUFFICES ASSUME Init
               PROVE  BaseInv /\ RouteInv
    OBVIOUS
  <2>1. BaseInv
    BY InitBase
  <2>2. ~Saw
    BY DEF Init, NoRun, Saw, Routed
  <2>3. CASE scn.task = "init"
    <3>1. caddy.hook = FALSE
      BY <2>3 DEF Init
    <3>2. svc.conf = Nil
      BY <2>3 DEF Init
    <3> QED BY <2>1, <2>2, <3>1, <3>2 DEF RouteInv, Domain
  <2>4. CASE scn.task # "init"
    <3>1. caddy.hook = TRUE
      BY <2>4 DEF Init
    <3>2. etc.config = Conf(TRUE, FALSE, TRUE)
      <4>1. PICK s : etc = [env |-> s, tmp |-> FALSE, manifest |-> Nil, unit |-> TRUE,
                            config |-> Conf(TRUE, FALSE, TRUE)]
        BY <2>4 DEF Init
      <4> QED BY <4>1
    <3>3. IsConf(Conf(TRUE, FALSE, TRUE))
      BY DEF IsConf, Conf
    <3>4. Conf(TRUE, FALSE, TRUE).domain = TRUE
      BY DEF Conf
    <3>5. Domain(etc.config)
      BY <3>2, <3>3, <3>4, ConfIsSome DEF Domain
    <3> QED BY <2>1, <2>2, <3>1, <3>5 DEF RouteInv
  <2> QED BY <2>3, <2>4
<1>3. BaseInv /\ RouteInv /\ [Next]_vars => (BaseInv /\ RouteInv)'
  <2>1. BaseInv => KeepsDomain(scn)
    BY DEF BaseInv
  <2> QED BY <2>1, BaseStep, RouteStep
<1> QED BY <1>1, <1>2, <1>3, PTL DEF Spec

-----------------------------------------------------------------------------
(* Doctor.                                                                 *)

DocFields == {"at", "checks", "plan", "exit"}
HostFields == {"faults", "uses", "cli", "runtime", "rules"}

\* The report says v of the check c.
Seen(checks, c, v) == c \in DOMAIN checks /\ checks[c] = v

\* What each group of checks has put into the report about host h.
HostSeen(checks, h) ==
  /\ Seen(checks, "disk.free", CheckDiskFree(h))
  /\ Seen(checks, "caddy.dns_plugin", CheckCaddyDnsPlugin(h))
UfwSeen(checks, h) == Seen(checks, "ufw.bridge_dns", CheckUfwBridgeDns(h))
CaddySeen(checks, h) ==
  \A c \in {"caddy.reachable", "caddy.slip_server", "caddy.listener_conflict"} :
    Seen(checks, c, CheckCaddyAdmin(h)[c])
RegistrySeen(checks, h) ==
  \A c \in {"registry.reachable", "registry.auth"} : Seen(checks, c, CheckRegistry(h)[c])
TailscaleNames == {"tailscale.daemon", "tailscale.https", "tailscale.caddy_user",
                   "tailscale.manager_module", "tailscale.hostname_match"}
TailscaleSeen(checks, h) ==
  \A c \in TailscaleChecks(h) : Seen(checks, c, CheckTailscale(h)[c])
DnsSeen(checks, h) == Seen(checks, "dns.expectation", CheckDns(h)["dns.expectation"])
SlipdSeen(checks, h) == Seen(checks, "slipd.reachable", CheckSlipdReachable(h))

\* The steps of doctor at which each group is in the report.
Last == {"fix", "apply", "recheck", "emit"}
AfterHost == {"caddy", "registry", "tls", "dns", "slipd"} \cup Last
AfterCaddy == {"registry", "tls", "dns", "slipd"} \cup Last
AfterRegistry == {"tls", "dns", "slipd"} \cup Last
AfterTls == {"dns", "slipd"} \cup Last
AfterDns == {"slipd"} \cup Last

\* The report of a doctor that is at `at` on host h: a rule that was added makes the
\* firewall check stale until it is taken anew.
ReportOK(at, checks, h) ==
  /\ at \in AfterHost => HostSeen(checks, h) /\ "ufw.bridge_dns" \in DOMAIN checks
  /\ at \in AfterHost \ {"recheck"} => UfwSeen(checks, h)
  /\ at \in AfterCaddy => CaddySeen(checks, h)
  /\ at \in AfterRegistry => RegistrySeen(checks, h)
  /\ at \in AfterTls => TailscaleSeen(checks, h)
  /\ at \in AfterDns => DnsSeen(checks, h)
  /\ at \in Last => SlipdSeen(checks, h)

\* A host without the faults that doctor can establish.
Clean(h) ==
  /\ Certain(h) = {}
  /\ Uses(h, "ts_net") /\ ~Has(h, "no_caddy_binary") => PreflightTailscale(h)

\* The checks of Tailscale are among five, and all of them with a *.ts.net host.
LEMMA SomeTailscaleChecks ==
  ASSUME NEW h
  PROVE  /\ TailscaleChecks(h) \subseteq TailscaleNames
         /\ Uses(h, "ts_net") => TailscaleChecks(h) = TailscaleNames
         /\ Uses(h, "tailscale") \/ Uses(h, "ts_net") =>
              {"tailscale.daemon", "tailscale.https", "tailscale.caddy_user",
               "tailscale.manager_module"} \subseteq TailscaleChecks(h)
         /\ DOMAIN CheckTailscale(h) = TailscaleChecks(h)
BY DEF TailscaleChecks, TailscaleNames, CheckTailscale

DocInv ==
  /\ scn \in Scenarios
  /\ doc = [f \in DocFields |-> doc[f]]
  /\ doc.at # "none" => scn.task = "doctor"
  /\ scn.task = "doctor" => host = [f \in HostFields |-> host[f]]
  /\ ReportOK(doc.at, doc.checks, Loaded(host))
  /\ doc.exit # Nil => doc.at = "done"
  /\ doc.exit = 0 => Clean(Loaded(host))

\* Checks that are added to a report keep those of other names.
LEMMA JoinedReport ==
  ASSUME NEW f, NEW g
  PROVE  /\ \A c \in DOMAIN f : Seen(Joined(f, g), c, f[c])
         /\ \A c \in DOMAIN g \ DOMAIN f : Seen(Joined(f, g), c, g[c])
BY DEF Joined, Seen

\* A host that is loaded, and one with another rule.
LEMMA LoadedHost ==
  ASSUME NEW h, h = [f \in HostFields |-> h[f]]
  PROVE  /\ Loaded(h).faults = h.faults /\ Loaded(h).rules = h.rules
         /\ Loaded(h).uses = (IF "no_config" \in h.faults THEN h.uses \cap {"token"} ELSE h.uses)
         /\ Loaded(h).cli = h.cli /\ Loaded(h).runtime = h.runtime
BY DEF Loaded, Has, HostFields

\* The groups of checks other than the firewall's do not look at the rules.
LEMMA RulesUnseen ==
  ASSUME NEW checks, NEW h, NEW k, h.faults = k.faults, h.uses = k.uses
  PROVE  /\ HostSeen(checks, h) => HostSeen(checks, k)
         /\ CaddySeen(checks, h) => CaddySeen(checks, k)
         /\ RegistrySeen(checks, h) => RegistrySeen(checks, k)
         /\ TailscaleSeen(checks, h) => TailscaleSeen(checks, k)
         /\ DnsSeen(checks, h) => DnsSeen(checks, k)
         /\ SlipdSeen(checks, h) => SlipdSeen(checks, k)
<1>0. (\A f : Has(h, f) <=> Has(k, f)) /\ (\A u : Uses(h, u) <=> Uses(k, u))
  BY DEF Has, Uses
<1>1. CheckDiskFree(h) = CheckDiskFree(k) /\ CheckCaddyDnsPlugin(h) = CheckCaddyDnsPlugin(k)
  BY <1>0 DEF CheckDiskFree, CheckCaddyDnsPlugin, RequiredDnsProvider, ParseCaddyModules
<1>2. CheckCaddyAdmin(h) = CheckCaddyAdmin(k)
  BY <1>0 DEF CheckCaddyAdmin
<1>3. \A c \in {"registry.reachable", "registry.auth"} : CheckRegistry(h)[c] = CheckRegistry(k)[c]
  <2>1. RegistryAnswers(h) = RegistryAnswers(k)
    BY <1>0 DEF RegistryAnswers
  <2> QED BY <1>0, <2>1 DEF CheckRegistry, CollectRegistryHosts
<1>4. /\ TailscaleChecks(h) = TailscaleChecks(k)
      /\ \A c \in TailscaleChecks(k) : CheckTailscale(h)[c] = CheckTailscale(k)[c]
  <2>1. ParseCertDomains(h) = ParseCertDomains(k)
    BY <1>0 DEF ParseCertDomains
  <2>2. ClassifyManagerModule(h) = ClassifyManagerModule(k)
    BY <1>0 DEF ClassifyManagerModule, ModulePresentExact
  <2>3. CheckCaddyUserPermission(h) <=> CheckCaddyUserPermission(k)
    BY <1>0 DEF CheckCaddyUserPermission
  <2>4. TailscaleChecks(h) = TailscaleChecks(k)
    BY <1>0 DEF TailscaleChecks
  <2>5. Passes(~Has(h, "tailscaled_down")) = Passes(~Has(k, "tailscaled_down"))
    BY <1>0 DEF Passes
  <2>6. /\ Passes(ParseCertDomains(h) # {}) = Passes(ParseCertDomains(k) # {})
        /\ Passes(HostMatchesCertDomains(h)) = Passes(HostMatchesCertDomains(k))
    BY <2>1 DEF Passes, HostMatchesCertDomains
  <2>7. Passes(CheckCaddyUserPermission(h)) = Passes(CheckCaddyUserPermission(k))
    BY <2>3 DEF Passes
  <2>8. ASSUME NEW c \in TailscaleChecks(k)
        PROVE  CheckTailscale(h)[c] = CheckTailscale(k)[c]
    <3>1. c \in TailscaleNames
      BY SomeTailscaleChecks
    <3>2. CASE c = "tailscale.daemon"
      BY <2>4, <2>5, <3>2 DEF CheckTailscale
    <3>3. CASE c = "tailscale.https"
      BY <2>4, <2>6, <3>3 DEF CheckTailscale
    <3>4. CASE c = "tailscale.hostname_match"
      BY <2>4, <2>6, <3>4 DEF CheckTailscale
    <3>5. CASE c = "tailscale.caddy_user"
      BY <2>4, <2>7, <3>5 DEF CheckTailscale
    <3>6. CASE c = "tailscale.manager_module"
      BY <2>2, <2>4, <3>6 DEF CheckTailscale
    <3> QED BY <3>1, <3>2, <3>3, <3>4, <3>5, <3>6 DEF TailscaleNames
  <2> QED BY <2>4, <2>8
<1>5. CheckDns(h)["dns.expectation"] = CheckDns(k)["dns.expectation"]
  <2>1. ResolveHost(h) = ResolveHost(k) /\ ClassifyIps(h) = ClassifyIps(k) /\ (Hosts(h) <=> Hosts(k))
    BY <1>0 DEF ResolveHost, ClassifyIps, Hosts
  <2>2. ResolveHost(k) \in {"down", "none", "address"}
    BY DEF ResolveHost
  <2>3. ClassifyDnsExpectation(h) = ClassifyDnsExpectation(k)
    BY <1>0, <2>1, <2>2 DEF ClassifyDnsExpectation
  <2> QED BY <2>1, <2>3 DEF CheckDns
<1>6. CheckSlipdReachable(h) = CheckSlipdReachable(k)
  BY <1>0 DEF CheckSlipdReachable
<1> QED BY <1>0, <1>1, <1>2, <1>3, <1>4, <1>5, <1>6
     DEF HostSeen, CaddySeen, RegistrySeen, TailscaleSeen, DnsSeen, SlipdSeen

\* A complete report without a failure is that of a clean host.
LEMMA FullReport ==
  ASSUME NEW checks, NEW h, ReportOK("emit", checks, h), \A c \in DOMAIN checks : checks[c] # "fail"
  PROVE  Clean(h)
<1>0. /\ HostSeen(checks, h) /\ UfwSeen(checks, h) /\ CaddySeen(checks, h) /\ RegistrySeen(checks, h)
      /\ TailscaleSeen(checks, h) /\ DnsSeen(checks, h) /\ SlipdSeen(checks, h)
  BY DEF ReportOK, AfterHost, AfterCaddy, AfterRegistry, AfterTls, AfterDns, Last
<1>1. ~Has(h, "disk_unknown") => ~Has(h, "disk_full")
  BY <1>0 DEF HostSeen, Seen, CheckDiskFree
<1>2. Uses(h, "dns01") /\ ~Has(h, "no_caddy_binary") => ~Has(h, "no_plugin")
  BY <1>0 DEF HostSeen, Seen, CheckCaddyDnsPlugin, RequiredDnsProvider, ParseCaddyModules
<1>3. ~Has(h, "caddy_down") /\ ~Has(h, "no_block") /\ ~Has(h, "conflict")
  <2>1. \A c \in {"caddy.reachable", "caddy.slip_server", "caddy.listener_conflict"} :
          CheckCaddyAdmin(h)[c] # "fail"
    BY <1>0 DEF CaddySeen, Seen
  <2>2. CheckCaddyAdmin(h)["caddy.reachable"] = IF Has(h, "caddy_down") THEN "fail" ELSE "pass"
    BY DEF CheckCaddyAdmin
  <2>3. CheckCaddyAdmin(h)["caddy.slip_server"]
          = IF Has(h, "caddy_down") \/ Has(h, "no_block") THEN "fail" ELSE "pass"
    BY DEF CheckCaddyAdmin
  <2>4. CheckCaddyAdmin(h)["caddy.listener_conflict"]
          = IF ~Has(h, "caddy_down") /\ Has(h, "conflict") THEN "fail" ELSE "pass"
    BY DEF CheckCaddyAdmin
  <2> QED BY <2>1, <2>2, <2>3, <2>4
<1>4. CollectRegistryHosts(h) =>
        ~Has(h, "registry_down") /\ (~Has(h, "registry_slow") => ~Has(h, "registry_auth"))
  <2>1. CheckRegistry(h)["registry.reachable"] # "fail" /\ CheckRegistry(h)["registry.auth"] # "fail"
    BY <1>0 DEF RegistrySeen, Seen
  <2>2. CollectRegistryHosts(h) => ~Has(h, "registry_down")
    BY <2>1 DEF CheckRegistry
  <2>3. CollectRegistryHosts(h) => 401 \notin RegistryAnswers(h)
    BY <2>1 DEF CheckRegistry
  <2>4. ~Has(h, "registry_down") /\ ~Has(h, "registry_slow") /\ Has(h, "registry_auth") =>
          401 \in RegistryAnswers(h)
    BY DEF RegistryAnswers
  <2> QED BY <2>2, <2>3, <2>4
<1>5. ASSUME Uses(h, "tailscale") \/ Uses(h, "ts_net")
      PROVE  /\ ~Has(h, "tailscaled_down") /\ ParseCertDomains(h) # {}
             /\ CheckCaddyUserPermission(h) /\ ClassifyManagerModule(h) # "fail"
  <2>1. \A c \in {"tailscale.daemon", "tailscale.https", "tailscale.caddy_user",
                  "tailscale.manager_module"} :
          c \in TailscaleChecks(h) /\ CheckTailscale(h)[c] # "fail"
    BY <1>0, <1>5, SomeTailscaleChecks DEF TailscaleSeen, Seen
  <2>2. Passes(~Has(h, "tailscaled_down")) # "fail"
    BY <2>1 DEF CheckTailscale
  <2>3. Passes(ParseCertDomains(h) # {}) # "fail"
    BY <2>1 DEF CheckTailscale
  <2>4. Passes(CheckCaddyUserPermission(h)) # "fail"
    BY <2>1 DEF CheckTailscale
  <2>5. ClassifyManagerModule(h) # "fail"
    BY <2>1 DEF CheckTailscale
  <2> QED BY <2>2, <2>3, <2>4, <2>5 DEF Passes
<1>13. Uses(h, "ts_net") => HostMatchesCertDomains(h)
  <2> SUFFICES ASSUME Uses(h, "ts_net")
               PROVE  HostMatchesCertDomains(h)
    OBVIOUS
  <2>1. /\ "tailscale.hostname_match" \in TailscaleChecks(h)
        /\ CheckTailscale(h)["tailscale.hostname_match"] # "fail"
    BY <1>0, SomeTailscaleChecks DEF TailscaleSeen, Seen, TailscaleNames
  <2>2. Passes(HostMatchesCertDomains(h)) # "fail"
    BY <2>1 DEF CheckTailscale
  <2> QED BY <2>2 DEF Passes
<1>6. Hosts(h) => ~Has(h, "resolver_down")
  <2>1. Hosts(h) => ClassifyDnsExpectation(h) # "fail"
    BY <1>0 DEF DnsSeen, Seen, CheckDns
  <2>2. Has(h, "resolver_down") => ClassifyDnsExpectation(h) = "fail"
    BY DEF ClassifyDnsExpectation, ResolveHost
  <2> QED BY <2>1, <2>2
<1>7. Uses(h, "token") => ~Has(h, "slipd_down") /\ ~Has(h, "bad_token")
  BY <1>0 DEF SlipdSeen, Seen, CheckSlipdReachable
<1>8. \/ Has(h, "ufw_off") \/ Has(h, "ufw_unreadable")
      \/ \E p \in {"any", "tcp", "udp"} : <<"bridge", p>> \in h.rules
  <2>1. CheckUfwBridgeDns(h) # "fail"
    BY <1>0 DEF UfwSeen, Seen
  <2>2. NetworkBridgeName(h) \subseteq {"bridge"}
    BY DEF NetworkBridgeName
  <2> QED BY <2>1, <2>2 DEF CheckUfwBridgeDns, ClassifyUfw
<1>9. Uses(h, "tailscale") \/ Uses(h, "ts_net") =>
        ~Has(h, "tailscaled_down") /\ ~Has(h, "no_cert_domain") /\ ~Has(h, "no_cert_permit")
  BY <1>5 DEF ParseCertDomains, CheckCaddyUserPermission
<1>14. Uses(h, "ts_net") => ~Has(h, "renamed")
  BY <1>13 DEF ParseCertDomains, HostMatchesCertDomains
<1>10. (Uses(h, "tailscale") \/ Uses(h, "ts_net")) /\ ~Has(h, "no_caddy_binary") => ~Has(h, "no_manager")
  BY <1>5 DEF ClassifyManagerModule, ModulePresentExact
<1>11. Certain(h) = {}
  BY <1>1, <1>2, <1>3, <1>4, <1>6, <1>7, <1>8, <1>9, <1>10, <1>14 DEF Certain, Has
<1>12. Uses(h, "ts_net") /\ ~Has(h, "no_caddy_binary") => PreflightTailscale(h)
  <2> SUFFICES ASSUME Uses(h, "ts_net"), ~Has(h, "no_caddy_binary")
               PROVE  PreflightTailscale(h)
    OBVIOUS
  <2>1. ModulePresentExact(h) = "pass"
    BY <1>10 DEF ModulePresentExact
  <2>2. TRUE \in HasCertManager(h)
    BY <2>1 DEF HasCertManager
  <2> QED BY <1>5, <1>13, <2>2 DEF PreflightTailscale
<1> QED BY <1>11, <1>12 DEF Clean

\* The checks of one group are added.
LEMMA GroupAdded ==
  ASSUME DocInv, UNCHANGED <<scn, host>>, NEW at, NEW checks, DocGoes(at, checks), doc.at # "done",
         scn.task = "doctor", at # "none",
         ReportOK(at, Joined(checks, doc.checks), Loaded(host))
  PROVE  DocInv'
<1>1. doc = [f \in DocFields |-> doc[f]] /\ doc.exit = Nil
  BY DEF DocInv
<1>2. /\ doc' = [f \in DocFields |-> doc'[f]] /\ doc'.at = at /\ doc'.exit = Nil
      /\ doc'.checks = Joined(checks, doc.checks)
  BY <1>1 DEF DocGoes, DocFields
<1>3. scn' = scn /\ host' = host /\ Loaded(host') = Loaded(host)
  OBVIOUS
<1>4. doc'.exit # 0
  BY <1>2, SetupAssumption
<1> QED BY <1>2, <1>3, <1>4 DEF DocInv

\* Two reports that agree on the checks of a group.
LEMMA GroupsKept ==
  ASSUME NEW f, NEW g, NEW h
  PROVE  LET k == Joined(f, g) IN
         /\ DOMAIN f \cap {"disk.free", "caddy.dns_plugin"} = {} /\ HostSeen(g, h) => HostSeen(k, h)
         /\ "ufw.bridge_dns" \notin DOMAIN f /\ UfwSeen(g, h) => UfwSeen(k, h)
         /\ DOMAIN f \cap {"caddy.reachable", "caddy.slip_server", "caddy.listener_conflict"} = {}
            /\ CaddySeen(g, h) => CaddySeen(k, h)
         /\ DOMAIN f \cap {"registry.reachable", "registry.auth"} = {} /\ RegistrySeen(g, h)
              => RegistrySeen(k, h)
         /\ DOMAIN f \cap TailscaleNames = {} /\ TailscaleSeen(g, h) => TailscaleSeen(k, h)
         /\ "dns.expectation" \notin DOMAIN f /\ DnsSeen(g, h) => DnsSeen(k, h)
<1> DEFINE k == Joined(f, g)
<1>1. \A c, v : c \notin DOMAIN f /\ Seen(g, c, v) => Seen(k, c, v)
  BY JoinedReport DEF Seen
<1> HIDE DEF k
<1>2. DOMAIN f \cap {"disk.free", "caddy.dns_plugin"} = {} /\ HostSeen(g, h) => HostSeen(k, h)
  BY <1>1 DEF HostSeen
<1>3. /\ "ufw.bridge_dns" \notin DOMAIN f /\ UfwSeen(g, h) => UfwSeen(k, h)
      /\ DOMAIN f \cap {"registry.reachable", "registry.auth"} = {} /\ RegistrySeen(g, h)
           => RegistrySeen(k, h)
      /\ "dns.expectation" \notin DOMAIN f /\ DnsSeen(g, h) => DnsSeen(k, h)
  BY <1>1 DEF UfwSeen, RegistrySeen, DnsSeen
<1>4. DOMAIN f \cap {"caddy.reachable", "caddy.slip_server", "caddy.listener_conflict"} = {}
      /\ CaddySeen(g, h) => CaddySeen(k, h)
  BY <1>1 DEF CaddySeen
<1>5. DOMAIN f \cap TailscaleNames = {} /\ TailscaleSeen(g, h) => TailscaleSeen(k, h)
  BY <1>1, SomeTailscaleChecks DEF TailscaleSeen
<1> QED BY <1>2, <1>3, <1>4, <1>5 DEF k

\* Doctor starts, or goes on to the next group.
LEMMA DoctorReports ==
  ASSUME DocInv, DoctorStart \/ DoctorChecks
  PROVE  DocInv'
<1> DEFINE h == Loaded(host)
           g == doc.checks
<1>0. UNCHANGED <<scn, host>> /\ ReportOK(doc.at, g, h)
  BY DEF DoctorStart, DoctorChecks, DocInv
<1>1. scn.task = "doctor" /\ doc.at # "done"
  BY DEF DoctorStart, DoctorChecks, DocInv
<1>2. ASSUME NEW at, NEW f, DocGoes(at, f), at # "none", ReportOK(at, Joined(f, g), h)
      PROVE  DocInv'
  BY <1>0, <1>1, <1>2, GroupAdded
<1> USE DEF AfterHost, AfterCaddy, AfterRegistry, AfterTls, AfterDns, Last
<1> HIDE DEF h, g
<1>3. CASE DoctorStart
  <2> DEFINE f == RunHostChecks(h)
  <2>1. DocGoes("caddy", f)
    BY <1>3 DEF DoctorStart, h
  <2>2. {"disk.free", "caddy.dns_plugin", "ufw.bridge_dns"} \subseteq DOMAIN f
    BY DEF RunHostChecks
  <2>3. /\ f["disk.free"] = CheckDiskFree(h) /\ f["caddy.dns_plugin"] = CheckCaddyDnsPlugin(h)
        /\ f["ufw.bridge_dns"] = CheckUfwBridgeDns(h)
    BY DEF RunHostChecks
  <2> HIDE DEF f
  <2>4. HostSeen(Joined(f, g), h) /\ UfwSeen(Joined(f, g), h)
    BY <2>2, <2>3, JoinedReport DEF HostSeen, UfwSeen
  <2>5. ReportOK("caddy", Joined(f, g), h)
    BY <2>4 DEF ReportOK, UfwSeen, Seen
  <2> QED BY <1>2, <2>1, <2>5
<1>4. CASE doc.at = "caddy" /\ DocGoes("registry", CheckCaddyAdmin(h))
  <2> DEFINE f == CheckCaddyAdmin(h)
  <2>1. DOMAIN f = {"caddy.reachable", "caddy.slip_server", "caddy.listener_conflict"}
    BY DEF CheckCaddyAdmin
  <2>2. CaddySeen(Joined(f, g), h)
    BY <2>1, JoinedReport DEF CaddySeen
  <2> HIDE DEF f
  <2>3. HostSeen(Joined(f, g), h) /\ UfwSeen(Joined(f, g), h)
    BY <1>0, <1>4, <2>1, GroupsKept DEF ReportOK
  <2>4. ReportOK("registry", Joined(f, g), h)
    BY <2>2, <2>3 DEF ReportOK, UfwSeen, Seen
  <2> QED BY <1>2, <1>4, <2>4 DEF f
<1>5. CASE doc.at = "registry" /\ DocGoes("tls", CheckRegistry(h))
  <2> DEFINE f == CheckRegistry(h)
  <2>1. DOMAIN f = {"registry.reachable", "registry.auth", "registry.manifest"}
    BY DEF CheckRegistry
  <2>2. RegistrySeen(Joined(f, g), h)
    BY <2>1, JoinedReport DEF RegistrySeen
  <2> HIDE DEF f
  <2>3. HostSeen(Joined(f, g), h) /\ UfwSeen(Joined(f, g), h) /\ CaddySeen(Joined(f, g), h)
    BY <1>0, <1>5, <2>1, GroupsKept DEF ReportOK
  <2>4. ReportOK("tls", Joined(f, g), h)
    BY <2>2, <2>3 DEF ReportOK, UfwSeen, Seen
  <2> QED BY <1>2, <1>5, <2>4 DEF f
<1>6. CASE doc.at = "tls" /\ DocGoes("dns", Joined(CheckTls(h), CheckTailscale(h)))
  <2> DEFINE t == CheckTailscale(h)
             f == Joined(CheckTls(h), t)
  <2>1. DOMAIN CheckTls(h) = {"tls.issuer", "tls.cert_expiry", "tls.acme_stuck"}
    BY DEF CheckTls
  <2>2. DOMAIN t \subseteq TailscaleNames /\ DOMAIN t = TailscaleChecks(h)
    BY SomeTailscaleChecks
  <2> HIDE DEF t
  <2>3. DOMAIN f = DOMAIN CheckTls(h) \cup DOMAIN t
    BY DEF Joined
  <2>4. \A c \in DOMAIN t : Seen(f, c, t[c])
    BY <2>1, <2>2, JoinedReport DEF TailscaleNames
  <2> HIDE DEF f
  <2>5. \A c \in DOMAIN t : Seen(Joined(f, g), c, t[c])
    BY <2>3, <2>4, JoinedReport DEF Seen
  <2>6. TailscaleSeen(Joined(f, g), h)
    BY <2>2, <2>5 DEF TailscaleSeen, t
  <2>7. /\ HostSeen(Joined(f, g), h) /\ UfwSeen(Joined(f, g), h) /\ CaddySeen(Joined(f, g), h)
        /\ RegistrySeen(Joined(f, g), h)
    <3>1. DOMAIN f \subseteq TailscaleNames \cup {"tls.issuer", "tls.cert_expiry", "tls.acme_stuck"}
      BY <2>1, <2>2, <2>3
    <3> QED BY <1>0, <1>6, <3>1, GroupsKept DEF ReportOK, TailscaleNames
  <2>8. ReportOK("dns", Joined(f, g), h)
    BY <2>6, <2>7 DEF ReportOK, UfwSeen, Seen
  <2> QED BY <1>2, <1>6, <2>8 DEF f, t
<1>7. CASE doc.at = "dns" /\ DocGoes("slipd", CheckDns(h))
  <2> DEFINE f == CheckDns(h)
  <2>1. DOMAIN f = {"dns.probe", "dns.expectation"}
    BY DEF CheckDns
  <2>2. DnsSeen(Joined(f, g), h)
    BY <2>1, JoinedReport DEF DnsSeen
  <2> HIDE DEF f
  <2>3. /\ HostSeen(Joined(f, g), h) /\ UfwSeen(Joined(f, g), h) /\ CaddySeen(Joined(f, g), h)
        /\ RegistrySeen(Joined(f, g), h) /\ TailscaleSeen(Joined(f, g), h)
    BY <1>0, <1>7, <2>1, GroupsKept DEF ReportOK, TailscaleNames
  <2>4. ReportOK("slipd", Joined(f, g), h)
    BY <2>2, <2>3 DEF ReportOK, UfwSeen, Seen
  <2> QED BY <1>2, <1>7, <2>4 DEF f
<1>8. CASE doc.at = "slipd" /\ DocGoes("fix", [c \in {"slipd.reachable"} |-> CheckSlipdReachable(h)])
  <2> DEFINE f == [c \in {"slipd.reachable"} |-> CheckSlipdReachable(h)]
  <2>1. DOMAIN f = {"slipd.reachable"} /\ f["slipd.reachable"] = CheckSlipdReachable(h)
    OBVIOUS
  <2> HIDE DEF f
  <2>2. SlipdSeen(Joined(f, g), h)
    BY <2>1, JoinedReport DEF SlipdSeen
  <2>3. /\ HostSeen(Joined(f, g), h) /\ UfwSeen(Joined(f, g), h) /\ CaddySeen(Joined(f, g), h)
        /\ RegistrySeen(Joined(f, g), h) /\ TailscaleSeen(Joined(f, g), h) /\ DnsSeen(Joined(f, g), h)
    BY <1>0, <1>8, <2>1, GroupsKept DEF ReportOK, TailscaleNames
  <2>4. ReportOK("fix", Joined(f, g), h)
    BY <2>2, <2>3 DEF ReportOK, UfwSeen, Seen
  <2> QED BY <1>2, <1>8, <2>4 DEF f
<1> QED BY <1>3, <1>4, <1>5, <1>6, <1>7, <1>8 DEF DoctorChecks, h

\* Doctor ends, or goes on with the report as it is.
LEMMA DoctorGoesOn ==
  ASSUME DocInv, DoctorTimeout \/ DoctorFix \/ DoctorEmit
  PROVE  DocInv'
<1>0. /\ UNCHANGED <<scn, host>> /\ ReportOK(doc.at, doc.checks, Loaded(host))
      /\ doc = [f \in DocFields |-> doc[f]] /\ doc.at \notin {"none", "done"}
  BY DEF DoctorTimeout, DoctorFix, DoctorEmit, DocInv
<1>1. scn.task = "doctor" /\ doc.exit = Nil /\ Nil # 0 /\ Loaded(host') = Loaded(host)
  BY <1>0, SetupAssumption DEF DocInv
<1>2. ASSUME NEW e, doc' = [doc EXCEPT !.at = "done", !.exit = e], e = 0 => Clean(Loaded(host))
      PROVE  DocInv'
  <2>1. doc' = [f \in DocFields |-> doc'[f]] /\ doc'.at = "done" /\ doc'.exit = e
    BY <1>0, <1>2 DEF DocFields
  <2>2. ReportOK("done", doc'.checks, Loaded(host))
    BY DEF ReportOK, AfterHost, AfterCaddy, AfterRegistry, AfterTls, AfterDns, Last
  <2> QED BY <1>0, <1>1, <1>2, <2>1, <2>2 DEF DocInv
<1>3. CASE DoctorTimeout
  <2>1. AggregateExit(doc.checks, TRUE) # 0
    BY DEF AggregateExit
  <2>2. doc' = [doc EXCEPT !.at = "done", !.exit = AggregateExit(doc.checks, TRUE)]
    BY <1>3 DEF DoctorTimeout
  <2> QED BY <1>2, <2>1, <2>2
<1>4. CASE DoctorEmit
  <2>1. AggregateExit(doc.checks, FALSE) = 0 => \A c \in DOMAIN doc.checks : doc.checks[c] # "fail"
    BY DEF AggregateExit
  <2>2. ReportOK("emit", doc.checks, Loaded(host))
    BY <1>0, <1>4 DEF DoctorEmit
  <2>3. AggregateExit(doc.checks, FALSE) = 0 => Clean(Loaded(host))
    BY <2>1, <2>2, FullReport
  <2> QED BY <1>2, <1>4, <2>3 DEF DoctorEmit
<1>5. CASE DoctorFix
  <2>1. \/ \E e \in {1, 2} : doc' = [doc EXCEPT !.at = "done", !.exit = e]
        \/ \E p : doc' = [doc EXCEPT !.at = "apply", !.plan = p]
        \/ doc' = [doc EXCEPT !.at = "emit"]
    BY <1>5 DEF DoctorFix
  <2>2. CASE \E e \in {1, 2} : doc' = [doc EXCEPT !.at = "done", !.exit = e]
    <3>1. PICK e \in {1, 2} : doc' = [doc EXCEPT !.at = "done", !.exit = e]
      BY <2>2
    <3>2. e # 0
      OBVIOUS
    <3> QED BY <1>2, <3>1, <3>2
  <2>3. CASE \/ \E p : doc' = [doc EXCEPT !.at = "apply", !.plan = p]
             \/ doc' = [doc EXCEPT !.at = "emit"]
    <3>1. /\ doc' = [f \in DocFields |-> doc'[f]] /\ doc'.at \in {"apply", "emit"}
          /\ doc'.exit = doc.exit /\ doc'.checks = doc.checks
      BY <1>0, <2>3 DEF DocFields
    <3>2. doc.at = "fix"
      BY <1>5 DEF DoctorFix
    <3>3. ReportOK(doc'.at, doc.checks, Loaded(host))
      BY <1>0, <3>1, <3>2
      DEF ReportOK, AfterHost, AfterCaddy, AfterRegistry, AfterTls, AfterDns, Last
    <3> QED BY <1>0, <1>1, <3>1, <3>3 DEF DocInv
  <2> QED BY <2>1, <2>2, <2>3
<1> QED BY <1>3, <1>4, <1>5

\* The firewall rule is added, and its check taken anew.
LEMMA DoctorRepairs ==
  ASSUME DocInv, DoctorApply \/ DoctorRecheck
  PROVE  DocInv'
<1>0. /\ scn' = scn /\ ReportOK(doc.at, doc.checks, Loaded(host))
      /\ doc = [f \in DocFields |-> doc[f]] /\ doc.at \in {"apply", "recheck"}
  BY DEF DoctorApply, DoctorRecheck, DocInv
<1>1. /\ scn.task = "doctor" /\ doc.exit = Nil /\ Nil # 0 /\ host = [f \in HostFields |-> host[f]]
  BY <1>0, SetupAssumption DEF DocInv
<1> DEFINE h == Loaded(host)
<1>2. CASE DoctorApply
  <2>1. /\ host' = [f \in HostFields |-> host'[f]] /\ host'.faults = host.faults
        /\ host'.uses = host.uses
    BY <1>1, <1>2 DEF DoctorApply, HostFields
  <2>2. Loaded(host').faults = h.faults /\ Loaded(host').uses = h.uses
    <3>1. /\ h.faults = host.faults
          /\ h.uses = (IF "no_config" \in host.faults THEN host.uses \cap {"token"} ELSE host.uses)
      BY <1>1, LoadedHost
    <3>2. /\ Loaded(host').faults = host'.faults
          /\ Loaded(host').uses = (IF "no_config" \in host'.faults THEN host'.uses \cap {"token"}
                                   ELSE host'.uses)
      BY <2>1, LoadedHost
    <3> QED BY <2>1, <3>1, <3>2
  <2>3. /\ doc' = [f \in DocFields |-> doc'[f]] /\ doc'.at = "recheck" /\ doc'.exit = Nil
        /\ doc'.checks = doc.checks
    BY <1>0, <1>1, <1>2 DEF DoctorApply, DocFields
  <2>4. /\ HostSeen(doc.checks, h) /\ CaddySeen(doc.checks, h) /\ RegistrySeen(doc.checks, h)
        /\ TailscaleSeen(doc.checks, h) /\ DnsSeen(doc.checks, h) /\ SlipdSeen(doc.checks, h)
        /\ "ufw.bridge_dns" \in DOMAIN doc.checks
    BY <1>0 DEF ReportOK, AfterHost, AfterCaddy, AfterRegistry, AfterTls, AfterDns, Last
  <2> DEFINE k == Loaded(host')
  <2> HIDE DEF h, k
  <2>5. /\ HostSeen(doc.checks, k) /\ CaddySeen(doc.checks, k) /\ RegistrySeen(doc.checks, k)
        /\ TailscaleSeen(doc.checks, k) /\ DnsSeen(doc.checks, k) /\ SlipdSeen(doc.checks, k)
    BY <2>2, <2>4, RulesUnseen DEF k
  <2>6. ReportOK("recheck", doc.checks, k)
    BY <2>4, <2>5 DEF ReportOK
  <2> QED BY <1>0, <1>1, <2>1, <2>3, <2>6 DEF DocInv, k
<1>3. CASE DoctorRecheck
  <2>1. host' = host /\ doc.at = "recheck"
    BY <1>3 DEF DoctorRecheck
  <2> DEFINE g == [doc.checks EXCEPT !["ufw.bridge_dns"] = CheckUfwBridgeDns(h)]
  <2>2. /\ doc' = [f \in DocFields |-> doc'[f]] /\ doc'.at = "emit" /\ doc'.exit = Nil
        /\ doc'.checks = g
    BY <1>0, <1>1, <1>3 DEF DoctorRecheck, DocFields
  <2>3. /\ HostSeen(doc.checks, h) /\ CaddySeen(doc.checks, h) /\ RegistrySeen(doc.checks, h)
        /\ TailscaleSeen(doc.checks, h) /\ DnsSeen(doc.checks, h) /\ SlipdSeen(doc.checks, h)
        /\ "ufw.bridge_dns" \in DOMAIN doc.checks
    BY <1>0, <2>1 DEF ReportOK, AfterHost, AfterCaddy, AfterRegistry, AfterTls, AfterDns, Last
  <2>4. /\ \A c, v : c # "ufw.bridge_dns" /\ Seen(doc.checks, c, v) => Seen(g, c, v)
        /\ Seen(g, "ufw.bridge_dns", CheckUfwBridgeDns(h))
    BY <2>3 DEF Seen
  <2> HIDE DEF g, h
  <2>5. HostSeen(g, h) /\ UfwSeen(g, h) /\ RegistrySeen(g, h) /\ DnsSeen(g, h) /\ SlipdSeen(g, h)
    BY <2>3, <2>4 DEF HostSeen, UfwSeen, RegistrySeen, DnsSeen, SlipdSeen
  <2>6. CaddySeen(g, h) /\ TailscaleSeen(g, h)
    BY <2>3, <2>4, SomeTailscaleChecks DEF CaddySeen, TailscaleSeen, TailscaleNames
  <2>7. ReportOK("emit", g, h)
    BY <2>5, <2>6 DEF ReportOK, UfwSeen, Seen
  <2> QED BY <1>0, <1>1, <2>1, <2>2, <2>7 DEF DocInv, h
<1> QED BY <1>2, <1>3

\* A doctor that exits 0 ran on a host without any of the faults that its checks can
\* establish, on which the reconcile loop's preflight passes: for every host, whatever
\* the repair adds, and however often the host goes down meanwhile.
THEOREM CleanBillIsTrue == Spec => []CleanBill
<1>1. DocInv => CleanBill
  BY DEF DocInv, CleanBill, Clean
<1>2. Init => DocInv
  <2> SUFFICES ASSUME Init
               PROVE  DocInv
    OBVIOUS
  <2>1. /\ doc = [f \in DocFields |-> doc[f]] /\ doc.at = "none" /\ doc.exit = Nil /\ scn \in Scenarios
    BY DEF Init, NoDoc, DocFields
  <2>2. scn.task = "doctor" => host = [f \in HostFields |-> host[f]]
    BY SetupAssumption DEF Init, HostFields
  <2>3. ReportOK("none", doc.checks, Loaded(host))
    BY DEF ReportOK, AfterHost, AfterCaddy, AfterRegistry, AfterTls, AfterDns, Last
  <2> QED BY <2>1, <2>2, <2>3, SetupAssumption DEF DocInv
<1>3. DocInv /\ [Next]_vars => DocInv'
  <2> SUFFICES ASSUME DocInv, [Next]_vars
               PROVE  DocInv'
    OBVIOUS
  <2>1. CASE DoctorStart \/ DoctorChecks
    BY <2>1, DoctorReports
  <2>2. CASE DoctorTimeout \/ DoctorFix \/ DoctorEmit
    BY <2>2, DoctorGoesOn
  <2>3. CASE DoctorApply \/ DoctorRecheck
    BY <2>3, DoctorRepairs
  <2>4. CASE \/ Run \/ InitStep \/ LoadConfig \/ Bootstrap \/ Respawn \/ Repair \/ Kill \/ Reboot
             \/ KeyCommand \/ KeyAnswer \/ KeyLost \/ Finished \/ UNCHANGED vars
    <3>1. UNCHANGED <<scn, host, doc>>
      BY <2>4 DEF Run, InitStep, WriteSecret, RenameSecret, WriteConfig, WriteUnit, Enable, Poll,
           RestartService, RunVerification, EmitManifest, LoadConfig, Bootstrap, Respawn, Repair, Kill,
           Reboot, KeyCommand, KeyAnswer, KeyLost, Finished, vars
    <3> QED BY <3>1 DEF DocInv
  <2> QED BY <2>1, <2>2, <2>3, <2>4 DEF Next
<1> QED BY <1>1, <1>2, <1>3, PTL DEF Spec
=============================================================================
