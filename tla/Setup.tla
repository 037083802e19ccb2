-------------------------------- MODULE Setup --------------------------------
(***************************************************************************)
(* A server from `slip server init` to its first deploy: the files init    *)
(* writes, the unit systemd runs slipd from, what slipd does at start, the *)
(* verification of the result, the deploy key of an app, and `slip doctor` *)
(* on the finished host.                                                   *)
(***************************************************************************)
EXTENDS Doctor

CONSTANTS
  Nil,
  Secrets,     \* admin secrets and deploy keys, drawn at random
  Machines,    \* hosts that doctor runs on
  MaxEvents,   \* bound: processes killed and hosts rebooted
  Scenarios    \* what may happen in each of the instances that are explored

Tasks == {"init", "key", "doctor"}
Broken == {"caddy", "conflict", "config"}
Confs == [domain : BOOLEAN, extra : BOOLEAN, ok : BOOLEAN]

ASSUME SetupAssumption ==
  /\ Cardinality(Secrets) >= 3 /\ Nil # 0 /\ Nil \notin Confs
  /\ \A h \in Machines : h = [f \in {"faults", "uses", "cli", "runtime", "rules"} |-> h[f]]
  /\ \A e \in Scenarios :
       e.task \in Tasks /\ e.broken \subseteq Broken /\ e.events \subseteq {"kill", "reboot", "lost"}

VARIABLES
  scn,      \* the scenario of this behaviour
  etc,      \* the files: admin secret, its temp file, slip.toml, unit, manifest
  svc,      \* slipd.service and the process it runs
  caddy,    \* up, conflict: another server has the port; block, hook: slip's config
  run,      \* the init in flight or the last one
  shown,    \* the admin secret the operator was shown last
  key,      \* the deploy key of the app and the one CI signs with
  host,     \* the host as doctor sees it
  doc,      \* the doctor in flight
  events    \* kills and reboots so far

vars == <<scn, etc, svc, caddy, run, shown, key, host, doc, events>>
initVars == <<etc, svc, caddy, run, shown>>

\* What init writes to slip.toml: domain, and settings it has no option for.
Conf(domain, extra, ok) == [domain |-> domain, extra |-> extra, ok |-> ok]

NoRun == [at |-> "none", opts |-> Nil, conf |-> Nil, wrote |-> FALSE, failed |-> FALSE, exit |-> Nil]
NoDoc == [at |-> "none", checks |-> <<>>, plan |-> {}, exit |-> Nil]
NoKey == [at |-> "none", new |-> Nil]

\* A server before its first init, or one that serves and whose CI signs with
\* the admin secret, as it does until an app has a key.
Init ==
  /\ scn \in Scenarios
  /\ LET s == CHOOSE s \in Secrets : TRUE IN
       IF scn.task = "init"
       THEN /\ etc = [env |-> Nil, tmp |-> FALSE, manifest |-> Nil, unit |-> FALSE,
                      config |-> IF "config" \in scn.broken THEN Conf(FALSE, FALSE, FALSE) ELSE Nil]
            /\ svc = [state |-> "inactive", enabled |-> FALSE, secret |-> Nil, conf |-> Nil]
            /\ shown = Nil
            /\ key = [store |-> Nil, ci |-> Nil, call |-> NoKey, sure |-> FALSE]
       ELSE /\ etc = [env |-> s, tmp |-> FALSE, manifest |-> Nil, unit |-> TRUE,
                      config |-> Conf(TRUE, FALSE, TRUE)]
            /\ svc = [state |-> "serving", enabled |-> TRUE, secret |-> s,
                      conf |-> Conf(TRUE, FALSE, TRUE)]
            /\ shown = s
            /\ key = [store |-> Nil, ci |-> s, call |-> NoKey, sure |-> TRUE]
  /\ caddy = [up |-> "caddy" \notin scn.broken, conflict |-> "conflict" \in scn.broken,
              block |-> scn.task # "init", hook |-> scn.task # "init"]
  /\ run = NoRun
  /\ host \in IF scn.task = "doctor" THEN Machines ELSE {Nil}
  /\ doc = NoDoc
  /\ events = 0

-----------------------------------------------------------------------------
(* slip server init.                                                       *)

Forces(o, target) == target \in o.force

Goes(at) == run' = [run EXCEPT !.at = at]

Exits(code) == run' = [run EXCEPT !.at = "done", !.exit = code]

\* parse_manifest, of the file --from-file names.
ParseManifest(o) == IF o.from THEN {etc.manifest} ELSE {}

\* resolve_domain and the others: options, then the manifest.
Resolved(o) ==
  Conf(o.domain \/ (\E m \in ParseManifest(o) : m.domain), \E m \in ParseManifest(o) : m.extra, TRUE)

\* An operator runs init, again until it succeeds.
Run ==
  /\ scn.task = "init"
  /\ run.at = "none" \/ (run.at = "done" /\ run.exit # 0)
  /\ \E o \in scn.opts :
       /\ o.from => etc.manifest # Nil
       /\ run' = [NoRun EXCEPT !.at = "secret", !.opts = o, !.conf = Resolved(o)]
  /\ UNCHANGED <<scn, etc, svc, caddy, shown, key, host, doc, events>>

\* write_env_file: a temp file of a fixed name, created exclusively.
WriteSecret ==
  LET forced == Forces(run.opts, "secret") \/ run.opts.from IN
  /\ run.at = "secret"
  /\ \/ etc.env # Nil /\ ~forced /\ Goes("config") /\ UNCHANGED etc
     \/ /\ etc.env = Nil \/ forced
        /\ ~etc.tmp
        /\ etc' = [etc EXCEPT !.tmp = TRUE]
        /\ Goes("rename")
     \/ (etc.env = Nil \/ forced) /\ etc.tmp /\ Exits(1) /\ UNCHANGED etc
  /\ UNCHANGED <<scn, svc, caddy, shown, key, host, doc, events>>

RenameSecret ==
  /\ run.at = "rename"
  /\ \E s \in Secrets \ {etc.env} : etc' = [etc EXCEPT !.env = s, !.tmp = FALSE]
  /\ run' = [run EXCEPT !.at = "config", !.wrote = TRUE]
  /\ UNCHANGED <<scn, svc, caddy, shown, key, host, doc, events>>

\* write_config, unless there is one; then a new secret is printed.
WriteConfig ==
  /\ run.at = "config"
  /\ etc' = IF etc.config # Nil /\ ~Forces(run.opts, "config") THEN etc
            ELSE [etc EXCEPT !.config = run.conf]
  /\ shown' = IF run.wrote THEN etc.env ELSE shown
  /\ Goes(IF run.opts.systemd THEN "unit" ELSE "verify")
  /\ UNCHANGED <<scn, svc, caddy, key, host, doc, events>>

\* write_unit: a unit that differs is overwritten as well.
WriteUnit ==
  /\ run.at = "unit"
  /\ etc' = [etc EXCEPT !.unit = TRUE]
  /\ Goes("enable")
  /\ UNCHANGED <<scn, svc, caddy, shown, key, host, doc, events>>

\* A start reads the EnvironmentFile; slipd then reads slip.toml.
Started(s) == [s EXCEPT !.state = "starting", !.secret = etc.env, !.conf = Nil]

Active(s) == s.state \in {"starting", "booting", "serving"}

\* Mutant of Enable: the unit is enabled for the next boot only.
EnableLater ==
  /\ run.at = "enable"
  /\ svc' = [svc EXCEPT !.enabled = TRUE]
  /\ Goes("poll")
  /\ UNCHANGED <<scn, etc, caddy, shown, key, host, doc, events>>

\* install_and_start_service: enable --now starts a unit that does not run.
Enable ==
  /\ run.at = "enable"
  /\ svc' = [IF Active(svc) THEN svc ELSE Started(svc) EXCEPT !.enabled = TRUE]
  /\ Goes("poll")
  /\ UNCHANGED <<scn, etc, caddy, shown, key, host, doc, events>>

\* poll_service_active: a unit is active as soon as its process is there.
Poll ==
  /\ run.at \in {"poll", "repoll"}
  /\ \/ /\ Active(svc)
        /\ Goes(IF run.at = "poll" /\ Forces(run.opts, "service") THEN "restart" ELSE "verify")
     \/ ~Active(svc) /\ Exits(5)
  /\ UNCHANGED <<scn, etc, svc, caddy, shown, key, host, doc, events>>

\* restart_service, only with --force=service.
RestartService ==
  /\ run.at = "restart"
  /\ svc' = Started(svc)
  /\ Goes("repoll")
  /\ UNCHANGED <<scn, etc, caddy, shown, key, host, doc, events>>

\* The checks of the verification ask Caddy at its default address, whatever
\* slip.toml says.
VerifyCaddyReachable == IF caddy.up THEN "pass" ELSE "fail"
\* Any success will do: where no server is called slip Caddy may answer null.
VerifySlipServerBlock ==
  IF ~caddy.up THEN {"fail"} ELSE IF caddy.block THEN {"pass"} ELSE {"pass", "fail"}
VerifyDeployWebhookRoute == IF caddy.up /\ caddy.hook THEN "pass" ELSE "fail"
VerifyTlsPolicy == IF caddy.up /\ caddy.hook THEN "pass" ELSE "warn"
VerifyRuntimeSocket == {"pass", "warn"}
VerifySlipdActive == IF Active(svc) THEN "pass" ELSE "fail"
VerifyWebhookHttps == IF caddy.up /\ caddy.hook THEN "pass" ELSE "fail"

Verdicts(check) ==
  CASE check = "verify" -> {VerifyCaddyReachable}
    [] check = "v_block" -> VerifySlipServerBlock
    [] check = "v_hook" -> {VerifyDeployWebhookRoute}
    [] check = "v_tls" -> {VerifyTlsPolicy}
    [] check = "v_socket" -> VerifyRuntimeSocket
    [] check = "v_active" -> {VerifySlipdActive}
    [] check = "v_https" -> {VerifyWebhookHttps}

Checks == {"verify", "v_block", "v_hook", "v_tls", "v_socket", "v_active", "v_https"}

\* Which check follows: those of the domain and of the unit only if there is one.
AfterCheck(check) ==
  CASE check = "verify" -> "v_block"
    [] check = "v_block" -> IF run.conf.domain THEN "v_hook" ELSE "v_socket"
    [] check = "v_hook" -> "v_tls"
    [] check = "v_tls" -> "v_socket"
    [] check = "v_socket" ->
         IF run.opts.systemd THEN "v_active" ELSE IF run.conf.domain THEN "v_https" ELSE "manifest"
    [] check = "v_active" -> IF run.conf.domain THEN "v_https" ELSE "manifest"
    [] check = "v_https" -> "manifest"

\* Mutant of RunVerification: what fails is a warning.
RunVerificationWarns ==
  /\ run.at \in Checks
  /\ Goes(IF run.opts.skip THEN "manifest" ELSE AfterCheck(run.at))
  /\ UNCHANGED <<scn, etc, svc, caddy, shown, key, host, doc, events>>

\* run_verification, one check after the other.
RunVerification ==
  /\ run.at \in Checks
  /\ IF run.opts.skip THEN Goes("manifest")
     ELSE \E v \in Verdicts(run.at) :
            run' = [run EXCEPT !.at = AfterCheck(run.at), !.failed = @ \/ v = "fail"]
  /\ UNCHANGED <<scn, etc, svc, caddy, shown, key, host, doc, events>>

\* emit_manifest, on failure too, unless there is one; it may fail.
EmitManifest ==
  /\ run.at = "manifest"
  /\ \/ etc' = IF etc.manifest # Nil /\ ~Forces(run.opts, "config") THEN etc
               ELSE [etc EXCEPT !.manifest = run.conf]
     \/ UNCHANGED etc
  /\ Exits(IF run.failed THEN 5 ELSE 0)
  /\ UNCHANGED <<scn, svc, caddy, shown, key, host, doc, events>>

InitStep ==
  \/ WriteSecret \/ RenameSecret \/ WriteConfig \/ WriteUnit \/ Enable \/ Poll
  \/ RestartService \/ RunVerification \/ EmitManifest

-----------------------------------------------------------------------------
(* systemd and slipd.                                                      *)

\* An exit on failure is followed by a restart, except after status 78.
LoadConfig ==
  /\ svc.state = "starting"
  /\ svc' = IF etc.config # Nil /\ etc.config.ok
              THEN [svc EXCEPT !.state = "booting", !.conf = etc.config]
              ELSE [svc EXCEPT !.state = "waiting"]
  /\ UNCHANGED <<scn, etc, caddy, run, shown, key, host, doc, events>>

\* bootstrap_deploy: the webhook route, if a domain is configured.
HookAdded(c, conf) == [c EXCEPT !.hook = @ \/ conf.domain]

\* Caddy bootstrap and the webhook route; another server on the port is the
\* configuration error that systemd must not retry.
Bootstrap ==
  /\ svc.state = "booting"
  /\ IF ~caddy.up THEN svc' = [svc EXCEPT !.state = "waiting"] /\ UNCHANGED caddy
     ELSE IF caddy.conflict THEN svc' = [svc EXCEPT !.state = "failed"] /\ UNCHANGED caddy
     ELSE /\ svc' = [svc EXCEPT !.state = "serving"]
          /\ caddy' = HookAdded([caddy EXCEPT !.block = TRUE], svc.conf)
  /\ UNCHANGED <<scn, etc, run, shown, key, host, doc, events>>

Respawn ==
  /\ svc.state = "waiting"
  /\ svc' = Started(svc)
  /\ UNCHANGED <<scn, etc, caddy, run, shown, key, host, doc, events>>

\* The operator repairs what is broken.
Repair ==
  /\ \/ ~caddy.up /\ caddy' = [caddy EXCEPT !.up = TRUE] /\ UNCHANGED etc
     \/ caddy.conflict /\ caddy' = [caddy EXCEPT !.conflict = FALSE] /\ UNCHANGED etc
     \/ /\ etc.config # Nil /\ ~etc.config.ok
        /\ etc' = [etc EXCEPT !.config.ok = TRUE]
        /\ UNCHANGED caddy
  /\ UNCHANGED <<scn, svc, run, shown, key, host, doc, events>>

\* init is killed, between any two of its steps.
Kill ==
  /\ "kill" \in scn.events /\ events < MaxEvents
  /\ run.at \notin {"none", "done"}
  /\ Exits(1)
  /\ events' = events + 1
  /\ UNCHANGED <<scn, etc, svc, caddy, shown, key, host, doc>>

\* The host goes down and comes up; Caddy starts without slip's config.
Reboot ==
  /\ "reboot" \in scn.events /\ events < MaxEvents
  /\ svc' = IF svc.enabled THEN Started(svc) ELSE [svc EXCEPT !.state = "inactive"]
  /\ caddy' = [caddy EXCEPT !.block = FALSE, !.hook = FALSE]
  /\ run' = IF run.at \in {"none", "done"} THEN run ELSE [run EXCEPT !.at = "done", !.exit = 1]
  /\ events' = events + 1
  /\ UNCHANGED <<scn, etc, shown, key, host, doc>>

-----------------------------------------------------------------------------
(* Deploy keys.                                                            *)

\* management_auth: the secret slipd was started with.
ManagementAuth(token) == svc.state = "serving" /\ token = svc.secret

\* resolve_secret: the deploy key of the app, or else the admin secret.
ResolveSecret == IF key.store # Nil THEN key.store ELSE svc.secret

\* verify_signature of a webhook that CI signs.
VerifySignature == svc.state = "serving" /\ key.ci = ResolveSecret

\* verify_preview_auth: the admin secret, or a signature.
VerifyPreviewAuth(token) == ManagementAuth(token) \/ VerifySignature

\* Mutant of SetDeployKey: an existing key is answered with a new one.
SetDeployKeyAnew(rotate) ==
  \E k \in Secrets \ {key.store, svc.secret} :
    key' = [key EXCEPT !.store = IF @ = Nil \/ rotate THEN k ELSE @,
                       !.call.new = k, !.call.at = "answer",
                       !.sure = @ /\ key.store # Nil /\ ~rotate]

\* handle_set_deploy_key: a new key if there is none or on rotate; a key that
\* is kept is not told.
SetDeployKey(rotate) ==
  IF key.store # Nil /\ ~rotate THEN key' = [key EXCEPT !.call.new = Nil, !.call.at = "answer"]
  ELSE \E k \in Secrets \ {key.store, svc.secret} :
         key' = [key EXCEPT !.store = k, !.call.new = k, !.call.at = "answer", !.sure = FALSE]

\* slip key --gh: the request, with the token the operator has.
KeyCommand ==
  /\ scn.task = "key" /\ key.call.at = "none" /\ ManagementAuth(shown)
  /\ \E rotate \in BOOLEAN : SetDeployKey(rotate)
  /\ UNCHANGED <<scn, initVars, host, doc, events>>

\* key_command on the answer: gh secret set, with a key that it was told.
KeyAnswer ==
  /\ key.call.at = "answer"
  /\ key' = [key EXCEPT !.call = NoKey,
                        !.ci = IF key.call.new # Nil THEN key.call.new ELSE @,
                        !.sure = @ \/ key.call.new # Nil]
  /\ UNCHANGED <<scn, initVars, host, doc, events>>

\* The answer does not arrive, or gh fails.
KeyLost ==
  /\ key.call.at = "answer"
  /\ "lost" \in scn.events /\ events < MaxEvents
  /\ key' = [key EXCEPT !.call = NoKey]
  /\ events' = events + 1
  /\ UNCHANGED <<scn, initVars, host, doc>>

-----------------------------------------------------------------------------
(* slip doctor.                                                            *)

DocGoes(at, checks) == doc' = [doc EXCEPT !.at = at, !.checks = Joined(checks, doc.checks)]

\* Config and host checks, which no deadline bounds.
DoctorStart ==
  /\ scn.task = "doctor" /\ doc.at = "none"
  /\ DocGoes("caddy", RunHostChecks(Loaded(host)))
  /\ UNCHANGED <<scn, initVars, key, host, events>>

\* run_slipd_checks, in order.
DoctorChecks ==
  LET h == Loaded(host) IN
  /\ \/ doc.at = "caddy" /\ DocGoes("registry", CheckCaddyAdmin(h))
     \/ doc.at = "registry" /\ DocGoes("tls", CheckRegistry(h))
     \/ doc.at = "tls" /\ DocGoes("dns", Joined(CheckTls(h), CheckTailscale(h)))
     \/ doc.at = "dns" /\ DocGoes("slipd", CheckDns(h))
     \/ doc.at = "slipd" /\ DocGoes("fix", [c \in {"slipd.reachable"} |-> CheckSlipdReachable(h)])
  /\ UNCHANGED <<scn, initVars, key, host, events>>

\* The deadline ends the checks of services; the report is incomplete.
DoctorTimeout ==
  /\ doc.at \in {"caddy", "registry", "tls", "dns", "slipd"}
  /\ doc' = [doc EXCEPT !.at = "done", !.exit = AggregateExit(doc.checks, TRUE)]
  /\ UNCHANGED <<scn, initVars, key, host, events>>

\* run_fix: nothing to do without a failure it can repair; root, and a yes or a
\* terminal that confirms.
DoctorFix ==
  LET plan == IF AggregateExit(doc.checks, FALSE) = 0 THEN {} ELSE PlanFixes(doc.checks, host)
      args == scn.fix IN
  /\ doc.at = "fix"
  /\ IF "fix" \in args /\ plan # {} /\ "root" \notin args
     THEN doc' = [doc EXCEPT !.at = "done", !.exit = 1]
     ELSE IF "fix" \in args /\ plan # {} /\ args \cap {"yes", "tty"} = {}
     THEN doc' = [doc EXCEPT !.at = "done", !.exit = 2]
     ELSE IF "fix" \in args /\ plan # {} /\ "dry" \notin args
     THEN \/ doc' = [doc EXCEPT !.at = "apply", !.plan = plan]
          \/ "yes" \notin args /\ doc' = [doc EXCEPT !.at = "emit"]
     ELSE doc' = [doc EXCEPT !.at = "emit"]
  /\ UNCHANGED <<scn, initVars, key, host, events>>

\* The rule is added unless it is there by now; it may fail.
DoctorApply ==
  /\ doc.at = "apply"
  /\ host' \in {host} \cup {[host EXCEPT !.rules = @ \cup {UfwAllow(b)}] :
                              b \in {c \in doc.plan : ClassifyUfw({c}, host) # "pass"}}
  /\ doc' = [doc EXCEPT !.at = "recheck"]
  /\ UNCHANGED <<scn, initVars, key, events>>

\* Only the firewall check is taken anew.
DoctorRecheck ==
  /\ doc.at = "recheck"
  /\ doc' = [doc EXCEPT !.at = "emit", !.checks["ufw.bridge_dns"] = CheckUfwBridgeDns(Loaded(host))]
  /\ UNCHANGED <<scn, initVars, key, host, events>>

DoctorEmit ==
  /\ doc.at = "emit"
  /\ doc' = [doc EXCEPT !.at = "done", !.exit = AggregateExit(doc.checks, FALSE)]
  /\ UNCHANGED <<scn, initVars, key, host, events>>

Finished ==
  /\ \/ scn.task = "init" /\ run.at = "done" /\ run.exit = 0
     \/ scn.task = "key" /\ key.call.at = "none"
     \/ scn.task = "doctor" /\ doc.at = "done"
  /\ UNCHANGED vars

Next ==
  \/ Run \/ InitStep \/ LoadConfig \/ Bootstrap \/ Respawn \/ Repair \/ Kill \/ Reboot
  \/ KeyCommand \/ KeyAnswer \/ KeyLost
  \/ DoctorStart \/ DoctorChecks \/ DoctorTimeout \/ DoctorFix \/ DoctorApply \/ DoctorRecheck
  \/ DoctorEmit \/ Finished

Spec == Init /\ [][Next]_vars

\* A process goes on, systemd restarts what it should, and the operator repairs
\* what is broken and runs init again until it reports success; slipd starts in
\* less time than passes between two inits, so that one which restarts it each
\* time does not always overtake it.
FairSpec ==
  /\ Spec
  /\ WF_vars(Run) /\ WF_vars(InitStep) /\ WF_vars(Repair)
  /\ SF_vars(LoadConfig) /\ SF_vars(Bootstrap) /\ WF_vars(Respawn)

-----------------------------------------------------------------------------
(* What the commands promise.                                              *)

\* Whatever init was interrupted by and whatever was broken on the host, a
\* server whose operator runs it again until it succeeds serves in the end; or
\* the temp file of the secret is left behind, which no later init gets past
\* (write_env_file creates it exclusively and nothing removes it).
InitRecovers ==
  scn.task = "init" /\ (\A o \in scn.opts : o.systemd /\ ~o.skip)
  => []<>(svc.state = "serving") \/ <>[](etc.tmp)

\* An init that reported success for a domain leaves a server that routes the
\* webhook whenever slipd serves, after a reboot too (run_verification looks at
\* Caddy, while slip.toml decides what is set up the next time).
OkMeansRouted ==
  /\ run.at = "done" /\ run.exit = 0
  /\ run.conf.domain /\ ~run.opts.skip
  /\ svc.state = "serving"
  => caddy.hook

\* A `slip key --gh` that reported success, or no call at all, leaves a CI whose
\* signatures slipd accepts for deploys and previews, whatever failed before
\* (handle_set_deploy_key never tells a key other than the one it verifies with).
CiMatches ==
  key.sure /\ svc.state = "serving" => VerifySignature /\ VerifyPreviewAuth(Nil)

\* A doctor that exits 0 ran on a host without any of the faults that its
\* checks can establish, --fix never makes it look better than it is, and the
\* reconcile loop's preflight passes for a *.ts.net host where doctor could ask
\* all that the loop asks (run_slipd_checks and preflight_tailscale are two
\* implementations).
CleanBill ==
  doc.exit = 0 =>
    LET h == Loaded(host) IN
    /\ Certain(h) = {}
    /\ Uses(h, "ts_net") /\ ~Has(h, "no_caddy_binary") => PreflightTailscale(h)

=============================================================================
