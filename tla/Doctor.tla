-------------------------------- MODULE Doctor --------------------------------
(***************************************************************************)
(* The checks of `slip doctor`.  A host h is                               *)
(*   faults:   what is wrong with it                                       *)
(*   uses:     what its slip.toml and apps ask for                         *)
(*   cli:      the runtime commands that are installed                     *)
(*   runtime:  the runtime the slip network belongs to                     *)
(*   rules:    the firewall rules for DNS, <<interface, protocol>>         *)
(* A check gives "pass", "warn", "fail" or "skipped"; the commands and     *)
(* services it asks are external.                                          *)
(***************************************************************************)
EXTENDS Naturals, FiniteSets

Has(h, f) == f \in h.faults
Uses(h, u) == u \in h.uses

\* load_config_for_doctor: without a readable slip.toml nothing is configured.
Loaded(h) == IF Has(h, "no_config") THEN [h EXCEPT !.uses = @ \cap {"token"}] ELSE h

\* Hosts that the config declares: the webhook domain and the apps' routes.
Hosts(h) == Uses(h, "domain") \/ Uses(h, "apps")

-----------------------------------------------------------------------------
(* Host checks.                                                            *)

CheckRuntimeSocket(h) == IF Has(h, "no_socket") THEN "warn" ELSE "pass"

\* network_bridge_name: docker is asked first, and its absence ends the search.
NetworkBridgeName(h) ==
  IF "docker" \notin h.cli \/ h.runtime \notin h.cli \/ Has(h, "no_network") THEN {}
  ELSE {"bridge"}

\* classify_ufw: only rules listed with their protocol are seen.
ClassifyUfw(bridge, h) ==
  IF Has(h, "ufw_off") THEN "warn"
  ELSE IF \E b \in bridge : <<b, "tcp">> \in h.rules \/ <<b, "udp">> \in h.rules THEN "pass"
  ELSE "fail"

CheckUfwBridgeDns(h) ==
  IF Has(h, "ufw_unreadable") THEN "warn" ELSE ClassifyUfw(NetworkBridgeName(h), h)

CheckAardvarkActive(h) ==
  IF h.runtime = "podman" /\ ~Has(h, "aardvark_down") THEN "pass" ELSE "warn"

\* required_dns_provider, then caddy list-modules.
RequiredDnsProvider(h) == Uses(h, "dns01")

ParseCaddyModules(h) == IF Has(h, "no_plugin") THEN "fail" ELSE "pass"

CheckCaddyDnsPlugin(h) ==
  IF ~RequiredDnsProvider(h) THEN "skipped"
  ELSE IF Has(h, "no_caddy_binary") THEN "warn" ELSE ParseCaddyModules(h)

CheckConfigEnv(h) == IF Uses(h, "config") /\ Has(h, "unset_env") THEN "warn" ELSE "pass"

\* A storage path that is missing, or a df that does not answer, is a warning.
CheckDiskFree(h) ==
  IF Has(h, "disk_unknown") THEN "warn"
  ELSE IF Has(h, "disk_full") THEN "fail" ELSE IF Has(h, "disk_low") THEN "warn" ELSE "pass"

RunHostChecks(h) ==
  [c \in {"runtime.socket", "ufw.bridge_dns", "aardvark.active", "caddy.dns_plugin",
          "config.env", "disk.free"} |->
     CASE c = "runtime.socket" -> CheckRuntimeSocket(h)
       [] c = "ufw.bridge_dns" -> CheckUfwBridgeDns(h)
       [] c = "aardvark.active" -> CheckAardvarkActive(h)
       [] c = "caddy.dns_plugin" -> CheckCaddyDnsPlugin(h)
       [] c = "config.env" -> CheckConfigEnv(h)
       [] c = "disk.free" -> CheckDiskFree(h)]

-----------------------------------------------------------------------------
(* Checks of Caddy, the registries, TLS and DNS, each a function of names.  *)

CheckCaddyAdmin(h) ==
  [c \in {"caddy.reachable", "caddy.slip_server", "caddy.listener_conflict"} |->
     CASE c = "caddy.reachable" -> IF Has(h, "caddy_down") THEN "fail" ELSE "pass"
       [] c = "caddy.slip_server" ->
            IF Has(h, "caddy_down") \/ Has(h, "no_block") THEN "fail" ELSE "pass"
       [] c = "caddy.listener_conflict" ->
            IF ~Has(h, "caddy_down") /\ Has(h, "conflict") THEN "fail" ELSE "pass"]

\* collect_registry_hosts: the images of the apps that name a registry; those of
\* Docker Hub do not.
CollectRegistryHosts(h) == Uses(h, "apps") /\ Uses(h, "registry")

\* The HEAD request puts the host into the repository path as well: a registry
\* answers 404, or 401 where it asks for a token first; one that is a mirror may
\* have the path, and one may answer with an error or too late.
RegistryAnswers(h) ==
  IF Has(h, "registry_down") \/ Has(h, "registry_slow") THEN {}
  ELSE IF Has(h, "registry_auth") THEN {401}
  ELSE IF Has(h, "registry_error") THEN {500} ELSE IF Uses(h, "mirror") THEN {200} ELSE {404}

CheckRegistry(h) ==
  [c \in {"registry.reachable", "registry.auth", "registry.manifest"} |->
     IF ~CollectRegistryHosts(h) THEN "skipped"
     ELSE CASE c = "registry.reachable" -> IF Has(h, "registry_down") THEN "fail" ELSE "pass"
            [] c = "registry.auth" ->
                 IF 401 \in RegistryAnswers(h) THEN "fail"
                 ELSE IF Uses(h, "registry_token") /\ 200 \in RegistryAnswers(h) THEN "pass" ELSE "warn"
            [] c = "registry.manifest" ->
                 IF 404 \in RegistryAnswers(h) THEN "fail"
                 ELSE IF 200 \in RegistryAnswers(h) THEN "pass" ELSE "warn"]

\* The issuer is only warned about; the other two are never looked at.
CheckTls(h) ==
  [c \in {"tls.issuer", "tls.cert_expiry", "tls.acme_stuck"} |->
     IF c # "tls.issuer" \/ ~Hosts(h) THEN "skipped"
     ELSE IF Has(h, "internal_issuer") THEN "warn" ELSE "pass"]

ModulePresentExact(h) == IF Has(h, "no_manager") THEN "fail" ELSE "pass"

ClassifyManagerModule(h) == IF Has(h, "no_caddy_binary") THEN "warn" ELSE ModulePresentExact(h)

\* parse_cert_domains: none without the daemon, or with HTTPS disabled.
ParseCertDomains(h) ==
  IF Has(h, "tailscaled_down") \/ Has(h, "no_cert_domain") THEN {}
  ELSE IF Has(h, "renamed") THEN {"other"} ELSE {"host"}

HostMatchesCertDomains(h) == "host" \in ParseCertDomains(h)

CheckCaddyUserPermission(h) == ~Has(h, "no_cert_permit")

Passes(b) == IF b THEN "pass" ELSE "fail"

\* With the strategy or a *.ts.net host; the name is matched for such hosts only.
TailscaleChecks(h) ==
  (IF Uses(h, "tailscale") \/ Uses(h, "ts_net")
     THEN {"tailscale.daemon", "tailscale.https", "tailscale.caddy_user", "tailscale.manager_module"}
     ELSE {})
  \cup (IF Uses(h, "ts_net") THEN {"tailscale.hostname_match"} ELSE {})

CheckTailscale(h) ==
  [c \in TailscaleChecks(h) |->
     CASE c = "tailscale.daemon" -> Passes(~Has(h, "tailscaled_down"))
       [] c = "tailscale.https" -> Passes(ParseCertDomains(h) # {})
       [] c = "tailscale.hostname_match" -> Passes(HostMatchesCertDomains(h))
       [] c = "tailscale.caddy_user" -> Passes(CheckCaddyUserPermission(h))
       [] c = "tailscale.manager_module" -> ClassifyManagerModule(h)]

\* has_cert_manager_with_runner: the admin API lists no modules, so the binary
\* decides; without one the answer is unknown.
HasCertManager(h) ==
  IF Has(h, "no_caddy_binary") THEN {} ELSE {ModulePresentExact(h) = "pass"}

\* preflight_tailscale, which the reconcile loop runs before it writes a policy:
\* the same facts, and what is unknown counts as missing.
PreflightTailscale(h) ==
  /\ ~Has(h, "tailscaled_down")
  /\ ParseCertDomains(h) # {}
  /\ HostMatchesCertDomains(h)
  /\ TRUE \in HasCertManager(h)
  /\ CheckCaddyUserPermission(h)

\* find_running_app_container_name: here too docker's absence, or a docker
\* without containers, ends the search.
FindRunningAppContainer(h) == "docker" \in h.cli /\ h.runtime = "docker" /\ ~Has(h, "no_peer")

RunDnsProbe(h) ==
  IF ~FindRunningAppContainer(h) THEN "warn"
  ELSE IF Has(h, "no_busybox") THEN "warn"
  ELSE IF Has(h, "container_dns") THEN "fail" ELSE "pass"

\* resolve_host: the answer of the resolver, and whether it answered at all.
ResolveHost(h) ==
  IF Has(h, "resolver_down") THEN "down" ELSE IF Has(h, "unresolved") THEN "none" ELSE "address"

\* classify_ip of the addresses: of the proxy, private, or neither.
ClassifyIps(h) == h.faults \cap {"proxied", "private_origin"}

\* classify_dns_expectation: a broken resolver fails, and so does a name that a
\* proxy answers for although the origin is private.
ClassifyDnsExpectation(h) ==
  CASE ResolveHost(h) = "down" -> "fail"
    [] ResolveHost(h) = "none" -> "warn"
    [] ResolveHost(h) = "address" ->
         IF "proxied" \in ClassifyIps(h)
           THEN IF Uses(h, "tailscale") \/ Uses(h, "internal") \/ "private_origin" \in ClassifyIps(h)
                  THEN "fail" ELSE "pass"
           ELSE IF "private_origin" \in ClassifyIps(h) THEN "warn" ELSE "pass"

CheckDns(h) ==
  [c \in {"dns.probe", "dns.expectation"} |->
     IF ~Hosts(h) THEN "skipped"
     ELSE IF c = "dns.probe" THEN RunDnsProbe(h) ELSE ClassifyDnsExpectation(h)]

CheckSlipdReachable(h) ==
  IF ~Uses(h, "token") THEN "skipped"
  ELSE IF Has(h, "slipd_down") \/ Has(h, "bad_token") THEN "fail" ELSE "pass"

-----------------------------------------------------------------------------
(* The report and the repair.                                              *)

\* The report: the checks f, and those of g beside them.
Joined(f, g) ==
  [c \in DOMAIN f \cup DOMAIN g |-> IF c \in DOMAIN f THEN f[c] ELSE g[c]]

\* Mutant of AggregateExit: a check that was skipped hides one that failed.
AggregateExitFirst(checks, timedOut) ==
  IF timedOut THEN 6 ELSE IF \A c \in DOMAIN checks : checks[c] = "fail" THEN 1 ELSE 0

AggregateExit(checks, timedOut) ==
  IF timedOut THEN 6 ELSE IF \E c \in DOMAIN checks : checks[c] = "fail" THEN 1 ELSE 0

\* plan_fixes: the interface comes from the remedy of the check; the one that
\* says the network is missing names none, and a default is taken.
PlanFixes(checks, h) ==
  IF checks["ufw.bridge_dns"] # "fail" THEN {}
  ELSE IF NetworkBridgeName(h) = {} THEN {"br-slip"} ELSE NetworkBridgeName(h)

\* What `ufw allow in on b to any port 53` adds: a rule for any protocol.
UfwAllow(b) == <<b, "any">>

\* The faults that make slip fail and that doctor looks for, among those whose
\* check the host lets it carry out.
Certain(h) ==
  (h.faults \cap {"caddy_down", "no_block"})
  \cup (h.faults \cap (IF Has(h, "disk_unknown") THEN {} ELSE {"disk_full"}))
  \cup (h.faults \cap (IF Has(h, "caddy_down") THEN {} ELSE {"conflict"}))
  \cup (h.faults \cap (IF Uses(h, "dns01") /\ ~Has(h, "no_caddy_binary") THEN {"no_plugin"} ELSE {}))
  \cup (h.faults \cap (IF CollectRegistryHosts(h) THEN {"registry_down"} ELSE {}))
  \cup (h.faults \cap (IF CollectRegistryHosts(h) /\ ~Has(h, "registry_slow") THEN {"registry_auth"} ELSE {}))
  \cup (h.faults \cap (IF Uses(h, "tailscale") \/ Uses(h, "ts_net")
                         THEN {"tailscaled_down", "no_cert_domain", "no_cert_permit"} ELSE {}))
  \cup (h.faults \cap (IF Uses(h, "ts_net") THEN {"renamed"} ELSE {}))
  \cup (h.faults \cap (IF (Uses(h, "tailscale") \/ Uses(h, "ts_net")) /\ ~Has(h, "no_caddy_binary")
                         THEN {"no_manager"} ELSE {}))
  \cup (h.faults \cap (IF Hosts(h) THEN {"resolver_down"} ELSE {}))
  \cup (h.faults \cap (IF Uses(h, "token") THEN {"slipd_down", "bad_token"} ELSE {}))
  \cup (IF Has(h, "ufw_off") \/ Has(h, "ufw_unreadable") \/ \E p \in {"any", "tcp", "udp"} :
             <<"bridge", p>> \in h.rules THEN {} ELSE {"ufw_blocks_dns"})
=============================================================================
