------------------------------- MODULE MCSetup -------------------------------
(* Setup for TLC.                                                          *)
EXTENDS Setup

Opts == [domain |-> TRUE, from |-> FALSE, force |-> {}, systemd |-> TRUE, skip |-> FALSE]

InitScenario ==
  [task |-> "init", opts |-> {Opts}, broken |-> {}, events |-> {}, fix |-> {}]

\* One fault or two, in hosts that use everything, all but a registry, or
\* little, with docker, podman or no runtime command, and with each kind of
\* firewall rule.
Faults ==
  {"no_config", "no_socket", "no_network", "ufw_off", "ufw_unreadable", "aardvark_down",
   "no_caddy_binary", "no_plugin", "unset_env", "disk_full", "disk_low", "disk_unknown",
   "caddy_down", "no_block", "conflict", "registry_down", "registry_auth", "registry_slow",
   "registry_error", "internal_issuer", "no_manager", "tailscaled_down", "no_cert_domain",
   "renamed", "no_cert_permit", "no_peer", "no_busybox", "container_dns", "resolver_down",
   "unresolved", "proxied", "private_origin", "slipd_down", "bad_token"}

Machine(f, u, c, r, w) == [faults |-> f, uses |-> u, cli |-> c, runtime |-> r, rules |-> w]

\* The images of Docker Hub; those of a registry, of a mirror with a token; a
\* tailnet without names of its own.
Hub == {"config", "domain", "apps", "token", "dns01", "tailscale", "ts_net"}
Everything == Hub \cup {"internal", "registry"}
Mirror == Everything \cup {"mirror", "registry_token"}
NoNames == {"token", "tailscale"}

MCMachines ==
  {Machine(f, u, c, r, w) :
     f \in {{}} \cup {{g} : g \in Faults},
     u \in {{}, {"config", "domain", "token"}, NoNames, Hub, Everything, Mirror},
     c \in {{}, {"docker"}, {"podman"}}, r \in {"docker", "podman"},
     w \in {{}, {<<"bridge", "udp">>}, {<<"bridge", "any">>}}}
  \cup {Machine({f, g}, u, {"docker"}, "docker", w) :
          f \in Faults, g \in Faults, u \in {Everything, Mirror},
          w \in {{<<"bridge", "udp">>}, {<<"bridge", "any">>}}}

\* Init on a broken host; over what an earlier one left; from a manifest; with
\* kills and reboots.  Keys.  Doctor, and its repair as it may be invoked.
MCScenarios ==
  {[InitScenario EXCEPT !.broken = b, !.events = {"kill", "reboot"},
                        !.opts = {Opts, [Opts EXCEPT !.force = {"secret", "config", "service"}],
                                  [Opts EXCEPT !.domain = FALSE, !.from = TRUE]}] :
     b \in {{}, {"caddy"}, {"conflict"}, {"config"}}}
  \cup {[InitScenario EXCEPT !.opts = {[Opts EXCEPT !.systemd = FALSE, !.skip = TRUE]}],
        [InitScenario EXCEPT !.task = "key", !.events = {"lost", "reboot"}]}
  \cup {[InitScenario EXCEPT !.task = "doctor", !.fix = x] :
          x \in {{}, {"fix"}, {"fix", "root"}, {"fix", "root", "tty"}, {"fix", "root", "yes"},
                 {"fix", "root", "yes", "dry"}}}
=============================================================================
