------------------------------- MODULE MCEdge -------------------------------
EXTENDS Edge

A1 == <<[host |-> "a", port |-> 1]>>
A2 == <<[host |-> "a", port |-> 2]>>
AB == <<[host |-> "a", port |-> 1], [host |-> "b", port |-> 1]>>

MCAppRoutes == {A1, A2, AB}

Theirs(s, strat) == [id |-> Nil, subj |-> s, strat |-> strat, ratio |-> Nil]

Base == [tls |-> [s \in Subjects |-> IF s = "a" THEN "internal" ELSE Nil],
         hook |-> FALSE, preview |-> FALSE, other |-> FALSE, foreign |-> <<>>,
         preflight |-> {}, dns |-> FALSE, kinds |-> {"renew"}, hosts |-> {"a"},
         fails |-> {}, faults |-> {}, events |-> 1]

Tls(f) == [s \in Subjects |-> IF s \in DOMAIN f THEN f[s] ELSE Nil]

\* Renewals of an owned policy beside ticks and a deploy, replies lost.
Renewed == [Base EXCEPT !.kinds = {"renew", "deploy"}, !.fails = {"renew"}, !.events = 2]

\* Renewals interrupted by a crash of slipd, or by a restart of Caddy.
Crashed == [Base EXCEPT !.faults = {"crash"}, !.events = 3]
Restarted == [Base EXCEPT !.faults = {"restart"}, !.events = 2]

\* The policy of the host is the operator's, and found by its position, which
\* the ticks' own policies do not shift.
Operators == [Base EXCEPT !.foreign = <<Theirs("a", "acme")>>, !.preview = TRUE,
                !.hosts = {"a", "b"}, !.fails = {"renew", "tick"}]

\* The webhook and the preview wildcard, which also covers "b", while Caddy restarts.
Hooked == [Base EXCEPT !.tls = Tls([hook |-> "acme"]), !.hook = TRUE, !.preview = TRUE,
             !.foreign = <<Theirs("a", "internal")>>, !.kinds = {"deploy"},
             !.faults = {"restart"}, !.events = 2]

\* Strategies with a preflight, refused, accepted or without their DNS provider.
Preflights ==
  {[Base EXCEPT !.tls = Tls([a |-> t]), !.preflight = p, !.dns = d, !.faults = {"crash"},
      !.events = 2] :
     t \in {"dns01", "tailscale"}, p \in {{}, {"dns01", "tailscale"}}, d \in BOOLEAN}

\* Another program's server holds the ports.
Taken == [Base EXCEPT !.other = TRUE, !.kinds = {"deploy"}, !.faults = {"restart"}, !.events = 2]

\* Route changes that fail or are lost.
Routed == [Base EXCEPT !.kinds = {"deploy", "delete"}, !.fails = {"tick", "api"}, !.events = 2]

MCScenarios == {Renewed, Crashed, Restarted, Operators, Hooked, Taken, Routed} \cup Preflights

=============================================================================
