-------------------------------- MODULE Edge --------------------------------
(***************************************************************************)
(* What slipd keeps in Caddy besides one route per deploy: the slip server *)
(* block, the numbered routes of an app, the deploy-webhook route, the TLS *)
(* policies it owns among those of the operator, and the renewal ratio a   *)
(* certificate renewal raises and puts back.  Four kinds of task talk to   *)
(* the admin API, one request per step and without a common lock: the      *)
(* reconcile tick, a deploy or delete of the app, and renewals.            *)
(***************************************************************************)
EXTENDS Naturals, Sequences, FiniteSets

CONSTANTS
  Nil,
  Renewals,     \* slots for renewal requests
  AppRoutes,    \* route lists a deploy may switch the app to: <<[host, port], ...>>
  Scenarios

\* "hook" is the webhook domain, "wild" the preview wildcard, which covers "b".
AppHosts == {"a", "b"}
Subjects == AppHosts \cup {"hook", "wild"}
Strategies == {"internal", "acme", "dns01", "tailscale"}
Bumped == "1.0"

ASSUME EdgeAssumption ==
  \A e \in Scenarios :
    /\ e.tls \in [Subjects -> Strategies \cup {Nil}]
    /\ e.hook \in BOOLEAN /\ e.preview \in BOOLEAN /\ e.other \in BOOLEAN
    /\ e.foreign \in Seq([id : {Nil}, subj : Subjects, strat : Strategies, ratio : {Nil}])
    /\ e.preflight \subseteq {"dns01", "tailscale"} /\ e.dns \in BOOLEAN
    /\ e.kinds \subseteq {"deploy", "delete", "renew"} /\ e.hosts \subseteq Subjects
    /\ e.fails \subseteq {"tick", "api", "renew"}
    /\ e.events \in Nat /\ e.faults \subseteq {"restart", "crash"}

VARIABLES
  env,      \* the scenario
  caddy,    \* Caddy's config
  app,      \* current_routes of the running app, <<>>: no app
  op,       \* per task: what it is doing
  lock,     \* renew_locks: host -> renewal or Nil
  said,     \* the worst outcome a renewal reported
  left      \* requests and faults left

vars == <<env, caddy, app, op, lock, said, left>>

Tasks == Renewals \cup {"tick", "api"}

\* todo: the calls to make, at: the request the first of them is at, cfg: a
\* config that was read, new: the route list a deploy switches to.  The others
\* are a renewal's.
NoOp == [kind |-> "idle", at |-> "start", todo |-> <<>>, cfg |-> Nil, new |-> <<>>,
         tries |-> 0, host |-> Nil, phase |-> "bump", orig |-> Nil, idx |-> 0,
         restart |-> FALSE, err |-> FALSE]

\* ExponentialBuilder: how often a tick retries a route.
MaxRetries == 1

\* slip-{app}-{index}: an app has at most two routes here.
RouteId(i) == <<"slip-0", "slip-1">>[i]

Item(do, id, host, port, strat) ==
  [do |-> do, id |-> id, host |-> host, port |-> port, strat |-> strat]

\* Caddy after a start: what its own config file holds.
Fresh == [slip |-> FALSE, other |-> env.other, routes |-> <<>>, policies |-> env.foreign]

\* After the bootstrap at startup, which exits on a listener conflict.
Init ==
  /\ env \in Scenarios
  /\ caddy = [Fresh EXCEPT !.slip = TRUE, !.other = FALSE]
  /\ app \in AppRoutes
  /\ op = [p \in Tasks |-> NoOp]
  /\ lock = [h \in Subjects |-> Nil]
  /\ said = "none"
  /\ left = env.events

-----------------------------------------------------------------------------
(* The admin API (external).                                               *)

Indices(s, P(_)) == {i \in DOMAIN s : P(s[i])}

\* /id/x leads to the element that was indexed last; 0: there is none.
ById(s, x) ==
  LET is == Indices(s, LAMBDA e : e.id = x)
  IN IF is = {} THEN 0 ELSE CHOOSE i \in is : \A j \in is : j <= i

Patched(s, x, e) == [s EXCEPT ![ById(s, x)] = e]

Deleted(s, x) == SelectSeq(s, LAMBDA e : e.id # x)

\* is_wildcard_match
Covers(p, host) == p.subj = host \/ (p.subj = "wild" /\ host = "b")

\* get_tls_policy: the index of the first policy that covers the host, or 0.
FirstPolicy(host) ==
  LET is == Indices(caddy.policies, LAMBDA p : Covers(p, host))
  IN IF is = {} THEN 0 ELSE CHOOSE i \in is : \A j \in is : i <= j

-----------------------------------------------------------------------------
(* One call of a task.                                                     *)

Current(p) == Head(op[p].todo)

Busy(p, do) == op[p].kind \in {"tick", "deploy", "delete"} /\ op[p].todo # <<>>
               /\ Current(p).do \in do

ItemAt(p, at) == op' = [op EXCEPT ![p].at = at]

ItemDone(p) ==
  op' = [op EXCEPT ![p].todo = Tail(@), ![p].at = "start", ![p].cfg = Nil, ![p].tries = 0]

\* The tick collects the failure and goes on, after retries for an app route;
\* bootstrap_deploy gives up its policy with its route.  A deploy and a delete
\* stop at the first error.
ItemFails(p) ==
  LET i == Current(p)
      retried == i.do = "route" /\ i.id # "hook" /\ op[p].tries < MaxRetries
  IN op' = [op EXCEPT ![p] =
       IF p # "tick" THEN NoOp
       ELSE IF retried THEN [@ EXCEPT !.at = "start", !.tries = @ + 1]
       ELSE [@ EXCEPT !.at = "start", !.cfg = Nil, !.tries = 0,
               !.todo = IF i.id = "hook" /\ i.do = "route" THEN Tail(Tail(@)) ELSE Tail(@)]]

\* The connection fails, before or after the request took effect.
CallFails(p, after) == p \in env.fails /\ caddy' \in {caddy, after} /\ ItemFails(p)

Still == UNCHANGED <<env, app, lock, said, left>>

\* bootstrap: the whole config is read, completed and loaded.
BootGet(p) ==
  /\ Busy(p, {"boot"}) /\ op[p].at = "start"
  /\ \/ caddy.slip /\ ItemDone(p)
     \/ ~caddy.slip /\ caddy.other /\ ItemFails(p)
     \/ /\ ~caddy.slip /\ ~caddy.other
        /\ op' = [op EXCEPT ![p].at = "load", ![p].cfg = caddy]
  /\ Still /\ UNCHANGED caddy

BootLoad(p) ==
  LET c == [op[p].cfg EXCEPT !.slip = TRUE] IN
  /\ Busy(p, {"boot"}) /\ op[p].at = "load"
  /\ (caddy' = c /\ ItemDone(p)) \/ CallFails(p, c)
  /\ Still

RouteOf(i) == [id |-> i.id, host |-> i.host, port |-> i.port]

\* Mutant of RoutePost: the server block is assumed to be there.
RoutePostBlind(p) ==
  /\ Busy(p, {"route"}) /\ op[p].at = "post"
  /\ ItemDone(p)
  /\ Still /\ UNCHANGED caddy

\* set_routes, one route of it: PATCH by @id, and POST if there is none.
RoutePatch(p) ==
  LET i == Current(p) c == [caddy EXCEPT !.routes = Patched(@, i.id, RouteOf(i))] IN
  /\ Busy(p, {"route"}) /\ op[p].at = "start"
  /\ \/ ById(caddy.routes, i.id) # 0 /\ caddy' = c /\ ItemDone(p)
     \/ ById(caddy.routes, i.id) = 0 /\ UNCHANGED caddy /\ ItemAt(p, "post")
     \/ ById(caddy.routes, i.id) # 0 /\ CallFails(p, c)
  /\ Still

RoutePost(p) ==
  LET c == [caddy EXCEPT !.routes = Append(@, RouteOf(Current(p)))] IN
  /\ Busy(p, {"route"}) /\ op[p].at = "post"
  /\ \/ caddy.slip /\ caddy' = c /\ ItemDone(p)
     \/ ~caddy.slip /\ UNCHANGED caddy /\ ItemFails(p)
     \/ caddy.slip /\ CallFails(p, c)
  /\ Still

\* remove_routes, one route of it: a 404 is a success.
RouteDelete(p) ==
  LET c == [caddy EXCEPT !.routes = Deleted(@, Current(p).id)] IN
  /\ Busy(p, {"unroute"})
  /\ (caddy' = c /\ ItemDone(p)) \/ CallFails(p, c)
  /\ Still

-----------------------------------------------------------------------------
(* upsert_tls_policy.                                                      *)

\* build_tls_policy, with the @id; it never has a ratio.
Built(i) == [id |-> i.host, subj |-> i.host, strat |-> i.strat, ratio |-> Nil]

\* The policy of an app's host is only built with a DNS config if it needs
\* one, or the reconcile task panics; DNS-01 and Tailscale have preflights.
Panics(i) == i.do = "apptls" /\ i.strat = "dns01" /\ ~env.dns
Refused(i) == i.do = "apptls" /\ i.strat \in {"dns01", "tailscale"} \ env.preflight

\* Mutant of PolicyGet: a policy of the operator for the subject is no conflict.
PolicyGetAdopts(p) ==
  /\ Busy(p, {"policy", "apptls"}) /\ op[p].at = "start"
  /\ ItemAt(p, "append")
  /\ Still /\ UNCHANGED caddy

\* Mutant of PolicyGet: an owned policy is taken to be the right one.
PolicyGetTrusts(p) ==
  LET i == Current(p) own == ById(caddy.policies, i.host) IN
  /\ Busy(p, {"policy", "apptls"}) /\ op[p].at = "start"
  /\ IF own # 0 THEN ItemDone(p) ELSE ItemAt(p, "append")
  /\ Still /\ UNCHANGED caddy

\* Decide from one read: nothing to do, replace the owned policy, leave a
\* conflict alone, or append.
PolicyGet(p) ==
  LET i == Current(p)
      own == ById(caddy.policies, i.host)
      foreign == Indices(caddy.policies, LAMBDA q : q.subj = i.host) # {}
  IN
  /\ Busy(p, {"policy", "apptls"}) /\ op[p].at = "start"
  /\ \/ /\ ~Panics(i) /\ ~Refused(i)
        /\ \/ own # 0 /\ caddy.policies[own] = Built(i) /\ ItemDone(p)
           \/ own # 0 /\ caddy.policies[own] # Built(i) /\ ItemAt(p, "patch")
           \/ own = 0 /\ foreign /\ ItemFails(p)
           \/ own = 0 /\ ~foreign /\ ItemAt(p, "append")
     \/ ~Panics(i) /\ (Refused(i) \/ p \in env.fails) /\ ItemFails(p)
     \/ Panics(i) /\ op' = [op EXCEPT ![p] = [NoOp EXCEPT !.kind = "dead"]]
  /\ Still /\ UNCHANGED caddy

\* PATCH in place; a policy that vanished is appended.
PolicyPatch(p) ==
  LET i == Current(p)
      c == [caddy EXCEPT !.policies = Patched(@, i.host, Built(i))]
      own == ById(caddy.policies, i.host)
  IN
  /\ Busy(p, {"policy", "apptls"}) /\ op[p].at = "patch"
  /\ \/ own # 0 /\ caddy' = c /\ ItemDone(p)
     \/ own # 0 /\ CallFails(p, c)
     \/ own = 0 /\ UNCHANGED caddy /\ ItemAt(p, "append")
  /\ Still

PolicyAppend(p) ==
  LET c == [caddy EXCEPT !.policies = Append(@, Built(Current(p)))] IN
  /\ Busy(p, {"policy", "apptls"}) /\ op[p].at = "append"
  /\ (caddy' = c /\ ItemDone(p)) \/ CallFails(p, c)
  /\ Still

-----------------------------------------------------------------------------
(* The tasks that set routes and policies.                                 *)

Hook == <<Item("route", "hook", "hook", 0, Nil), Item("policy", "hook", "hook", 0, env.tls["hook"])>>
Preview == <<Item("policy", "wild", "wild", 0, "dns01")>>

\* reconcile_app_routes hands set_routes one route at a time: each is number 0.
TickRoutes == [i \in 1..Len(app) |-> Item("route", RouteId(1), app[i].host, app[i].port, Nil)]

\* reconcile_app_tls: the hosts of the app whose TLS slip decides.
TickPolicies ==
  LET hosts == SelectSeq(app, LAMBDA r : env.tls[r.host] # Nil)
  IN [i \in 1..Len(hosts) |-> Item("apptls", hosts[i].host, hosts[i].host, 0, env.tls[hosts[i].host])]

\* reconcile_tick, on a snapshot of the app
Tick ==
  /\ op["tick"].kind = "idle"
  /\ op' = [op EXCEPT !["tick"] = [NoOp EXCEPT !.kind = "tick",
       !.todo = <<Item("boot", "boot", Nil, 0, Nil)>> \o (IF env.hook THEN Hook ELSE <<>>)
                \o (IF env.preview THEN Preview ELSE <<>>) \o TickRoutes \o TickPolicies]]
  /\ Still /\ UNCHANGED caddy

TickEnd ==
  /\ op["tick"].kind = "tick" /\ op["tick"].todo = <<>>
  /\ op' = [op EXCEPT !["tick"] = NoOp]
  /\ Still /\ UNCHANGED caddy

\* A deploy numbers the routes, and records them when all are set.
Deploy(rs) ==
  /\ op["api"].kind = "idle" /\ "deploy" \in env.kinds /\ rs # app
  /\ left > 0 /\ left' = left - 1
  /\ op' = [op EXCEPT !["api"] = [NoOp EXCEPT !.kind = "deploy", !.new = rs,
       !.todo = [i \in 1..Len(rs) |-> Item("route", RouteId(i), rs[i].host, rs[i].port, Nil)]]]
  /\ UNCHANGED <<env, caddy, app, lock, said>>

DeployEnd ==
  /\ op["api"].kind = "deploy" /\ op["api"].todo = <<>>
  /\ app' = op["api"].new
  /\ op' = [op EXCEPT !["api"] = NoOp]
  /\ UNCHANGED <<env, caddy, lock, said, left>>

\* handle_delete_app removes as many routes as are recorded.
Delete ==
  /\ op["api"].kind = "idle" /\ "delete" \in env.kinds /\ app # <<>>
  /\ left > 0 /\ left' = left - 1
  /\ op' = [op EXCEPT !["api"] = [NoOp EXCEPT !.kind = "delete",
       !.todo = [i \in 1..Len(app) |-> Item("unroute", RouteId(i), Nil, 0, Nil)]]]
  /\ UNCHANGED <<env, caddy, app, lock, said>>

DeleteEnd ==
  /\ op["api"].kind = "delete" /\ op["api"].todo = <<>>
  /\ app' = <<>>
  /\ op' = [op EXCEPT !["api"] = NoOp]
  /\ UNCHANGED <<env, caddy, lock, said, left>>
-----------------------------------------------------------------------------
(* Certificate renewal: handle_tls_renew, run_renewal_cycle.               *)

Renewing(r, at) == op[r].kind = "renew" /\ op[r].at = at
Lost == "renew" \in env.fails
Goes(r, at) == op' = [op EXCEPT ![r].at = at] /\ UNCHANGED <<lock, said>>

\* The task returns its outcome and drops the guard.
Ends(r, outcome) ==
  /\ op' = [op EXCEPT ![r] = NoOp]
  /\ lock' = [lock EXCEPT ![op[r].host] = Nil]
  /\ said' = IF said \in {"none", "ok"} THEN outcome ELSE said

Rest == UNCHANGED <<env, app, left>>

\* try_lock_owned: a second renewal of the host is answered 409.
Renew(r, h, restart) ==
  /\ "renew" \in env.kinds /\ h \in env.hosts /\ (restart => "restart" \in env.faults)
  /\ op[r].kind = "idle" /\ lock[h] = Nil
  /\ left > 0 /\ left' = left - 1
  /\ op' = [op EXCEPT ![r] = [NoOp EXCEPT !.kind = "renew", !.at = "look",
                                !.host = h, !.restart = restart]]
  /\ lock' = [lock EXCEPT ![h] = r]
  /\ UNCHANGED <<env, caddy, app, said>>

\* Tailscale renews by itself (a failed read means it does not); a host with no
\* policy is answered 404.
RenewLook(r) ==
  LET i == FirstPolicy(op[r].host)
      tailscale == i # 0 /\ caddy.policies[i].strat = "tailscale"
  IN
  /\ Renewing(r, "look")
  /\ \/ (i = 0 \/ tailscale \/ Lost) /\ Ends(r, said)
     \/ /\ i # 0 /\ (Lost \/ ~tailscale)
        /\ op' = [op EXCEPT ![r].at = "byid", ![r].orig = caddy.policies[i].ratio]
        /\ UNCHANGED <<lock, said>>
  /\ Rest /\ UNCHANGED caddy

\* The ratio this phase writes; Nil: the field is deleted.
Ratio(r) == IF op[r].phase = "bump" THEN Bumped ELSE op[r].orig

\* A lost bump is reported as an error; a restore that fails fails loudly.
RatioFails(r) ==
  Ends(r, IF op[r].phase = "bump" \/ op[r].err THEN "error" ELSE "failed")

WithRatio(r, i) == [caddy EXCEPT !.policies[i].ratio = Ratio(r)]

\* PATCH or DELETE through the @id.  Whether Caddy finds a field to delete that
\* is not there depends on its version.
RatioById(r) ==
  LET own == ById(caddy.policies, op[r].host)
      absent == own # 0 /\ Ratio(r) = Nil /\ caddy.policies[own].ratio = Nil
  IN
  /\ Renewing(r, "byid")
  /\ \/ own # 0 /\ caddy' = WithRatio(r, own) /\ Goes(r, "get")
     \/ (own = 0 \/ absent) /\ UNCHANGED caddy /\ Goes(r, "find")
     \/ own # 0 /\ Lost /\ caddy' \in {caddy, WithRatio(r, own)} /\ RatioFails(r)
  /\ Rest

\* The fallback: the position of the policy is read ...
RatioFind(r) ==
  LET i == FirstPolicy(op[r].host) IN
  /\ Renewing(r, "find")
  /\ \/ i # 0 /\ op' = [op EXCEPT ![r].at = "byindex", ![r].idx = i] /\ UNCHANGED <<lock, said>>
     \/ (i = 0 \/ Lost) /\ RatioFails(r)
  /\ Rest /\ UNCHANGED caddy

\* ... and whatever is at the position now is changed.
RatioByIndex(r) ==
  LET i == op[r].idx
      there == i <= Len(caddy.policies)
      absent == there /\ Ratio(r) = Nil /\ caddy.policies[i].ratio = Nil
  IN
  /\ Renewing(r, "byindex")
  /\ \/ there /\ caddy' = WithRatio(r, i) /\ Goes(r, "get")
     \/ (~there \/ absent) /\ UNCHANGED caddy /\ RatioFails(r)
     \/ there /\ Lost /\ caddy' \in {caddy, WithRatio(r, i)} /\ RatioFails(r)
  /\ Rest

\* After the bump a reload that fails reverts the ratio and is an error; after
\* the restore its result is not looked at.
Reloaded(r) ==
  \/ op[r].phase = "bump" /\ Goes(r, "poll")
  \/ op[r].phase = "restore" /\ ~op[r].err /\ Goes(r, "verify")
  \/ op[r].phase = "restore" /\ op[r].err /\ Ends(r, "error")

Reverts(r, err) ==
  /\ op' = [op EXCEPT ![r].phase = "restore", ![r].at = "byid", ![r].err = err, ![r].cfg = Nil]
  /\ UNCHANGED <<lock, said>>

NotReloaded(r) ==
  IF op[r].phase = "bump" THEN Reverts(r, TRUE) ELSE Reloaded(r)

\* reload: the whole config is read and loaded again.
ReloadGet(r) ==
  /\ Renewing(r, "get")
  /\ \/ op' = [op EXCEPT ![r].at = "load", ![r].cfg = caddy] /\ UNCHANGED <<lock, said>>
     \/ Lost /\ NotReloaded(r)
  /\ Rest /\ UNCHANGED caddy

ReloadLoad(r) ==
  /\ Renewing(r, "load")
  /\ \/ caddy' = op[r].cfg /\ Reloaded(r)
     \/ Lost /\ caddy' \in {caddy, op[r].cfg} /\ NotReloaded(r)
  /\ Rest

\* The certificate changed, or two minutes passed.
Poll(r) ==
  /\ Renewing(r, "poll")
  /\ \/ Reverts(r, FALSE)
     \/ op[r].restart /\ Goes(r, "restart")
  /\ Rest /\ UNCHANGED caddy

\* systemctl restart caddy, the wait for it and the second poll.
RestartCaddy(r) ==
  /\ Renewing(r, "restart")
  /\ caddy' \in {caddy, Fresh}
  /\ Reverts(r, FALSE)
  /\ Rest

Verify(r) ==
  LET i == FirstPolicy(op[r].host) IN
  /\ Renewing(r, "verify")
  /\ \/ (Lost \/ (i # 0 /\ caddy.policies[i].ratio = op[r].orig)) /\ Ends(r, "ok")
     \/ (i = 0 \/ (i # 0 /\ caddy.policies[i].ratio # op[r].orig)) /\ Ends(r, "failed")
  /\ Rest /\ UNCHANGED caddy

-----------------------------------------------------------------------------
(* Faults (external).                                                      *)

CaddyRestart ==
  /\ "restart" \in env.faults /\ left > 0 /\ left' = left - 1
  /\ caddy' = Fresh
  /\ UNCHANGED <<env, app, op, lock, said>>

\* slipd dies and starts again; what it does at startup a tick does too.
Crash ==
  /\ "crash" \in env.faults /\ left > 0 /\ left' = left - 1
  /\ op' = [p \in Tasks |-> NoOp]
  /\ lock' = [h \in Subjects |-> Nil]
  /\ said' = IF \E r \in Renewals : op[r].kind = "renew" THEN "failed" ELSE said
  /\ UNCHANGED <<env, caddy, app>>

Call(p) ==
  \/ BootGet(p) \/ BootLoad(p) \/ RoutePatch(p) \/ RoutePost(p) \/ RouteDelete(p)
  \/ PolicyGet(p) \/ PolicyPatch(p) \/ PolicyAppend(p)

Cycle(r) ==
  \/ RenewLook(r) \/ RatioById(r) \/ RatioFind(r) \/ RatioByIndex(r)
  \/ ReloadGet(r) \/ ReloadLoad(r) \/ Poll(r) \/ RestartCaddy(r) \/ Verify(r)

Next ==
  \/ Tick \/ TickEnd \/ DeployEnd \/ Delete \/ DeleteEnd \/ CaddyRestart \/ Crash
  \/ \E rs \in AppRoutes : Deploy(rs)
  \/ \E p \in {"tick", "api"} : Call(p)
  \/ \E r \in Renewals : \E h \in Subjects : \E restart \in BOOLEAN : Renew(r, h, restart)
  \/ \E r \in Renewals : Cycle(r)

\* The interval fires for ever and requests are answered or time out.
Fairness ==
  /\ WF_vars(Tick \/ TickEnd \/ Call("tick"))
  /\ WF_vars(DeployEnd \/ DeleteEnd \/ Call("api"))
  /\ \A r \in Renewals : WF_vars(Cycle(r))

Spec == Init /\ [][Next]_vars /\ Fairness

-----------------------------------------------------------------------------
(* Properties.                                                             *)

\* slip takes no policy of the operator for its own: those Caddy's file declares
\* are there, in their order and as declared but for a ratio, at all times; and a
\* subject the operator manages gets no second policy (upsert_tls_policy).
OperatorPoliciesStay ==
  LET theirs == SelectSeq(caddy.policies, LAMBDA p : p.id = Nil) IN
  /\ [i \in 1..Len(theirs) |-> [theirs[i] EXCEPT !.ratio = Nil]] = env.foreign
  /\ \A i, j \in DOMAIN caddy.policies :
       caddy.policies[i].id = Nil /\ caddy.policies[i].subj = caddy.policies[j].subj => i = j

\* The subjects a tick configures, when none of them is refused.
Wanted ==
  (IF env.hook THEN {"hook"} ELSE {}) \cup (IF env.preview THEN {"wild"} ELSE {})
  \cup {h \in AppHosts : env.tls[h] # Nil /\ \E i \in DOMAIN app : app[i].host = h}

Healable ==
  /\ "tick" \notin env.fails /\ ~env.other
  /\ \A h \in AppHosts : env.tls[h] = "dns01" => env.dns /\ "dns01" \in env.preflight
  /\ \A h \in AppHosts : env.tls[h] = "tailscale" => "tailscale" \in env.preflight

\* No renewal is under way and all of them reported that they restored the ratio.
AllRestored == said = "ok" /\ \A r \in Renewals : op[r].kind = "idle"

\* While every renewal reports that it restored the ratio, none is left at 1.0,
\* whatever ticks and deploys did beside it.  A raised ratio of a policy slip owns
\* comes down also when its renewal lost a reply, failed to restore it or died: the
\* tick writes the policy anew.  A Caddy restart is left out: a reload that lands
\* after it beside a tick's append leaves two policies with one @id, and only the
\* last is looked at.
RatioHeals ==
  /\ []("restart" \notin env.faults /\ AllRestored =>
          \A i \in DOMAIN caddy.policies : caddy.policies[i].ratio # Bumped)
  /\ \A s \in Subjects :
       LET raised == \E i \in DOMAIN caddy.policies :
                       caddy.policies[i].id = s /\ caddy.policies[i].ratio = Bumped
       IN "restart" \notin env.faults /\ raised ~> ~Healable \/ s \notin Wanted \/ ~raised

\* Once Caddy stops losing its config and no request is served, the ticks bring
\* back the server block, the webhook, the route of a single-route app and every
\* policy (reconcile_tick).
Healed ==
  /\ caddy.slip
  /\ env.hook => ById(caddy.routes, "hook") # 0
  /\ Len(app) = 1 => \E i \in DOMAIN caddy.routes :
       caddy.routes[i] = [id |-> RouteId(1), host |-> app[1].host, port |-> app[1].port]
  /\ \A s \in Wanted : \E i \in DOMAIN caddy.policies : caddy.policies[i].subj = s

EdgeHeals == <>[](Healable => Healed)
=============================================================================
