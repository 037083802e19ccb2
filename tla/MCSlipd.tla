------------------------------- MODULE MCSlipd -------------------------------
(* Slipd for TLC: a behaviour belongs to one of four scenes, each an instance  *)
(* of Slipd with faults and events of its own.  Deploy ids come from a clock,   *)
(* so they are used in their order.                                            *)
EXTENDS Slipd, Sequences

CONSTANTS d1, d2, d3, t1, t2

VARIABLE scene

mcVars == <<allVars, scene>>

\* slipd dies and restarts at any step of blue-green deploys, with every fault after
\* which what it promises of a crash still holds.
Crashing == INSTANCE Slipd WITH
  Kinds <- {"http", "pod"}, Strategies <- {"blue-green"}, Tags <- {t1},
  Events <- {"crash"}, FailingCalls <- AllCalls \ {"save", "reply", "route"},
  DeadlineSteps <- TimedSteps \ {"bg_switch", "bg_update", "bg_drain"}

\* The app is deployed, deleted and created again, with every fault after which a delete
\* still leaves nothing.
Deleting == INSTANCE Slipd WITH
  Kinds <- {"http", "pod", "worker"}, Tags <- {t1}, Events <- {"delete", "caddy_restart"},
  FailingCalls <- AllCalls \ {"remove", "inspect", "unroute"},
  DeadlineSteps <- TimedSteps \ (PodSteps \cup
    {"bg_start", "bg_drain", "rc_start", "t2_create", "t2_health", "t2_route", "t2_update", "t2_discard"})

\* Every event happens around deploys of containers.
Healing == INSTANCE Slipd WITH
  Kinds <- {"http"}, Tags <- {t1}, Ports <- {1, 2}, Events <- AllEvents,
  FailingCalls <- {"health", "start"}, DeadlineSteps <- {"bg_drain"}

\* Every call fails, every await meets the deadline.
Chaos == INSTANCE Slipd WITH
  Kinds <- AllKinds, Tags <- {t1}, Ports <- {1, 2}, Events <- {},
  FailingCalls <- AllCalls, DeadlineSteps <- TimedSteps

Order == <<d1, d2, d3>>
InOrder == \A i \in 2..Len(Order) : pc'[Order[i]] # "idle" => pc[Order[i - 1]] # "idle"

In(s, A) == scene = s /\ A /\ InOrder /\ UNCHANGED scene
Two(A) == A /\ pc'[d3] = "idle"

\* Nothing is left to happen: every deploy id has been used.
AllDone == up /\ ~ticking /\ del = "none" /\ \A d \in Deploys : pc[d] \in {"idle", "done"}

MCNext ==
  \/ In("crash", Crashing!SlipdNext)
  \/ In("delete", Two(Deleting!SlipdNext))
  \/ In("heal", Two(Healing!SlipdNext))
  \/ In("chaos", Two(Chaos!SlipdNext))
  \/ AllDone /\ UNCHANGED mcVars

MCInit == SlipdInit /\ scene \in {"crash", "delete", "heal", "chaos"}

MCSpec == MCInit /\ [][MCNext]_mcVars

\* What is fair: the reconcile loop's timer while things heal, the deploy timer in the
\* chaos.  A tick alternates its two steps and one deploy is in flight at a time, so
\* fairness of the whole is fairness of each.
Timers ==
  \/ In("heal", Healing!Snapshot \/ Healing!ApplySnapshot)
  \/ In("chaos", \E d \in Deploys : (Chaos!Timeout(d) \/ Chaos!TimeoutCleanup(d)) /\ UNCHANGED slipdVars)

MCFairSpec == MCSpec /\ WF_mcVars(Timers)

-----------------------------------------------------------------------------
(* The properties of Slipd and Deploy, each in the scene it is meant for.     *)

\* Traffic survives a crash of slipd at any step of a blue-green deploy, and what startup
\* guesses from the state file is true: an app shown as running is routed to a container
\* or pod that listens.
CrashRecovers == scene = "crash" => CrashKeepsServing /\ RunningIsRouted

\* Once an app is deleted nothing of it runs and no route of it is left.
DeletedIsGone == scene = "delete" => DeletedIsUnrouted /\ DeletedIsStopped

\* The reconcile loop brings back the route of a running app, however often Caddy
\* loses it and whatever a stale tick wrote over it.
RouteHeals == scene = "heal" => RunningRouteHeals

\* Every accepted deploy ends, even if the calls it makes hang.
DeployEnds == scene = "chaos" => EveryDeployEnds

=============================================================================
