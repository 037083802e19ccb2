-------------------------------- MODULE Cli --------------------------------
(* The slip command line (slip-cli main.rs) against slipd's handlers: a     *)
(* command makes its requests one after the other (most make one; services  *)
(* rm, apply and deploy more), waits at most thirty seconds for each, and   *)
(* turns the last answer into an exit code.  Most commands read the status  *)
(* back out of the error text they have formatted, text from the server     *)
(* included, so a number in a name can pass for a status.                   *)
EXTENDS Api, FiniteSetsExt

CONSTANT Digits   \* statuses that occur as a number in names the server repeats

VARIABLE cli      \* request -> the command that made it, at which of its steps it is, how it
                  \* exited and whether it said there was nothing to do

vars == <<apiVars, cli>>

OK == 0
GENERIC == 1
USAGE == 2
AUTH == 3
NOT_FOUND == 4
DEPLOY_FAILED == 5
TIMEOUT == 6
DRY_RUN_FAILURE == 7

\* The commands whose handlers are modelled as one step, with the statuses that refuse them;
\* of rm, the reading of the generation.
Refused ==
  [login    |-> {400},           logout   |-> {400, 404}, registries |-> {},
   set      |-> {400, 404, 409}, unset    |-> {404, 409}, secrets    |-> {404},
   previews |-> {401, 404},      teardown |-> {401, 404}, services   |-> {},
   renew    |-> {400, 404, 409}, rm       |-> {400},      key        |-> {404}]

\* The request of each other command; of rm and deploy, the one that changes something.
Asks ==
  [list |-> "get", add |-> "create", edit |-> "update", remove |-> "delete",
   daemon |-> "status", link |-> "status", status |-> "appStatus", logs |-> "logs",
   deploy |-> "deploy", rollback |-> "rollback", newService |-> "svcAdd", rm |-> "svcRemove"]

Commands == DOMAIN Refused \cup DOMAIN Asks \cup {"apply"}

ASSUME CliAssumption ==
  /\ Nil \notin Commands \cup {"tick", "task", "store", "wait"} \cup {Asks[c] : c \in DOMAIN Asks}
  /\ Nil \notin {OK, GENERIC, USAGE, AUTH, NOT_FOUND, DEPLOY_FAILED, TIMEOUT, DRY_RUN_FAILURE}
  /\ \A e \in Scenes : \A r \in Reqs : e[r] \subseteq (Commands \cup {"tick"}) \X Apps

Kind(c) == IF c \in DOMAIN Asks THEN Asks[c] ELSE "store"

\* A command's first step: rm reads the generation, apply looks the app up, and deploy
\* applies first unless told not to.
FirstStep(c) ==
  CASE c \in {"apply", "rm"} -> {"look"}
    [] c = "deploy"          -> {"look", "ask"}
    [] OTHER                 -> {"ask"}

\* The request of a step: an apply creates the app where it was not found, else changes it.
Request(c, step) ==
  CASE step \in {"look", "again"} -> IF c = "rm" THEN "store" ELSE "get"
    [] step = "make"             -> "create"
    [] step = "change"           -> "update"
    [] OTHER                     -> Kind(c)

\* What a command that changes slipd's state is, as opposed to one that only reads it.
Changing == {"add", "edit", "remove", "deploy", "rollback", "newService", "login", "logout",
             "set", "unset", "teardown", "renew", "rm", "key", "apply"}

(* --------------------------- from answer to exit code --------------------------- *)

Success(m) == m.code \in {200, 202}

\* The numbers an error text is searched for: the status and what the body repeats.
Found(m) == {m.code} \cup m.text

\* An if chain over the text: the first rule that matches decides.
Classify(m, rules) ==
  LET hit == {i \in DOMAIN rules : rules[i][1] \cap Found(m) # {}}
  IN  IF hit = {} THEN GENERIC ELSE rules[Min(hit)][2]

AuthRule == <<{401, 403}, AUTH>>
MissingRule == <<{404}, NOT_FOUND>>

\* Commands that hand api_request's error to main.
AppsExit(m) == GENERIC
SecretsExit(m) == GENERIC
PreviewsExit(m) == GENERIC
RollbackExit(m) == GENERIC

\* Commands that look at the status itself.
DeployExit(m) == IF m.code = 404 THEN NOT_FOUND ELSE GENERIC
ApplyExit(step, m) ==
  CASE m.code = 401                                -> IF step = "again" THEN GENERIC ELSE AUTH
    [] m.code = 403 /\ step = "look"               -> AUTH
    [] m.code = 404 /\ step \in {"make", "change"} -> NOT_FOUND
    [] OTHER                                       -> GENERIC
DaemonExit(m) == IF m.code \in {401, 403} THEN AUTH ELSE GENERIC
LinkExit(m) == IF m.code \in {401, 403} THEN AUTH ELSE GENERIC
StatusExit(m) == IF m.code = 404 THEN NOT_FOUND ELSE DaemonExit(m)
LogsExit(m) == IF m.code = 400 THEN USAGE ELSE StatusExit(m)

\* Commands that search the text.
RenewExit(m) == Classify(m, << <<{401}, AUTH>> >>)
LoginExit(m) == Classify(m, << <<{400}, USAGE>>, AuthRule, MissingRule >>)
KeyExit(m) == Classify(m, << AuthRule, MissingRule >>)
LogoutExit(m) == Classify(m, << AuthRule, MissingRule >>)
RegistriesExit(m) == Classify(m, << AuthRule >>)
ServicesExit(m) == Classify(m, << AuthRule, MissingRule >>)
ServicesRmExit(m) == Classify(m, << AuthRule, MissingRule, <<{409}, GENERIC>> >>)

\* A services add that would take a conflict for a mistake in the command.
ServicesAddExitConflict(m) == Classify(m, << AuthRule, <<{400, 409}, USAGE>> >>)

ServicesAddExit(m) == Classify(m, << AuthRule, <<{409}, GENERIC>>, <<{400}, USAGE>> >>)

CommandExit(c, m) ==
  CASE c \in {"list", "add", "edit", "remove"}  -> AppsExit(m)
    [] c \in {"set", "unset", "secrets"}        -> SecretsExit(m)
    [] c \in {"previews", "teardown"}           -> PreviewsExit(m)
    [] c = "rollback"                           -> RollbackExit(m)
    [] c = "deploy"                             -> DeployExit(m)
    [] c = "daemon"                             -> DaemonExit(m)
    [] c = "link"                               -> LinkExit(m)
    [] c = "status"                             -> StatusExit(m)
    [] c = "logs"                               -> LogsExit(m)
    [] c = "renew"                              -> RenewExit(m)
    [] c = "login"                              -> LoginExit(m)
    [] c = "key"                                -> KeyExit(m)
    [] c = "logout"                             -> LogoutExit(m)
    [] c = "registries"                         -> RegistriesExit(m)
    [] c = "services"                           -> ServicesExit(m)
    [] c = "rm"                                 -> ServicesRmExit(m)
    [] c = "newService"                         -> ServicesAddExit(m)

\* An apply, and the one deploy makes first, exits by rules of its own.
ErrorExit(c, step, m) ==
  IF step \in {"look", "make", "again", "change"} /\ c # "rm" THEN ApplyExit(step, m)
                                                             ELSE CommandExit(c, m)

\* api_request: anything but a success is an error, and the exit code the command's.
ApiRequest(c, step, m) == IF Success(m) THEN OK ELSE ErrorExit(c, step, m)

(* -------------------------------- the commands -------------------------------- *)

CliInit == ApiInit /\ cli = [r \in Reqs |-> [cmd |-> Nil, step |-> Nil, exit |-> Nil, told |-> FALSE]]

\* What main refuses before any request: no token, an argument or a slip.toml that does
\* not parse.
Refuses(c) ==
  {AUTH, GENERIC}
  \cup (IF c \in {"logs", "login", "logout", "link", "apply", "key"} THEN {USAGE} ELSE {})
  \cup (IF c = "apply" THEN {DRY_RUN_FAILURE} ELSE {})

Command(c, step) == [cmd |-> c, step |-> step, exit |-> Nil, told |-> FALSE]

\* main dispatches a command: refused on the spot, slipd not reached, a removal not
\* confirmed, the token not accepted (the daemon status is open to all), or the first
\* request handled.
Run(r, c, a) ==
  /\ req[r].at = "idle" /\ cli[r].cmd = Nil
  /\ c # "tick"
  /\ \E step \in FirstStep(c) :
       \/ /\ \E code \in Refuses(c) :
               cli' = [cli EXCEPT ![r] = [Command(c, step) EXCEPT !.exit = code]]
          /\ UNCHANGED apiVars
       \/ /\ c = "remove"
          /\ cli' = [cli EXCEPT ![r] = [Command(c, step) EXCEPT !.exit = OK, !.told = TRUE]]
          /\ UNCHANGED apiVars
       \/ /\ Kind(c) # "status"
          /\ cli' = [cli EXCEPT ![r] =
                 [Command(c, step) EXCEPT !.exit = ApiRequest(c, step, [code |-> 401, text |-> {}])]]
          /\ UNCHANGED apiVars
       \/ /\ Arrive(r, Request(c, step), a)
          /\ cli' = [cli EXCEPT ![r] = Command(c, step)]

\* The reconcile loop's own request.
Ticks(r, a) ==
  /\ <<"tick", a>> \in scene[r] /\ cli[r].cmd = Nil
  /\ Arrive(r, "tick", a)
  /\ cli' = [cli EXCEPT ![r].cmd = "tick"]

\* The handlers of the other commands: a refusal changes nothing, a failure may have.
Store(r) ==
  /\ At(r, {"store"}, "store")
  /\ \E code \in {200, 500, 502, 504} \cup Refused[cli[r].cmd], did \in BOOLEAN :
       /\ code = 200 => did = (cli[r].cmd \in Changing \ {"rm"})
       /\ code \in Refused[cli[r].cmd] \/ cli[r].cmd \notin Changing \ {"rm"} => ~did
       /\ req' = [Answered(r, code) EXCEPT ![r].did = did]
  /\ Dropped(r)
  /\ UNCHANGED <<data, cli>>

Unanswered(r) == cli[r].cmd \notin {Nil, "tick"} /\ cli[r].exit = Nil

\* Where an answer leads to: rm asks for the removal at the generation it read; an apply
\* creates an app that is not there, looks again when someone else has, changes one that
\* differs; a deploy follows its apply; the accepted deploy may be waited for.
Leads(c, code) ==
  CASE c.step = "look" /\ c.cmd = "rm"              -> IF code = 200 THEN {"ask"} ELSE {}
    [] c.step = "look" /\ c.cmd # "rm" /\ code = 404 -> {"make"}
    [] c.step = "make" /\ code = 409                -> {"again"}
    [] c.step \in {"look", "again"} /\ c.cmd # "rm" /\ code = 200 ->
         {"change"} \cup (IF c.cmd = "deploy" THEN {"ask"} ELSE {})
    [] c.step \in {"make", "change"} /\ code = 200  -> IF c.cmd = "deploy" THEN {"ask"} ELSE {}
    [] c.step = "ask" /\ c.cmd = "deploy" /\ code = 202 -> {"wait"}
    [] OTHER                                       -> {}

\* Whether the command may exit on it all the same.
MayEnd(c, code) == Leads(c, code) = {} \/ code = 202 \/ (c.cmd = "apply" /\ code = 200)

Sends(r, k) == req' = [req EXCEPT ![r] = [Idle EXCEPT !.kind = k, !.app = A(r), !.at = First(k)]]

\* The answer leads to the command's next request, or to the polling of the deploy.
Continue(r) ==
  /\ Unanswered(r) /\ req[r].code # 0
  /\ \E step \in Leads(cli[r], req[r].code) :
       /\ cli' = [cli EXCEPT ![r].step = step]
       /\ IF step = "wait" THEN UNCHANGED req ELSE Sends(r, Request(cli[r].cmd, step))
       /\ step = "make" => born[A(r)] < MaxInc
  /\ UNCHANGED <<data, appLock, held, queue>>

\* Nothing of an answer is needed once it has been read, but whether it had an effect.
Forgotten(r) == IF Open(r) THEN req
                ELSE [req EXCEPT ![r] = [Idle EXCEPT !.at = "end", !.did = req[r].did, !.won = req[r].won]]

\* The answer is the last; an apply may have found the app up to date.
Receive(r) ==
  /\ Unanswered(r) /\ req[r].code # 0 /\ cli[r].step # "wait"
  /\ MayEnd(cli[r], req[r].code)
  /\ \E text \in SUBSET Digits :
       LET m == [code |-> req[r].code, text |-> text]
       IN  cli' = [cli EXCEPT ![r].exit = ApiRequest(cli[r].cmd, cli[r].step, m),
                              ![r].told = Success(m) /\ cli[r].step \in {"look", "again"}]
  /\ req' = Forgotten(r)
  /\ UNCHANGED <<data, appLock, held, queue>>

\* deploy --wait polls the recorded deploy until it has ended or the time is over; a time
\* that does not parse is noticed here.
Poll(r) ==
  /\ Unanswered(r) /\ cli[r].step = "wait"
  /\ \E code \in {USAGE, TIMEOUT, IF req[r].won THEN OK ELSE DEPLOY_FAILED} :
       /\ code \in {OK, DEPLOY_FAILED} => ~Open(r)
       /\ cli' = [cli EXCEPT ![r].exit = code]
  /\ req' = Forgotten(r)
  /\ UNCHANGED <<data, appLock, held, queue>>

\* The thirty seconds are over, the operator stops the command, the answer is lost or does
\* not parse, or what is to be done with it locally fails (no secret to sign with, a key gh
\* does not take, a dry run).
GiveUp(r) ==
  /\ Unanswered(r)
  /\ cli' = [cli EXCEPT ![r].exit = GENERIC]
  /\ \/ HangUp(r)
     \/ /\ ~Open(r) \/ req[r].kind = "task"
        /\ req' = Forgotten(r)
        /\ UNCHANGED <<data, appLock, held, queue>>

Next ==
  \E r \in Reqs :
    \/ \E s \in scene[r] : Ticks(r, s[2]) \/ Run(r, s[1], s[2])
    \/ Serve(r) /\ UNCHANGED cli
    \/ Store(r) \/ Continue(r) \/ Receive(r) \/ Poll(r) \/ GiveUp(r)

Spec == CliInit /\ [][Next]_vars

\* slipd runs every handler that can go on; a call to the runtime comes back or fails.
Fairness ==
  \A r \in Reqs : /\ WF_vars((Wait(r) \/ Local(r)) /\ UNCHANGED cli)
                  /\ WF_vars(Store(r))

FairSpec == Spec /\ Fairness /\ \A r \in Reqs : WF_vars(DeleteStop(r) /\ UNCHANGED cli)

(* ------------------------------- properties ------------------------------- *)

\* A command that changes something and exits 0 has had its effect on slipd or has said that
\* nothing was to be done; one that exits with usage, auth or not found, or a failed dry
\* run, has had none; deploy's own codes follow an accepted deploy, and after --wait 0 is
\* one that completed.  Only exit 1 leaves the operator to find out, as after a time-out or
\* a lost answer.  The effect is that of the last request: of the apply a deploy makes
\* first, nothing is said; and a --wait-timeout that does not parse is refused after the
\* deploy was accepted.  For names without a status in them; a renewal of a host whose
\* certificate another manager keeps, a key that exists and previews that are gone count
\* as done.
ExitTellsEffect ==
  \A r \in Reqs : LET c == cli[r] IN
    /\ c.exit = OK /\ c.cmd \in Changing => req[r].did \/ c.told
    /\ c.exit = OK /\ c.step = "wait" => req[r].won
    /\ c.exit \in {USAGE, AUTH, NOT_FOUND, DRY_RUN_FAILURE} /\ c.step # "wait" => ~req[r].did
    /\ c.exit \in {DEPLOY_FAILED, TIMEOUT} \/ c.step = "wait" => req[r].did

=============================================================================
