------------------------------ MODULE Runtime ------------------------------
(***************************************************************************)
(* What RuntimeBackend (runtime.rs) promises to the deploy, preview and    *)
(* reconcile code: a call works on one unit only, moves it only along the  *)
(* edges of its operation, and answers only what is true of that unit when *)
(* it answers.  A call that fails, or whose caller gave up, may have done  *)
(* any part of its work.                                                   *)
(***************************************************************************)
CONSTANTS Callers, Units, NoUnit

VARIABLES
  state,    \* the state of every unit
  pending,  \* the operation every caller waits for, or "idle"
  target,   \* the unit it works on, or NoUnit
  answer    \* the last answer of every caller: Ok, No, Err, or "-"

vars == <<state, pending, target, answer>>

Ops == {"create", "stop", "start", "remove", "exists", "running", "extract",
        "other"}

(* The moves an operation may make its unit take.                          *)
Edges(op) ==
  CASE op = "create"  -> {<<"none", "created">>, <<"created", "running">>,
                          <<"stopped", "running">>}
    [] op = "stop"    -> {<<"running", "stopped">>}
    [] op = "start"   -> {<<"created", "running">>, <<"stopped", "running">>}
    [] op = "remove"  -> {<<"running", "stopped">>, <<"stopped", "none">>,
                          <<"created", "none">>}
    [] op = "extract" -> {<<"none", "created">>, <<"created", "none">>,
                          <<"running", "none">>, <<"stopped", "none">>}
    [] OTHER          -> {}

(* What an answer says about the unit.                                     *)
Holds(op, s, a) ==
  CASE op \in {"create", "start"} -> a = "Ok" => s = "running"
    [] op = "stop"    -> a = "Ok" => s \in {"created", "stopped"}
    [] op = "remove"  -> a = "Ok" => s = "none"
    [] op = "exists"  -> /\ a = "Ok" => s # "none"
                         /\ a = "No" => s = "none"
    [] op = "running" -> /\ a = "Ok" => s = "running"
                         /\ a = "No" => s \in {"created", "stopped"}
    [] OTHER          -> TRUE

Init ==
  /\ state = [u \in Units |-> "none"]
  /\ pending = [c \in Callers |-> "idle"]
  /\ target = [c \in Callers |-> NoUnit]
  /\ answer = [c \in Callers |-> "-"]

Call(c) ==
  /\ pending[c] = "idle"
  /\ \E op \in Ops, u \in Units \cup {NoUnit} :
       /\ pending' = [pending EXCEPT ![c] = op]
       /\ target' = [target EXCEPT ![c] = u]
  /\ answer' = [answer EXCEPT ![c] = "-"]
  /\ UNCHANGED state

(* An operation the backend does not support fails at once.                *)
Refuse(c) ==
  /\ pending[c] = "idle"
  /\ answer' = [answer EXCEPT ![c] = "Err"]
  /\ UNCHANGED <<state, pending, target>>

(* A call moves its unit; one that creates picks an unused one.            *)
Move(c, u) ==
  /\ \/ target[c] = u
     \/ target[c] = NoUnit /\ pending[c] \in {"create", "extract"}
  /\ \E e \in Edges(pending[c]) :
       state[u] = e[1] /\ state' = [state EXCEPT ![u] = e[2]]

(* A call goes on after at most one move of its unit.                      *)
Work(c) ==
  /\ pending[c] # "idle"
  /\ \E u \in Units : Move(c, u) /\ target' = [target EXCEPT ![c] = u]
  /\ UNCHANGED <<pending, answer>>

(* A call answers, or its caller gives up, after at most one move.         *)
Answer(c) ==
  /\ pending[c] # "idle"
  /\ UNCHANGED state \/ \E u \in Units : Move(c, u)
  /\ \E a \in {"-", "Ok", "No", "Err"} :
       /\ answer' = [answer EXCEPT ![c] = a]
       /\ target[c] # NoUnit => Holds(pending[c], state'[target[c]], a)
       /\ target[c] = NoUnit =>
            a # "Ok" \/ pending[c] \notin {"create", "extract"}
  /\ pending' = [pending EXCEPT ![c] = "idle"]
  /\ target' = [target EXCEPT ![c] = NoUnit]

(* A process exits by itself.                                              *)
Exit ==
  /\ \E u \in Units : /\ state[u] = "running"
                      /\ state' = [state EXCEPT ![u] = "stopped"]
  /\ UNCHANGED <<pending, target, answer>>

Next == Exit \/ \E c \in Callers : Call(c) \/ Refuse(c) \/ Work(c) \/ Answer(c)

Spec == Init /\ [][Next]_vars
=============================================================================
