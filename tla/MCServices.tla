------------------------------ MODULE MCServices ------------------------------
(* Services for TLC.                                                       *)
EXTENDS Services

\* One service through every fault of the runtime and the file system; apps that
\* bind while services are added and removed, with crashes, with a second
\* service, and with requests that are cut short; and a loss of containers.
MCScenarios ==
  {[names |-> {1}, ready |-> {}, kinds |-> {"add", "ensure", "remove"}, fails |-> Calls,
    events |-> {"crash", "deadline", "lose", "halt", "drift"}],
   [names |-> {1}, ready |-> {1}, kinds |-> {"add", "remove", "bind", "detach"},
    fails |-> {}, events |-> {"crash"}],
   [names |-> {1, 2}, ready |-> {1}, kinds |-> {"add", "remove", "bind", "delete"},
    fails |-> {}, events |-> {}],
   [names |-> {1}, ready |-> {}, kinds |-> {"add", "ensure", "remove", "bind", "delete"},
    fails |-> {"sql"}, events |-> {"disconnect", "deadline"}],
   [names |-> {1, 2}, ready |-> {1}, kinds |-> {"add", "ensure"}, fails |-> {},
    events |-> {"halt"}]}
=============================================================================
