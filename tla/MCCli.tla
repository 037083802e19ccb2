------------------------------- MODULE MCCli -------------------------------
(* Three requests at once, for two apps: a delete and a deploy with one that  *)
(* looks, or with a tick; changes of a service; an apply between a delete and *)
(* a create; and every command by itself.                                     *)
EXTENDS Cli

CONSTANTS r1, r2, r3, a, b

Scene(x, y, z) == [r \in Reqs |-> CASE r = r1 -> x [] r = r2 -> y [] r = r3 -> z]

Contention ==
  {Scene({"remove"} \X {a}, ({"deploy"} \X {a, b}) \cup ({"add"} \X {a}), {"daemon", "status"} \X {a}),
   Scene({"remove"} \X {a}, {"rollback", "edit"} \X {b}, {"logs", "list", "tick"} \X {a}),
   Scene({"edit"} \X {a}, {"rm", "newService"} \X {b}, {"tick", "remove"} \X {b}),
   Scene({"apply"} \X {a}, {"remove"} \X {a}, {"add"} \X {a})}

Alone == Scene(Commands \X {a}, {}, {})

AllScenes == Contention \cup {Alone}

=============================================================================
