------------------------------ MODULE MCDeploy ------------------------------
(* Deploy for TLC: the deploy ids are used up one after the other.         *)
EXTENDS Deploy, TLC

\* Every deploy id has been used.
AllDone == \A d \in Deploys : pc[d] = "done"

MCNext == Next \/ (AllDone /\ UNCHANGED vars)

MCSpec == Init /\ [][MCNext]_vars

MCFairSpec == MCSpec /\ Fairness

\* Deploy ids and tags are interchangeable; ports are not (0 is special).
Symmetry == Permutations(Deploys) \cup Permutations(Tags)
=============================================================================
