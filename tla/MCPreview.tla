------------------------------ MODULE MCPreview ------------------------------
(* Preview for TLC.                                                        *)
EXTENDS Preview

\* Nothing is left to happen: every deploy id has been used.
AllDone == up /\ \A d \in Deploys : pc[d] = "done"

MCSpec == Init /\ [][Next \/ (AllDone /\ UNCHANGED vars)]_vars

MCFairSpec == MCSpec /\ Fairness

Symmetry == Permutations(Deploys) \cup Permutations(Previews)
=============================================================================
