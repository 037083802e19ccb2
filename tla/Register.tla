------------------------------- MODULE Register -------------------------------
(***************************************************************************)
(* What a secret bundle promises: the password a service is started with   *)
(* is one value that is replaced as a whole, and never lost.               *)
(***************************************************************************)
CONSTANTS Nil, Values

VARIABLE val

Init == val = Nil

\* A new password takes effect; the one before may never come back.
Replace(v) == val # v /\ val' = v

Next == \E v \in Values : Replace(v)

Spec == Init /\ [][Next]_val
=============================================================================
