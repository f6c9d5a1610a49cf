------------------------------ MODULE MCGuard ------------------------------
(* One environment that expires within what a flag may claim. *)
EXTENDS GuardInv
MCFrom == [e \in Environments |-> 0]
MCUntil == [e \in Environments |-> MaxTime]
=============================================================================
