-------------------------- MODULE ContinuityMishap --------------------------
(***************************************************************************)
(* One accident to a history that no command is writing to: an event file  *)
(* disappears or is replaced by a copy of another, or an older tip is put  *)
(* back.  The local tip and the chained hashes are there to notice it.     *)
(***************************************************************************)
EXTENDS Continuity

VARIABLE spared     \* no accident has happened yet

Untouched == \A p \in Procs : proc[p] = Idle
Removed(n) == stored' = [stored EXCEPT ![n] = Absent] /\ UNCHANGED tip
Replaced(n, m) == stored' = [stored EXCEPT ![n] = stored[m]] /\ UNCHANGED tip
PutBack(n) == tip' = SubSeq(tip, 1, n) /\ UNCHANGED stored

Accident ==
    /\ spared /\ Untouched /\ laid = 4
    /\ Cardinality(staples) < MaxStaples    \* later ones nobody looks at
    /\ spared' = FALSE
    /\ \/ \E n \in Names : Removed(n)
       \/ \E n, m \in Names : n # m /\ Replaced(n, m)
       \/ \E n \in 0 .. Len(tip) - 1 : PutBack(n)
    /\ UNCHANGED <<now, root, laid, temps, proc, acked, staples, job>>

MishapInit == Init /\ spared = TRUE
MishapNext == (Next /\ UNCHANGED spared) \/ Accident
MishapSpec == MishapInit /\ [][MishapNext]_<<vars, spared>>
=============================================================================
