---------------------------- MODULE DeliveryPromise ----------------------------
(***************************************************************************)
(* What the public App promises of a webhook delivery, with no stages,     *)
(* alarms, timers or failures: each delivery is accepted once, asks GitHub *)
(* for at most one check run and then for at most one control workflow, is *)
(* settled, and is forgotten for good.  A re-run delivery asks only after  *)
(* it was admitted, and one check admits one re-run ever.                  *)
(***************************************************************************)
CONSTANTS
  Deliveries,
  Reruns,      \* the deliveries that must be admitted
  Legacy,      \* deliveries an older release accepted and asked for
  CheckIds, NoCheck

VARIABLES
  phase,       \* where each delivery stands
  asked,       \* what was asked of GitHub for it: "check", then "run"
  admitted     \* the check that each admitted re-run retries

promise == <<phase, asked, admitted>>

Init ==
  /\ phase = [d \in Deliveries |-> IF d \in Legacy THEN "open" ELSE "new"]
  /\ asked = [d \in Deliveries |-> IF d \in Legacy THEN {"check", "run"} ELSE {}]
  /\ admitted = [d \in Deliveries |-> NoCheck]

Move(d, from, to) ==
  /\ phase[d] = from
  /\ phase' = [phase EXCEPT ![d] = to]
  /\ UNCHANGED <<asked, admitted>>

Ask(d, what) ==
  /\ phase[d] = "open"
  /\ d \in Reruns => admitted[d] # NoCheck
  /\ asked' = [asked EXCEPT ![d] = @ \cup {what}]
  /\ UNCHANGED <<phase, admitted>>

Accept(d) == Move(d, "new", "open")

Admit(r, c) ==
  /\ r \in Reruns /\ phase[r] = "open" /\ asked[r] = {}
  /\ admitted[r] = NoCheck
  /\ \A q \in Reruns : admitted[q] # c
  /\ admitted' = [admitted EXCEPT ![r] = c]
  /\ UNCHANGED <<phase, asked>>

AskCheck(d) == asked[d] = {} /\ Ask(d, "check")

AskRun(d) == asked[d] = {"check"} /\ Ask(d, "run")

Settle(d) == Move(d, "open", "settled")

Forget(d) == Move(d, "settled", "gone")

Next ==
  \E d \in Deliveries :
    \/ Accept(d) \/ AskCheck(d) \/ AskRun(d) \/ Settle(d) \/ Forget(d)
    \/ \E c \in CheckIds : Admit(d, c)

Spec == Init /\ [][Next]_promise

\* Whatever is open is settled in the end, and whatever is settled forgotten.
\* A delivery of an older release is open until it is sent again.
FairSpec ==
  /\ Spec
  /\ \A d \in Deliveries \ Legacy : WF_promise(Settle(d)) /\ WF_promise(Forget(d))
=============================================================================
