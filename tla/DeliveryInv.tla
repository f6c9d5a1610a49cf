------------------------------ MODULE DeliveryInv ------------------------------
(***************************************************************************)
(* The inductive invariant of DeliveryLedger: what its safety properties   *)
(* rest on, in parts that each speak of one idea.                          *)
(***************************************************************************)
EXTENDS DeliveryLedger

\* A suspended handler still finds the stage in which it was started: nothing
\* but the handler itself changes the status of a stored dispatch.
AwaitMatchesStage ==
  \A d \in Deliveries :
    LET st == storage[d].status
    IN  /\ pc[d] \in {"source", "verify", "claim", "accept"} => st = "retry_queued"
        /\ pc[d] = "create_token" => st = "queued"
        /\ pc[d] = "create" => st = "creating" /\ ~storage[d].recovery
        /\ pc[d] = "recover" => st = "creating"
        /\ pc[d] \in {"created", "dispatch_token"} => st = "check_created"
        /\ pc[d] = "dispatch" => st = "dispatching"
        /\ pc[d] \in {"finish", "finish_patch"} => st \in {"dispatched", "check_created"}
        /\ pc[d] = "report" => st = "retained"

\* The stored stage bounds what may have been asked of GitHub so far.
RequestsMatchStage ==
  \A d \in Deliveries :
    LET s == storage[d]
    IN  /\ d \notin accepted => creates[d] = 0 /\ dispatches[d] = 0
        /\ s.status \in {"retry_queued", "queued"} =>
             creates[d] = 0 /\ dispatches[d] = 0 /\ ~s.recovery
        /\ s.status \in {"creating", "check_created", "dispatching"} => creates[d] = 1
        /\ s.status \in {"creating", "check_created"} /\ ~s.recovery => dispatches[d] = 0
        /\ s.status \in {"check_created", "dispatching"} => ~s.recovery
        /\ s.status \in {"pending", "failed"} => creates[d] = 1 /\ dispatches[d] = 1

\* Only a delivery of an older release is reconciled, and the control workflow
\* runs only for a dispatch that was sent.
RunsMatchRequests ==
  \A d \in Deliveries :
    /\ dispatches[d] = 0 => run[d] = "none"
    /\ storage[d].recovery => d \in Legacy
    /\ storage[d].status \in {"pending", "failed"} => d \in Legacy

\* A deleted record stays deleted: its redelivery window is over.
ForgottenForGood ==
  \A d \in Deliveries :
    /\ d \notin accepted => storage[d].status = "none"
    /\ d \in accepted /\ storage[d].status = "none" => window[d] = 0
    /\ storage[d].status = "retained" => window[d] <= storage[d].wake
    /\ window[d] <= RedeliveryWindow

\* A check run exists only for a creation request that was sent and used.
ChecksMatchRequests ==
  \A d \in Deliveries :
    /\ creates[d] = 0 => post[d] = "none" /\ \A c \in CheckIds : owner[c] # d
    /\ post[d] = "sent" => \A c \in CheckIds : owner[c] # d
    /\ post[d] \in CheckIds => owner[post[d]] = d

\* The ledger's check is its own, and what it says of it is so.
CheckIsOwn ==
  \A d \in Deliveries :
    LET s == storage[d]
    IN  /\ s.check # NoCheck => owner[s.check] = d
        /\ s.status \in {"check_created", "dispatching", "dispatched"} => s.check # NoCheck
        /\ patch[d] = "done" => \E c \in Owned(d) : result[c] # "queued"
        /\ s.terminal \in {"completed", "timed_out"} =>
             s.check # NoCheck /\ result[s.check] # "queued"

\* A dispatched record sleeps at least until its deadline.
DeadlineFirst ==
  \A d \in Deliveries :
    /\ storage[d].status = "dispatched" => storage[d].deadline <= storage[d].wake
    /\ pc[d] \in {"finish", "finish_patch"} => storage[d].deadline = 0

\* r was told that it may retry c.
Admitted(r, c) ==
  \/ retryOf[r] = c
  \/ pc[r] = "accept" /\ storage[r].request = c

\* The claim at the original ledger backs an admission, until that record is
\* deleted for good.
ClaimBacksRetry ==
  \A r \in Reruns :
    /\ storage[r].status = "retry_queued" =>
         /\ storage[r].request \in CheckIds
         /\ owner[storage[r].request] # NoDelivery
    /\ pc[r] \in {"claim", "accept"} => result[storage[r].request] # "queued"
    /\ \A c \in CheckIds : Admitted(r, c) =>
         /\ owner[c] \in accepted
         /\ result[c] # "queued"
         /\ \/ storage[owner[c]].status = "none"
            \/ /\ storage[owner[c]].retry_claim = r
               /\ storage[owner[c]].status \notin {"pending", "failed"}

OneAdmission ==
  \A q, r \in Reruns : \A c \in CheckIds : Admitted(q, c) /\ Admitted(r, c) => q = r

\* A rerun asks for its own check only after it was admitted.
QueuedWasAdmitted ==
  /\ \A d \in Deliveries : storage[d].status = "retry_queued" => d \in Reruns
  /\ \A r \in Reruns :
       /\ storage[r].status = "queued" \/ creates[r] > 0 => retryOf[r] \in CheckIds
       /\ storage[r].status = "retry_queued" \/ r \notin accepted => retryOf[r] = NoCheck

IndInv ==
  /\ TypeOK
  /\ AwaitMatchesStage
  /\ AtMostOneRequest
  /\ RequestsMatchStage
  /\ RunsMatchRequests
  /\ ForgottenForGood
  /\ ChecksMatchRequests
  /\ OneCheckPerDelivery
  /\ CheckIsOwn
  /\ DeadlineFirst
  /\ ClaimBacksRetry
  /\ OneAdmission
  /\ QueuedWasAdmitted
  /\ WatchedWhileRunning
=============================================================================
