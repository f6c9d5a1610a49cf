---------------------------- MODULE RunSupervisorInv ----------------------------
(***************************************************************************)
(* The inductive invariant of RunSupervisor, in named parts.  Each part is *)
(* what one of the safety properties rests on.                             *)
(***************************************************************************)
EXTENDS RunSupervisor

Over == {"finally", "done"}

Reported == receipt.state # "none"

\* A receipt is made once, on the way to `finally'.
ReceiptAtEnd == pc \notin Over => receipt = NoReceipt

\* Before the launch there is neither a process nor output.
Unlaunched ==
  /\ pc \in {"start", "ready"} => leader = "none"
  /\ pc \in Before =>
       /\ verify = "none" /\ ~confirmed /\ ~exitSeen /\ orphanCheck = "none"
       /\ term["stop"] = "idle" /\ term["catch"] = "idle"
  /\ leader = "none" =>
       /\ descendants = 0 /\ ~escaped /\ ~outputFailure
       /\ capture # "busy" /\ mirror # "busy" /\ produced = 0 /\ stream = "open"
  /\ leader = "none" => pc \in Before \cup Over /\ ~exitSeen

\* Termination is confirmed of a group that is gone for good.
Gone == (confirmed \/ receipt.confirmed) => ~Live

\* The stop handler runs, and the verification is cancelled, only on a stop or
\* in the catch block.
Caused ==
  /\ term["stop"] # "idle" => stop # "none"
  /\ outputFailure => stop # "none"
  /\ verify = "cancelled" =>
       stop # "none" \/ pc \in {"catch", "catchStop", "catchTerm"} \cup Over

\* Without a stop the function gets past the verification only with its result,
\* and past the race only with the exit.
Passed ==
  stop = "none" =>
    /\ pc \in {"racing", "orphans", "lastStop"} \cup WrapUp => stable = "yes"
    /\ pc \in {"orphans", "lastStop"} \cup WrapUp => exitSeen

\* The exit disarms the deadline.
Disarmed == exitSeen => ~timers

InFlight(w) == IF w = "busy" THEN 1 ELSE 0

\* No chunk is written twice.
Counted ==
  /\ unread + written + InFlight(capture) <= produced
  /\ unread + mirrored + InFlight(mirror) <= produced

\* Without a stop no chunk is lost and no write has failed.
Kept ==
  mode = "captured" /\ stop = "none" =>
    /\ unread + written + InFlight(capture) = produced
    /\ unread + mirrored + InFlight(mirror) = produced
    /\ capture \in {"idle", "busy"} /\ mirror \in {"idle", "busy"}
    /\ stream # "closed"

\* A stream that was read to its end left nothing behind.
Ended ==
  stream = "ended" => unread = 0 /\ capture # "busy" /\ mirror # "busy"

\* Past the drain nothing more is read, past the flush nothing more is written.
Flushing ==
  mode = "captured" =>
    /\ pc \in WrapUp \ {"draining"} => stream # "open"
    /\ pc = "lastStop" => stream # "open"
    /\ pc \in {"mirroring", "polling", "finalPoll", "closing", "lastStop"} =>
         capture # "busy"

\* What a receipt other than ERROR was built from still holds.
Backed ==
  /\ receipt.state \in {"EXITED", "STOPPED"} =>
       /\ receipt.confirmed /\ ~outputFailure
       /\ mode = "captured" => capture # "busy"
  /\ receipt.state = "EXITED" =>
       /\ stop = "none" /\ exitSeen /\ receipt.stable = "yes"
       /\ mode = "captured" => stream = "ended"

IndInv ==
  /\ TypeOK
  /\ ReceiptAtEnd /\ Unlaunched /\ Gone /\ Caused /\ Passed /\ Disarmed
  /\ Counted /\ Kept /\ Ended /\ Flushing /\ Backed
=============================================================================
