------------------------------- MODULE MergeQueue -------------------------------
(***************************************************************************)
(* The merge-queue dispatcher (hosted/merge-queue-dispatcher/src/index.mjs,*)
(* DeliveryLedger) with the workflow it dispatches                         *)
(* (.github/workflows/agent-vigil-merge-group.yml) and the merge queue     *)
(* whose heads that workflow decides.                                      *)
(*                                                                         *)
(* GitHub sends one merge_group delivery for each head it composes, and may*)
(* send it again: the n-th sending is attempt n.  The Durable Object of a  *)
(* delivery answers an attempt, or dispatches the workflow during it; it   *)
(* sets no alarm, so nothing happens to a delivery except when it is sent. *)
(* Storage operations close the input gate, so reading `dispatch' and      *)
(* storing "pending" are one step; each call to GitHub is an await.        *)
(***************************************************************************)
EXTENDS Naturals

CONSTANTS
  MergeGroups,    \* merge_group deliveries, each for a head of its own
  MaxAttempts,    \* bound on how often GitHub sends one delivery
  MaxCrashes      \* bound on the crashes of all ledgers together

ASSUME QueueAssumption == MaxAttempts \in Nat /\ MaxCrashes \in Nat

Attempts == 1 .. MaxAttempts

VARIABLES
  status,      \* what the ledger of each delivery has stored
  pc,          \* the handler of each attempt
  run,         \* the workflow request, then run, of each attempt
  check,       \* the newest "Agent Vigil governed evidence" of each head
  live,        \* the heads that the queue's refs point to
  merged,      \* the heads that GitHub merged
  passed,      \* the heads whose evidence passed in some run
  crashes

ledger == <<status, pc>>
queue  == <<check, live, merged, passed>>
queueVars == <<ledger, run, queue, crashes>>

Handler == {"new", "token", "dispatch", "answered", "failed", "lost"}

Run == {"none", "sent", "started", "queued", "pass", "fail", "current", "done"}

QueueTypeOK ==
  /\ status \in [MergeGroups -> {"none", "pending", "dispatched", "failed"}]
  /\ pc \in [MergeGroups -> [Attempts -> Handler]]
  /\ run \in [MergeGroups -> [Attempts -> Run]]
  /\ check \in [MergeGroups -> {"none", "success", "failure"}]
  /\ live \subseteq MergeGroups /\ merged \subseteq MergeGroups
  /\ passed \subseteq MergeGroups
  /\ crashes \in 0 .. MaxCrashes

QueueInit ==
  /\ status = [d \in MergeGroups |-> "none"]
  /\ pc  = [d \in MergeGroups |-> [n \in Attempts |-> "new"]]
  /\ run = [d \in MergeGroups |-> [n \in Attempts |-> "none"]]
  /\ check = [d \in MergeGroups |-> "none"]
  /\ live = MergeGroups /\ merged = {} /\ passed = {}
  /\ crashes = 0

-----------------------------------------------------------------------------
(* fetch: the delivery is sent, at first or again, whatever became of the   *)
(* earlier attempts.                                                        *)

Goto(d, n, l)    == pc' = [pc EXCEPT ![d][n] = l]
Store(d, s)      == status' = [status EXCEPT ![d] = s]
Becomes(d, n, r) == run' = [run EXCEPT ![d][n] = r]

Sends(d, n) == pc[d][n] = "new" /\ \A m \in 1 .. n - 1 : pc[d][m] # "new"

\* Mutated form of Answered: a dispatch that is under way is not seen.
AnsweredOnlyDone(d) == status[d] = "dispatched"

\* What an earlier attempt has stored answers this one.
Answered(d) == status[d] \in {"dispatched", "pending"}

AnswerPrior(d, n) ==
  /\ Sends(d, n) /\ Answered(d)
  /\ Goto(d, n, "answered")
  /\ UNCHANGED <<status, run, queue, crashes>>

BeginDispatch(d, n) ==
  /\ Sends(d, n) /\ ~Answered(d)
  /\ Store(d, "pending")
  /\ Goto(d, n, "token")
  /\ UNCHANGED <<run, queue, crashes>>

\* dispatchMergeGroup(): the installation token is there.
SendDispatch(d, n) ==
  /\ pc[d][n] = "token"
  /\ Goto(d, n, "dispatch")
  /\ Becomes(d, n, "sent")
  /\ UNCHANGED <<status, queue, crashes>>

DispatchAnswered(d, n) ==
  /\ pc[d][n] = "dispatch" /\ run[d][n] \notin {"none", "sent"}
  /\ Store(d, "dispatched")
  /\ Goto(d, n, "answered")
  /\ UNCHANGED <<run, queue, crashes>>

\* Mutated form of DispatchFails: the failure is not stored.
FailUnstored(d, n) ==
  /\ pc[d][n] \in {"token", "dispatch"}
  /\ Goto(d, n, "failed")
  /\ UNCHANGED <<status, run, queue, crashes>>

\* The token or the dispatch failed, or its answer was lost: the attempt is
\* answered 500 and the delivery may be dispatched again.
DispatchFails(d, n) ==
  /\ pc[d][n] \in {"token", "dispatch"}
  /\ Store(d, "failed")
  /\ Goto(d, n, "failed")
  /\ UNCHANGED <<run, queue, crashes>>

\* The object is evicted during an attempt.
EvictDispatcher(d) ==
  /\ crashes < MaxCrashes
  /\ \E n \in Attempts : pc[d][n] \in {"token", "dispatch"}
  /\ pc' = [pc EXCEPT ![d] = [n \in Attempts |->
              IF @[n] \in {"token", "dispatch"} THEN "lost" ELSE @[n]]]
  /\ crashes' = crashes + 1
  /\ UNCHANGED <<status, run, queue>>

-----------------------------------------------------------------------------
(* The workflow.  Its evidence job looks whether the head is still queued   *)
(* and verifies it; the publish job looks again and then posts the check.   *)

\* GitHub starts the run, and its authenticate job accepts the inputs that the
\* dispatcher signed.
StartWorkflow(d, n) ==
  /\ run[d][n] = "sent"
  /\ Becomes(d, n, "started")
  /\ UNCHANGED <<ledger, queue, crashes>>

LoseDispatch(d, n) ==
  /\ run[d][n] = "sent"
  /\ Becomes(d, n, "none")
  /\ UNCHANGED <<ledger, queue, crashes>>

ConfirmQueued(d, n) ==
  /\ run[d][n] = "started" /\ d \in live
  /\ Becomes(d, n, "queued")
  /\ UNCHANGED <<ledger, queue, crashes>>

EvidencePasses(d, n) ==
  /\ run[d][n] = "queued"
  /\ Becomes(d, n, "pass")
  /\ passed' = passed \cup {d}
  /\ UNCHANGED <<ledger, check, live, merged, crashes>>

\* The head has left the queue, the verdict is no PASS, or the job died.
EvidenceFails(d, n) ==
  /\ run[d][n] \in {"started", "queued"}
  /\ Becomes(d, n, "fail")
  /\ UNCHANGED <<ledger, queue, crashes>>

\* Mutated form of ReadQueue: the outcome of the evidence job is not used.
ReadQueueOnly(d, n) ==
  /\ run[d][n] \in {"pass", "fail"}
  /\ Becomes(d, n, IF d \in live THEN "current" ELSE "fail")
  /\ UNCHANGED <<ledger, queue, crashes>>

\* queueCurrent: the ref is looked up again before the conclusion is drawn.
ReadQueue(d, n) ==
  /\ run[d][n] = "pass"
  /\ Becomes(d, n, IF d \in live THEN "current" ELSE "fail")
  /\ UNCHANGED <<ledger, queue, crashes>>

PostCheck(d, n) ==
  /\ run[d][n] \in {"current", "fail"}
  /\ check' = [check EXCEPT ![d] = IF run[d][n] = "current" THEN "success" ELSE "failure"]
  /\ Becomes(d, n, "done")
  /\ UNCHANGED <<ledger, live, merged, passed, crashes>>

\* The run is cancelled, or its publish job fails.
WorkflowDies(d, n) ==
  /\ run[d][n] \in {"started", "queued", "pass", "fail", "current"}
  /\ Becomes(d, n, "done")
  /\ UNCHANGED <<ledger, queue, crashes>>

-----------------------------------------------------------------------------
(* GitHub's queue: heads leave it, or are merged when their check is green. *)

LeaveQueue(d) ==
  /\ d \in live
  /\ live' = live \ {d}
  /\ UNCHANGED <<ledger, run, check, merged, passed, crashes>>

Merge(d) ==
  /\ d \in live /\ check[d] = "success"
  /\ merged' = merged \cup {d}
  /\ live' = live \ {d}
  /\ UNCHANGED <<ledger, run, check, passed, crashes>>

Fetch(d, n) ==
  \/ AnswerPrior(d, n) \/ BeginDispatch(d, n) \/ SendDispatch(d, n)
  \/ DispatchAnswered(d, n) \/ DispatchFails(d, n)

Workflow(d, n) ==
  \/ StartWorkflow(d, n) \/ LoseDispatch(d, n) \/ ConfirmQueued(d, n)
  \/ EvidencePasses(d, n) \/ EvidenceFails(d, n) \/ ReadQueue(d, n) \/ PostCheck(d, n)
  \/ WorkflowDies(d, n)

QueueNext ==
  \E d \in MergeGroups :
    \/ \E n \in Attempts : Fetch(d, n) \/ Workflow(d, n)
    \/ EvictDispatcher(d) \/ LeaveQueue(d) \/ Merge(d)

QueueSpec == QueueInit /\ [][QueueNext]_queueVars
-----------------------------------------------------------------------------
(* Properties *)

\* An attempt that dispatches, or was cut off while it did.
Holds(d, n) == pc[d][n] \in {"token", "dispatch", "lost"}

\* A delivery that is sent again while it is being dispatched, or after, asks
\* GitHub for a second run only if every attempt that asked before was answered
\* with an error; a crashed one may have succeeded and is never repeated.
RetryOnlyAfterError ==
  \A d \in MergeGroups : \A m, n \in Attempts :
    m < n /\ pc[d][n] \in {"token", "dispatch"} =>
      pc[d][m] \notin {"token", "dispatch", "lost"}

\* A delivery that is refused because it is "pending" is in somebody's hands: an
\* attempt is on its way, or an eviction cut one off that may have succeeded.  A
\* failed attempt never leaves it so, and the next sending dispatches it.  (How
\* long an attempt is on its way is not bounded: the dispatcher's calls of GitHub
\* have no timeout.)
PendingIsHeld ==
  \A d \in MergeGroups :
    status[d] = "pending" => \E n \in Attempts : Holds(d, n)

\* GitHub merges only a head whose own evidence passed, however many runs
\* were dispatched for it and whichever of them posted last.
MergedWasVerified == merged \subseteq passed

\* Whoever dispatched, or may have, holds the delivery: "pending" is stored
\* until that one handler fails or succeeds, and for good when it crashed.  A
\* run that passed and a green check stand for evidence that passed.
QueueInv ==
  /\ QueueTypeOK
  /\ \A d \in MergeGroups : \A n \in Attempts :
       Holds(d, n) =>
         /\ status[d] = "pending"
         /\ \A m \in Attempts : Holds(d, m) => m = n
  /\ \A d \in MergeGroups : \A n \in Attempts :
       run[d][n] \in {"pass", "current"} => d \in passed
  /\ \A d \in MergeGroups : check[d] = "success" => d \in passed
  /\ PendingIsHeld /\ MergedWasVerified
=============================================================================
