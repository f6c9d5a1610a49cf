---------------------------- MODULE DeliveryLedger ----------------------------
(***************************************************************************)
(* The Durable Objects that carry a GitHub webhook of the public App to a  *)
(* finished check run (hosted/public-app/src/index.mjs, DeliveryLedger).   *)
(*                                                                         *)
(* There is one ledger per delivery id.  `fetch' accepts the webhook and   *)
(* sets an alarm; every further step is taken by `alarm', whose awaits on  *)
(* GitHub are separate actions here, so that other ledgers, webhooks,      *)
(* GitHub, the clock and a crash of the object may come between any two.   *)
(* A ledger's writes to its own storage are transactions, and each is part *)
(* of the action that makes it.                                            *)
(*                                                                         *)
(* Time is kept as the time that is left: a timestamp t of the code is     *)
(* max(0, t - now) here, Tick lowers all of them together, and the code's  *)
(* t <= now is "nothing is left".                                          *)
(***************************************************************************)
EXTENDS Integers

CONSTANTS
  Events,          \* deliveries of pull_request and merge_group webhooks
  Reruns,          \* deliveries of check_run (Re-run) webhooks
  Legacy,          \* the Events an older release left as pending or failed
  CheckIds,        \* GitHub's check run numbers
  NoCheck, NoDelivery,
  Soon,                  \* the code's "now + 1": a millisecond, which is 0 when
                         \* an instance counts time in units of the others
  DeliveryRetry,         \* DELIVERY_RETRY_MS
  CheckTimeout,          \* CHECK_COMPLETION_TIMEOUT_MS
  RedeliveryRetention,   \* WEBHOOK_REDELIVERY_RETENTION_MS
  RedeliveryWindow,      \* how long GitHub lets a delivery be sent again
  MaxDeliveryFailures,   \* MAX_DELIVERY_FAILURES
  Crashable,             \* the ledgers that may crash
  MaxCrashes             \* bound on the crashes of all ledgers together

Deliveries == Events \cup Reruns

ASSUME DeliveryAssumption ==
  /\ Events \cap Reruns = {}
  /\ Legacy \subseteq Events
  /\ CheckIds \cap {NoCheck, "none", "sent"} = {}
  /\ NoDelivery \notin Deliveries

ASSUME TimeAssumption ==
  /\ Soon \in Nat /\ DeliveryRetry \in Nat /\ CheckTimeout \in Nat
  /\ RedeliveryRetention \in Nat /\ RedeliveryWindow \in Nat
  /\ MaxDeliveryFailures \in Nat /\ MaxCrashes \in Nat
  /\ RedeliveryWindow <= RedeliveryRetention

VARIABLES
  storage,     \* what each ledger has stored: dispatch, target, request, claim
  pc,          \* the await at which each ledger's alarm handler stands
  window,      \* time left in which GitHub may send a delivery (again)
  accepted,    \* deliveries some fetch has answered 202
  \* GitHub
  owner,       \* the delivery named by the external_id of each check run
  result,      \* the state of each check run
  post,        \* the check-creation request of each delivery
  run,         \* the control workflow request, then run, of each delivery
  patch,       \* the NOT CHECKED update of each delivery
  \* history
  creates,     \* check-creation requests sent for each delivery
  dispatches,  \* workflow-dispatch requests sent for each delivery
  retryOf,     \* the check each rerun was admitted to retry
  operator,    \* the event public_app_delivery_needs_operator of each
  crashes

github  == <<owner, result, post, run, patch>>
history == <<creates, dispatches, retryOf, operator>>
vars == <<storage, pc, window, accepted, github, history, crashes>>

-----------------------------------------------------------------------------
(* The stored record.  The target and the dispatch always carry the same    *)
(* check run id, so there is one field for both.                            *)

Status == {"none", "pending", "failed", "retry_queued", "queued", "creating",
           "check_created", "dispatching", "dispatched", "retained"}

Terminal == {"none", "completed", "timed_out", "needs_operator",
             "retry_rejected"}

Record == [status      : Status,
           terminal    : Terminal,
           failures    : Nat,
           recovery    : BOOLEAN,               \* recovery_only
           deadline    : Nat,                   \* deadline_at
           wake        : Nat,                   \* wake_at, and the alarm
           check       : CheckIds \cup {NoCheck},
           retry_claim : Deliveries \cup {NoDelivery},
           request     : CheckIds \cup {NoCheck}]   \* originalCheckRunId

Blank == [status |-> "none", terminal |-> "none", failures |-> 0,
          recovery |-> FALSE, deadline |-> 0, wake |-> 0, check |-> NoCheck,
          retry_claim |-> NoDelivery, request |-> NoCheck]

Awaits == {"idle", "source", "verify", "claim", "accept", "create_token",
           "create", "recover", "created", "dispatch_token", "dispatch",
           "finish", "finish_patch", "report"}

CheckState == {"queued", "verdict", "not_checked"}

TypeOK ==
  /\ storage \in [Deliveries -> Record]
  /\ pc \in [Deliveries -> Awaits]
  /\ window \in [Deliveries -> Nat]
  /\ accepted \subseteq Deliveries
  /\ owner \in [CheckIds -> Deliveries \cup {NoDelivery}]
  /\ result \in [CheckIds -> CheckState]
  /\ post \in [Deliveries -> {"none", "sent"} \cup CheckIds]
  /\ run \in [Deliveries -> {"none", "sent", "running", "done"}]
  /\ patch \in [Deliveries -> {"none", "sent", "done"}]
  /\ creates \in [Deliveries -> Nat]
  /\ dispatches \in [Deliveries -> Nat]
  /\ retryOf \in [Deliveries -> CheckIds \cup {NoCheck}]
  /\ operator \in [Deliveries -> {"none", "logged", "lost"}]
  /\ crashes \in Nat

Owned(d) == {c \in CheckIds : owner[c] = d}

(* An older release may have created the check and started the control      *)
(* workflow of the record it left; it is charged with both requests.        *)
Init ==
  /\ storage \in {s \in [Deliveries -> {Blank, [Blank EXCEPT !.status = "pending"],
                                        [Blank EXCEPT !.status = "failed"]}] :
                    \A d \in Deliveries : s[d] = Blank <=> d \notin Legacy}
  /\ pc = [d \in Deliveries |-> "idle"]
  /\ window = [d \in Deliveries |-> RedeliveryWindow]
  /\ accepted = Legacy
  /\ owner \in {o \in [CheckIds -> Legacy \cup {NoDelivery}] :
                  \A b, c \in CheckIds : o[b] = o[c] => b = c \/ o[b] = NoDelivery}
  /\ result \in {r \in [CheckIds -> CheckState] :
                   \A c \in CheckIds : owner[c] = NoDelivery => r[c] = "queued"}
  /\ post = [d \in Deliveries |-> "none"]
  /\ run \in {r \in [Deliveries -> {"none", "running"}] :
                \A d \in Deliveries :
                  r[d] = "running" => \E c \in CheckIds : owner[c] = d /\ result[c] = "queued"}
  /\ patch = [d \in Deliveries |-> "none"]
  /\ creates = [d \in Deliveries |-> IF d \in Legacy THEN 1 ELSE 0]
  /\ dispatches = [d \in Deliveries |-> IF d \in Legacy THEN 1 ELSE 0]
  /\ retryOf = [d \in Deliveries |-> NoCheck]
  /\ operator = [d \in Deliveries |-> "none"]
  /\ crashes = 0

-----------------------------------------------------------------------------
Put(d, s)  == storage' = [storage EXCEPT ![d] = s]
Goto(d, l) == pc' = [pc EXCEPT ![d] = l]

\* What one alarm may change of a record.
With(s, status, terminal, failures, wake, check) ==
  [status |-> status, terminal |-> terminal, failures |-> failures,
   recovery |-> s.recovery, deadline |-> s.deadline, wake |-> wake,
   check |-> check, retry_claim |-> s.retry_claim, request |-> s.request]

\* save(): the new status with its wake time; the failure count is kept.
Saved(s, status, wake) == With(s, status, s.terminal, s.failures, wake, s.check)

\* save() of a stage that begins with no failures.
Entered(s, status, wake) == With(s, status, s.terminal, 0, wake, s.check)

\* The same, with the check run that was created or found.
Linked(s, status, wake, c) == With(s, status, s.terminal, 0, wake, c)

\* Mutated form of Failed: the failure is not counted.
FailedUncounted(s, n, wake) == With(s, s.status, s.terminal, s.failures, wake, s.check)

\* A failed operation is counted, and the stage is tried again.
Failed(s, n, wake) == With(s, s.status, s.terminal, n, wake, s.check)

\* Mutated form of Retained: deleted after one retry delay.
RetainedBriefly(s, why) ==
  With(s, "retained", why, s.failures, DeliveryRetry, s.check)

\* retain(): the record stays for the redelivery window, then is deleted.
Retained(s, why) ==
  With(s, "retained", why, s.failures, RedeliveryRetention, s.check)

\* retrySource() with claim: r may retry the check of this record.
Claimed(s, r) == [s EXCEPT !.retry_claim = r]

\* The save is awaited; the operator event is logged after it.
Retain(d, s, why) ==
  /\ Put(d, Retained(s, why))
  /\ Goto(d, IF why = "needs_operator" THEN "report" ELSE "idle")

LogOperator(d) ==
  /\ pc[d] = "report"
  /\ operator' = [operator EXCEPT ![d] = "logged"]
  /\ Goto(d, "idle")
  /\ UNCHANGED <<storage, window, accepted, github, creates, dispatches, retryOf, crashes>>

-----------------------------------------------------------------------------
(* fetch: the webhook, first delivered or sent again.  A prior record other *)
(* than a legacy one is answered as it is, which changes nothing.           *)

Queued(status, recovery, request) ==
  [status |-> status, terminal |-> "none", failures |-> 0,
   recovery |-> recovery, deadline |-> CheckTimeout, wake |-> Soon,
   check |-> NoCheck, retry_claim |-> NoDelivery, request |-> request]

Fresh(d)        == storage[d].status = "none"
Reconcilable(d) == storage[d].status \in {"pending", "failed"}

ReceiveEvent(d) ==
  /\ d \in Events /\ window[d] > 0
  /\ Fresh(d)
  /\ Put(d, Queued("queued", FALSE, NoCheck))
  /\ accepted' = accepted \cup {d}
  /\ UNCHANGED <<pc, window, github, history, crashes>>

\* Mutated form of ReceiveLegacy: the old record is started from scratch.
RestartLegacy(d) ==
  /\ d \in Events /\ window[d] > 0
  /\ Reconcilable(d)
  /\ Put(d, Queued("queued", FALSE, NoCheck))
  /\ accepted' = accepted \cup {d}
  /\ UNCHANGED <<pc, window, github, history, crashes>>

ReceiveLegacy(d) ==
  /\ d \in Events /\ window[d] > 0
  /\ Reconcilable(d)
  /\ Put(d, Queued("creating", TRUE, NoCheck))
  /\ accepted' = accepted \cup {d}
  /\ UNCHANGED <<pc, window, github, history, crashes>>

\* A user selects Re-run on a check of another delivery.
ReceiveRerun(r, c) ==
  /\ r \in Reruns /\ window[r] > 0
  /\ Fresh(r)
  /\ owner[c] \notin {NoDelivery, r}
  /\ Put(r, Queued("retry_queued", FALSE, c))
  /\ accepted' = accepted \cup {r}
  /\ UNCHANGED <<pc, window, github, history, crashes>>

-----------------------------------------------------------------------------
(* alarm: which stage it finds.  An alarm may be delivered more than once   *)
(* and early; one that comes before wake_at only sets the alarm again.      *)

AlarmDue(d) == pc[d] = "idle" /\ storage[d].wake = 0

DeadlinePassed(d) == storage[d].deadline = 0

Finds(d, status) == AlarmDue(d) /\ storage[d].status = status

Begin(d, l) ==
  Goto(d, l) /\ UNCHANGED <<storage, window, accepted, github, history, crashes>>

\* deleteAll()
Forget(d) ==
  /\ Finds(d, "retained")
  /\ Put(d, Blank)
  /\ UNCHANGED <<pc, window, accepted, github, history, crashes>>

StartRerun(r) ==
  /\ Finds(r, "retry_queued") /\ ~DeadlinePassed(r)
  /\ Begin(r, "source")

ExpireRerun(r) ==
  /\ Finds(r, "retry_queued") /\ DeadlinePassed(r)
  /\ Retain(r, storage[r], "retry_rejected")
  /\ UNCHANGED <<window, accepted, github, history, crashes>>

StartCreate(d) ==
  /\ Finds(d, "queued") /\ ~DeadlinePassed(d)
  /\ Begin(d, "create_token")

ExpireQueued(d) ==
  /\ Finds(d, "queued") /\ DeadlinePassed(d)
  /\ Retain(d, storage[d], "needs_operator")
  /\ UNCHANGED <<window, accepted, github, history, crashes>>

\* Mutated form of StartRecover: a lost creation is sent again.
CreateAgain(d) ==
  /\ Finds(d, "creating")
  /\ Begin(d, "create_token")

StartRecover(d) ==
  /\ Finds(d, "creating")
  /\ Begin(d, "recover")

StartDispatch(d) ==
  /\ Finds(d, "check_created") /\ ~DeadlinePassed(d)
  /\ Begin(d, "created")

\* Mutated form of ResumeDispatching: it waits for a retry, not the deadline.
ResumeSoon(d) ==
  /\ Finds(d, "dispatching")
  /\ Put(d, Saved(storage[d], "dispatched", DeliveryRetry))
  /\ UNCHANGED <<pc, window, accepted, github, history, crashes>>

\* The workflow may be running: it is not dispatched again.
ResumeDispatching(d) ==
  /\ Finds(d, "dispatching")
  /\ Put(d, Saved(storage[d], "dispatched", storage[d].deadline))
  /\ UNCHANGED <<pc, window, accepted, github, history, crashes>>

StartFinish(d) ==
  /\ \/ Finds(d, "dispatched")
     \/ Finds(d, "check_created") /\ DeadlinePassed(d)
  /\ Begin(d, "finish")

-----------------------------------------------------------------------------
(* prepareRerequest: a rerun asks the original delivery's ledger, reads the *)
(* permission, the original check and its pull request or refs at GitHub,   *)
(* and claims the retry at the original ledger before it queues a check.    *)

Original(r) == owner[storage[r].request]

\* Mutated form of SourceOk: an earlier claim is overwritten.
SourceUnclaimed(o, r) ==
  LET s == storage[o]
  IN  /\ s.status \in {"dispatched", "retained"}
      /\ s.status = "retained" => s.wake > 0
      /\ s.check = storage[r].request

\* retrySource(): the original may be retried by r.
SourceOk(o, r) ==
  LET s == storage[o]
  IN  /\ s.status \in {"dispatched", "retained"}
      /\ s.status = "retained" => s.wake > 0
      /\ s.check = storage[r].request
      /\ s.retry_claim \in {NoDelivery, r}

ReadSource(r) ==
  /\ pc[r] = "source" /\ SourceOk(Original(r), r)
  /\ Begin(r, "verify")

\* Mutated form of VerifyRerun: the original check is not read.
TrustRerun(r) == pc[r] = "verify" /\ Begin(r, "claim")

\* currentRerequestTarget() finds everything unchanged.
VerifyRerun(r) ==
  /\ pc[r] = "verify" /\ result[storage[r].request] = "not_checked"
  /\ Begin(r, "claim")

ClaimRetry(r) ==
  /\ pc[r] = "claim" /\ SourceOk(Original(r), r)
  /\ Put(Original(r), Claimed(storage[Original(r)], r))
  /\ Goto(r, "accept")
  /\ UNCHANGED <<window, accepted, github, history, crashes>>

QueueRerun(r) ==
  /\ pc[r] = "accept"
  /\ Put(r, Entered(storage[r], "queued", Soon))
  /\ retryOf' = [retryOf EXCEPT ![r] = storage[r].request]
  /\ Goto(r, "idle")
  /\ UNCHANGED <<window, accepted, github, creates, dispatches, operator, crashes>>

\* A 409 of the original ledger, or a requester, check, pull request or ref
\* that is not what a retry needs: RerequestRejected.
RejectRerun(r) ==
  /\ \/ pc[r] \in {"source", "claim"} /\ ~SourceOk(Original(r), r)
     \/ pc[r] = "verify"
  /\ Retain(r, storage[r], "retry_rejected")
  /\ UNCHANGED <<window, accepted, github, history, crashes>>

-----------------------------------------------------------------------------
(* The check run: created once, and looked up when the answer was lost.     *)

\* The token is there: save "creating", then send POST check-runs.
SendCreate(d) ==
  /\ pc[d] = "create_token"
  /\ Put(d, Entered(storage[d], "creating", DeliveryRetry))
  /\ post' = [post EXCEPT ![d] = "sent"]
  /\ creates' = [creates EXCEPT ![d] = @ + 1]
  /\ Goto(d, "create")
  /\ UNCHANGED <<window, accepted, owner, result, run, patch, dispatches,
                 retryOf, operator, crashes>>

CheckCreated(d, c) ==
  /\ Put(d, Linked(storage[d], "check_created", DeliveryRetry, c))
  /\ Goto(d, "created")
  /\ UNCHANGED <<window, accepted, github, history, crashes>>

CreateAnswered(d) ==
  /\ pc[d] = "create" /\ post[d] \in CheckIds
  /\ CheckCreated(d, post[d])

\* recoverCreatedCheck(): exactly one check names this delivery.  Any other
\* number is an error, see Fail.
Recovers(d, c) == pc[d] = "recover" /\ Owned(d) = {c}

RecoverCompleted(d, c) ==
  /\ Recovers(d, c) /\ result[c] # "queued"
  /\ Retain(d, Linked(storage[d], "dispatched", 0, c), "completed")
  /\ UNCHANGED <<window, accepted, github, history, crashes>>

RecoverLegacy(d, c) ==
  /\ Recovers(d, c) /\ result[c] = "queued" /\ storage[d].recovery
  /\ Put(d, Linked(storage[d], "dispatched", storage[d].deadline, c))
  /\ Goto(d, "idle")
  /\ UNCHANGED <<window, accepted, github, history, crashes>>

RecoverCreated(d, c) ==
  /\ Recovers(d, c) /\ result[c] = "queued" /\ ~storage[d].recovery
  /\ CheckCreated(d, c)

-----------------------------------------------------------------------------
(* The control workflow: dispatched at most once.                           *)

CreatedInTime(d) ==
  /\ pc[d] = "created" /\ ~DeadlinePassed(d)
  /\ Begin(d, "dispatch_token")

CreatedTooLate(d) ==
  /\ pc[d] = "created" /\ DeadlinePassed(d)
  /\ Put(d, Saved(storage[d], "dispatched", Soon))
  /\ Goto(d, "idle")
  /\ UNCHANGED <<window, accepted, github, history, crashes>>

\* Mutated form of SendDispatch: dispatched before "dispatching" is saved.
DispatchUnsaved(d) ==
  /\ pc[d] = "dispatch_token"
  /\ run' = [run EXCEPT ![d] = "sent"]
  /\ dispatches' = [dispatches EXCEPT ![d] = @ + 1]
  /\ Goto(d, "dispatch")
  /\ UNCHANGED <<storage, window, accepted, owner, result, post, patch, creates,
                 retryOf, operator, crashes>>

SendDispatch(d) ==
  /\ pc[d] = "dispatch_token"
  /\ Put(d, Entered(storage[d], "dispatching", DeliveryRetry))
  /\ run' = [run EXCEPT ![d] = "sent"]
  /\ dispatches' = [dispatches EXCEPT ![d] = @ + 1]
  /\ Goto(d, "dispatch")
  /\ UNCHANGED <<window, accepted, owner, result, post, patch, creates,
                 retryOf, operator, crashes>>

DispatchAnswered(d) ==
  /\ pc[d] = "dispatch" /\ run[d] \in {"running", "done"}
  /\ Put(d, Saved(storage[d], "dispatched", storage[d].deadline))
  /\ Goto(d, "idle")
  /\ UNCHANGED <<window, accepted, github, history, crashes>>

-----------------------------------------------------------------------------
(* At the deadline the check is read, and completed if it is not yet.       *)

\* Mutated form of FindCompleted: the status of the check is not read.
AssumeCompleted(d) ==
  /\ pc[d] = "finish"
  /\ Retain(d, storage[d], "completed")
  /\ UNCHANGED <<window, accepted, github, history, crashes>>

FindCompleted(d) ==
  /\ pc[d] = "finish" /\ result[storage[d].check] # "queued"
  /\ Retain(d, storage[d], "completed")
  /\ UNCHANGED <<window, accepted, github, history, crashes>>

SendNotChecked(d) ==
  /\ pc[d] = "finish" /\ result[storage[d].check] = "queued"
  /\ patch' = [patch EXCEPT ![d] = "sent"]
  /\ Goto(d, "finish_patch")
  /\ UNCHANGED <<storage, window, accepted, owner, result, post, run, history, crashes>>

\* Mutated form of NotCheckedAnswered: the answer is not awaited.
AssumeNotChecked(d) ==
  /\ pc[d] = "finish_patch"
  /\ Retain(d, storage[d], "timed_out")
  /\ UNCHANGED <<window, accepted, github, history, crashes>>

NotCheckedAnswered(d) ==
  /\ pc[d] = "finish_patch" /\ patch[d] = "done"
  /\ Retain(d, storage[d], "timed_out")
  /\ UNCHANGED <<window, accepted, github, history, crashes>>

-----------------------------------------------------------------------------
(* The catch block.  Any await on GitHub or on another ledger may throw,    *)
(* whether or not the request it made was carried out.  It works on the     *)
(* stored record.  No GitHub call is under way at "created" and "report".   *)

Throws(d) == pc[d] \notin {"idle", "created", "report"}

Failures(d) == storage[d].failures + 1

StopsRetrying(d) ==
  storage[d].status # "dispatching" /\ Failures(d) >= MaxDeliveryFailures

RetryLater(d) ==
  /\ Throws(d) /\ ~StopsRetrying(d)
  /\ Put(d, Failed(storage[d], Failures(d), DeliveryRetry * Failures(d)))
  /\ Goto(d, "idle")
  /\ UNCHANGED <<window, accepted, github, history, crashes>>

\* The check exists but the workflow cannot be dispatched: wait it out.
WatchUntilDeadline(d) ==
  /\ Throws(d) /\ StopsRetrying(d) /\ storage[d].status = "check_created"
  /\ LET deadline == storage[d].deadline
     IN  Put(d, Entered(storage[d], "dispatched",
                        IF deadline > Soon THEN deadline ELSE Soon))
  /\ Goto(d, "idle")
  /\ UNCHANGED <<window, accepted, github, history, crashes>>

GiveUp(d) ==
  /\ Throws(d) /\ StopsRetrying(d) /\ storage[d].status # "check_created"
  /\ Retain(d, Failed(storage[d], Failures(d), 0), "needs_operator")
  /\ UNCHANGED <<window, accepted, github, history, crashes>>

Fail(d) == RetryLater(d) \/ WatchUntilDeadline(d) \/ GiveUp(d)

\* The object is evicted; its alarm is delivered again.  What a finished save
\* left is found by that alarm, what was to be logged after it is not.
Crash(d) ==
  /\ d \in Crashable /\ pc[d] # "idle" /\ crashes < MaxCrashes
  /\ \/ pc[d] = "report" /\ operator' = [operator EXCEPT ![d] = "lost"]
     \/ pc[d] # "report" /\ UNCHANGED operator
  /\ Goto(d, "idle")
  /\ crashes' = crashes + 1
  /\ UNCHANGED <<storage, window, accepted, github, creates, dispatches, retryOf>>

-----------------------------------------------------------------------------
(* GitHub.  A request that was sent is carried out at some later time, also *)
(* after its sender stopped waiting for it, or is lost.                     *)

Settings == <<storage, pc, window, accepted, history, crashes>>

GitHubCreates(d, c) ==
  /\ post[d] = "sent" /\ owner[c] = NoDelivery
  /\ owner' = [owner EXCEPT ![c] = d]
  /\ post' = [post EXCEPT ![d] = c]
  /\ UNCHANGED <<Settings, result, run, patch>>

\* The run starts, and its authenticate job accepts what the App signed.
GitHubStarts(d) ==
  /\ run[d] = "sent"
  /\ run' = [run EXCEPT ![d] = "running"]
  /\ UNCHANGED <<Settings, owner, result, post, patch>>

\* The publish job completes the check whatever its state.
Publish(d, c, outcome) ==
  /\ run[d] = "running" /\ owner[c] = d
  /\ result' = [result EXCEPT ![c] = outcome]
  /\ run' = [run EXCEPT ![d] = "done"]
  /\ UNCHANGED <<Settings, owner, post, patch>>

\* The workflow is cancelled, or fails before its publish job ends.
WorkflowDies(d) ==
  /\ run[d] = "running"
  /\ run' = [run EXCEPT ![d] = "done"]
  /\ UNCHANGED <<Settings, owner, result, post, patch>>

GitHubCompletes(d, c) ==
  /\ patch[d] = "sent" /\ owner[c] = d
  /\ result' = [result EXCEPT ![c] = "not_checked"]
  /\ patch' = [patch EXCEPT ![d] = "done"]
  /\ UNCHANGED <<Settings, owner, post, run>>

LoseRequest(d) ==
  /\ \/ /\ post[d] = "sent"
        /\ post' = [post EXCEPT ![d] = "none"]
        /\ UNCHANGED <<run, patch>>
     \/ /\ run[d] = "sent"
        /\ run' = [run EXCEPT ![d] = "none"]
        /\ UNCHANGED <<post, patch>>
     \/ /\ patch[d] = "sent"
        /\ patch' = [patch EXCEPT ![d] = "none"]
        /\ UNCHANGED <<post, run>>
  /\ UNCHANGED <<Settings, owner, result>>

-----------------------------------------------------------------------------
Less(n) == IF n > 0 THEN n - 1 ELSE 0

Aged(s) ==
  [status |-> s.status, terminal |-> s.terminal, failures |-> s.failures,
   recovery |-> s.recovery, deadline |-> Less(s.deadline), wake |-> Less(s.wake),
   check |-> s.check, retry_claim |-> s.retry_claim, request |-> s.request]

Ticking(d) ==
  \/ storage[d].wake > 0
  \/ storage[d].deadline > 0
  \/ d \in accepted /\ window[d] > 0

Tick ==
  /\ \E d \in Deliveries : Ticking(d)
  /\ storage' = [d \in Deliveries |-> Aged(storage[d])]
  /\ window' = [d \in Deliveries |->
                  IF d \in accepted THEN Less(window[d]) ELSE window[d]]
  /\ UNCHANGED <<pc, accepted, github, history, crashes>>

(* What the alarm handler of d does next. *)

Wakes(d) ==
  \/ Forget(d) \/ StartCreate(d) \/ ExpireQueued(d) \/ StartRecover(d)
  \/ StartDispatch(d) \/ ResumeDispatching(d) \/ StartFinish(d)
  \/ StartRerun(d) \/ ExpireRerun(d)

PrepareRerequest(d) ==
  \/ ReadSource(d) \/ VerifyRerun(d) \/ ClaimRetry(d) \/ QueueRerun(d)
  \/ RejectRerun(d)

CreateCheck(d) ==
  \/ SendCreate(d) \/ CreateAnswered(d)
  \/ \E c \in CheckIds :
       RecoverCompleted(d, c) \/ RecoverLegacy(d, c) \/ RecoverCreated(d, c)

DispatchControl(d) ==
  CreatedInTime(d) \/ CreatedTooLate(d) \/ SendDispatch(d) \/ DispatchAnswered(d)

Finish(d) == FindCompleted(d) \/ SendNotChecked(d) \/ NotCheckedAnswered(d)

Alarm(d) ==
  \/ Wakes(d) \/ PrepareRerequest(d) \/ CreateCheck(d) \/ DispatchControl(d)
  \/ Finish(d) \/ Fail(d) \/ LogOperator(d)

Receive(d) ==
  \/ ReceiveEvent(d) \/ ReceiveLegacy(d)
  \/ \E c \in CheckIds : ReceiveRerun(d, c)

GitHub(d) ==
  \/ GitHubStarts(d) \/ WorkflowDies(d) \/ LoseRequest(d)
  \/ \E c \in CheckIds :
       \/ GitHubCreates(d, c) \/ GitHubCompletes(d, c)
       \/ \E outcome \in {"verdict", "not_checked"} : Publish(d, c, outcome)

Next ==
  \/ Tick
  \/ \E d \in Deliveries : Receive(d) \/ Alarm(d) \/ Crash(d) \/ GitHub(d)

Spec == Init /\ [][Next]_vars

(* The runtime delivers a due alarm and resumes its handler, whose awaits   *)
(* end by an answer or by the 15 second timeout; time passes.  Nothing is   *)
(* asked of GitHub, of the control workflow or of users, nor of the records *)
(* of an older release, of which nothing is promised.                       *)
FairSpec ==
  /\ Spec
  /\ WF_vars(Tick)
  /\ \A d \in Deliveries \ Legacy : WF_vars(Alarm(d))
-----------------------------------------------------------------------------
(* The promise this keeps.  The status of the stored record and accepted    *)
(* tell the phase; the history of requests tells what was asked.            *)

Phase(d) ==
  CASE d \notin accepted -> "new"
    [] d \in accepted /\ storage[d].status = "none" -> "gone"
    [] storage[d].status = "retained" -> "settled"
    [] OTHER -> "open"

AskedFor(d) ==
  (IF creates[d] > 0 THEN {"check"} ELSE {})
    \cup (IF dispatches[d] > 0 THEN {"run"} ELSE {})

Promise ==
  INSTANCE DeliveryPromise
  WITH phase    <- [d \in Deliveries |-> Phase(d)],
       asked    <- [d \in Deliveries |-> AskedFor(d)],
       admitted <- retryOf

\* The ledgers implement DeliveryPromise: a delivery is accepted once, asks
\* for one check and one run, in this order and a re-run only once admitted,
\* one check admits one re-run ever, and every delivery is settled and then
\* forgotten for good.
KeepsPromise == Promise!FairSpec

-----------------------------------------------------------------------------
(* Properties *)

\* A delivery sends at most one check-creation request and at most one
\* workflow dispatch, whatever is lost, repeated or crashes, and none that an
\* older release may have sent already (README "does not blindly create a
\* replacement", "A lost workflow-dispatch response is not retried").
AtMostOneRequest ==
  \A d \in Deliveries : creates[d] <= 1 /\ dispatches[d] <= 1

\* No two check runs at GitHub carry the external_id of one delivery.
OneCheckPerDelivery ==
  \A b, c \in CheckIds : owner[b] = owner[c] /\ owner[b] # NoDelivery => b = c

\* Both: nothing is asked for twice, and nothing asked for once is there twice.
RequestedOnce == AtMostOneRequest /\ OneCheckPerDelivery

\* A ledger remembers its delivery for as long as GitHub may send it again:
\* deleteAll never turns a redelivery into a new delivery.
RedeliveryRemembered ==
  \A d \in accepted : window[d] > 0 => storage[d].status # "none"

\* A record that says how its check ended is true of the check at GitHub.
TerminalTruth ==
  \A d \in Deliveries :
    storage[d].terminal \in {"completed", "timed_out"} =>
      /\ storage[d].check \in CheckIds
      /\ owner[storage[d].check] = d
      /\ result[storage[d].check] # "queued"

\* While the control workflow is requested or runs for a delivery, the ledger
\* either still watches the very check the workflow will complete, or keeps
\* or has deleted a record of how that check was settled.
WatchedWhileRunning ==
  \A d \in Deliveries :
    run[d] \in {"sent", "running"} /\ d \notin Legacy =>
      \/ storage[d].status \in {"dispatching", "dispatched"} /\ Owned(d) = {storage[d].check}
      \/ storage[d].terminal \in {"completed", "timed_out", "needs_operator"}
      \/ storage[d].status = "none"

\* One original check admits at most one retry, also when two Re-run webhooks
\* race, an answer is lost, or the original record expires (README "One
\* original check can create only one retry").
OneRetryPerCheck ==
  \A q, r \in Reruns : retryOf[q] = retryOf[r] /\ retryOf[q] # NoCheck => q = r

\* A retry is only ever admitted for a check that is completed (README "A
\* running check ... cannot be overridden through this recovery path").
RetryOnlyCompleted ==
  \A r \in Reruns : retryOf[r] # NoCheck => result[retryOf[r]] # "queued"

\* The ledger completes a check as NOT CHECKED only once its deadline passed.
NotCheckedOnlyLate ==
  [][\A d \in Deliveries :
       patch[d] # "sent" /\ patch'[d] = "sent" => DeadlinePassed(d)]_vars

\* No check hangs silently: a check the App created is completed, or the
\* operator-help event of its delivery is logged (README "record an
\* operator-help event").  The code keeps the record before it logs, so that an
\* eviction between the two loses the event: only that is excepted.
NoSilentCheck ==
  \A d \in Deliveries \ Legacy, c \in CheckIds :
    owner[c] = d ~> result[c] # "queued" \/ operator[d] \in {"logged", "lost"}
=============================================================================
