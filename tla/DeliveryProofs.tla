---------------------------- MODULE DeliveryProofs ----------------------------
(***************************************************************************)
(* The safety properties of DeliveryLedger hold for every set of           *)
(* deliveries, every choice of timers and every failure budget.  The       *)
(* argument is the inductive invariant IndInv: it holds initially          *)
(* (InitInv), each step preserves each of its parts (one lemma for each    *)
(* part, one step of the proof for each group of actions or each action),  *)
(* and the properties follow from it.  The last part is the refinement of  *)
(* DeliveryPromise.                                                        *)
(***************************************************************************)
EXTENDS DeliveryInv, TLAPS

-----------------------------------------------------------------------------
\* The invariant holds initially, also with the records of an older release.
LEMMA InitInv == Init => IndInv
<1> SUFFICES ASSUME Init PROVE IndInv
  OBVIOUS
<1> USE DeliveryAssumption, TimeAssumption
<1> DEFINE Left(st) == [Blank EXCEPT !.status = st]
<1>1. storage \in [Deliveries -> {Blank, Left("pending"), Left("failed")}]
  BY DEF Init
<1>2. /\ Left("pending") \in Record /\ Left("pending").status = "pending"
      /\ Left("failed") \in Record /\ Left("failed").status = "failed"
      /\ Blank \in Record /\ Blank.status = "none"
  BY DEF Blank, Record, Status, Terminal
<1>3. \A st \in {"pending", "failed"} :
        /\ Left(st).terminal = "none" /\ ~Left(st).recovery
        /\ Left(st).check = NoCheck
  BY DEF Blank
<1>4. Blank.terminal = "none" /\ ~Blank.recovery /\ Blank.check = NoCheck
  BY DEF Blank
<1>5. ASSUME NEW d \in Deliveries
      PROVE  /\ storage[d] \in Record
             /\ storage[d].status = IF d \in Legacy THEN storage[d].status ELSE
               "none"
             /\ d \in Legacy => storage[d].status \in {"pending", "failed"}
             /\ storage[d].terminal = "none" /\ ~storage[d].recovery
             /\ storage[d].check = NoCheck
  <2>1. storage[d] = Blank <=> d \notin Legacy
    BY DEF Init
  <2> HIDE DEF Left
  <2>2. CASE d \in Legacy
    BY <2>1, <2>2, <1>1, <1>2, <1>3
  <2>3. CASE d \notin Legacy
    BY <2>1, <2>3, <1>2, <1>4
  <2> QED
    BY <2>2, <2>3
<1>6. /\ storage \in [Deliveries -> Record]
      /\ owner \in [CheckIds -> Legacy \cup {NoDelivery}]
      /\ result \in [CheckIds -> CheckState]
      /\ run \in [Deliveries -> {"none", "running"}]
  <2>1. storage \in [Deliveries -> Record]
    BY <1>1, <1>5
  <2> QED 
   BY <2>1 DEF Init
<1>7. TypeOK
  BY <1>6 DEF TypeOK, Init, Awaits, Deliveries
<1> HIDE DEF Left
<1>8. AwaitMatchesStage /\ AtMostOneRequest
  BY DEF Init, AwaitMatchesStage, AtMostOneRequest
<1>9. RequestsMatchStage
  <2> SUFFICES ASSUME NEW d \in Deliveries PROVE RequestsMatchStage!(d)
    BY DEF RequestsMatchStage
  <2>1. CASE d \in Legacy
    BY <1>5, <2>1 DEF Init
  <2>2. CASE d \notin Legacy
    BY <1>5, <2>2 DEF Init
  <2> QED
    BY <2>1, <2>2
<1>10. RunsMatchRequests
  <2>1. \A d \in Deliveries : d \notin Legacy => run[d] = "none"
    BY <1>6 DEF Init
  <2> QED
    BY <1>5, <2>1 DEF Init, RunsMatchRequests
<1>11. ForgottenForGood
  BY <1>5 DEF Init, ForgottenForGood
<1>12. ChecksMatchRequests /\ OneCheckPerDelivery
  BY <1>6 DEF Init, ChecksMatchRequests, OneCheckPerDelivery
<1>13. CheckIsOwn /\ DeadlineFirst
  BY <1>5 DEF Init, CheckIsOwn, DeadlineFirst
<1>14. ClaimBacksRetry /\ OneAdmission /\ QueuedWasAdmitted
  BY <1>5
  DEF Init, ClaimBacksRetry, OneAdmission, QueuedWasAdmitted, Admitted,
      Deliveries
<1>15. WatchedWhileRunning
  BY <1>5, <1>6 DEF Init, WatchedWhileRunning
<1> QED
  BY <1>7, <1>8, <1>9, <1>10, <1>11, <1>12, <1>13, <1>14, <1>15 DEF IndInv

-----------------------------------------------------------------------------
(* Steps that need an argument of their own. *)

\* Time passes for the two timers of a record and for nothing else in it.
LEMMA TickKeeps ==
  ASSUME TypeOK, Tick, NEW d \in Deliveries
  PROVE  /\ storage'[d].status = storage[d].status
         /\ storage'[d].retry_claim = storage[d].retry_claim
         /\ storage'[d].request = storage[d].request
  BY DEF Tick, Aged, TypeOK, Record

\* What is known of retries does not depend on the clock.
LEMMA TickQueued == TypeOK /\ QueuedWasAdmitted /\ Tick => QueuedWasAdmitted'
<1> SUFFICES ASSUME TypeOK, QueuedWasAdmitted, Tick PROVE QueuedWasAdmitted'
  OBVIOUS
<1>1. UNCHANGED <<accepted, retryOf, creates>>
  BY DEF Tick, history
<1> QED
  BY <1>1, TickKeeps DEF QueuedWasAdmitted, Deliveries

LEMMA TickAdmits == TypeOK /\ OneAdmission /\ Tick => OneAdmission'
<1> SUFFICES ASSUME TypeOK, OneAdmission, Tick PROVE OneAdmission'
  OBVIOUS
<1>1. UNCHANGED <<accepted, retryOf, pc>>
  BY DEF Tick, history
<1> QED
  BY <1>1, TickKeeps DEF OneAdmission, Admitted, Deliveries

LEMMA TickBacks == TypeOK /\ ClaimBacksRetry /\ Tick => ClaimBacksRetry'
<1> SUFFICES ASSUME TypeOK, ClaimBacksRetry, Tick PROVE ClaimBacksRetry'
  OBVIOUS
<1>1. UNCHANGED <<accepted, retryOf, pc, result, owner>>
  BY DEF Tick, history, github
<1> QED
  BY <1>1, TickKeeps DEF ClaimBacksRetry, Admitted, Deliveries, TypeOK

\* A claim changes the claim of the original record and nothing else stored.
LEMMA ClaimedType ==
  ASSUME NEW s \in Record, NEW r \in Deliveries
  PROVE  /\ Claimed(s, r) \in Record
         /\ Claimed(s, r).retry_claim = r
         /\ Claimed(s, r).status = s.status
         /\ Claimed(s, r).request = s.request
  BY DEF Claimed, Record

LEMMA ClaimKeeps ==
  ASSUME TypeOK, NEW r \in Deliveries, ClaimRetry(r), NEW d \in Deliveries
  PROVE  /\ storage'[d] \in Record
         /\ storage'[d].status = storage[d].status
         /\ storage'[d].request = storage[d].request
         /\ storage'[d].retry_claim =
              IF d = Original(r) THEN r ELSE storage[d].retry_claim
<1>1. CASE d = Original(r)
  BY <1>1, ClaimedType DEF ClaimRetry, Put, TypeOK
<1>2. CASE d # Original(r)
  BY <1>2 DEF ClaimRetry, Put, TypeOK
<1> QED
  BY <1>1, <1>2

\* A claim admits nobody but its claimant.
LEMMA ClaimAdmitsOnly ==
  ASSUME TypeOK, NEW r \in Deliveries, ClaimRetry(r),
         NEW q \in Reruns, NEW c \in CheckIds, Admitted(q, c)', q # r
  PROVE  Admitted(q, c)
  BY ClaimKeeps DEF ClaimRetry, Goto, TypeOK, Admitted, history, Deliveries

LEMMA ClaimType ==
  ASSUME TypeOK, NEW r \in Deliveries, ClaimRetry(r)
  PROVE  TypeOK'
<1>1. storage' \in [Deliveries -> Record]
  BY ClaimKeeps DEF ClaimRetry, Put, TypeOK
<1> QED
  BY <1>1 DEF ClaimRetry, Goto, TypeOK, Awaits, github, history

\* The original record carries no claim but the claimant's own, so that no
\* other rerun was admitted for the same check while the record is kept.
LEMMA ClaimAdmits ==
  ASSUME TypeOK, OneAdmission, ClaimBacksRetry, NEW r \in Deliveries, ClaimRetry(r)
  PROVE  OneAdmission'
<1>1. ASSUME r \in Reruns, NEW c \in CheckIds, Admitted(r, c)',
             NEW q \in Reruns, Admitted(q, c)
      PROVE  q = r
  <2>1. retryOf[r] = c \/ storage[r].request = c
    BY <1>1, ClaimKeeps DEF ClaimRetry, Goto, TypeOK, Admitted, history, Deliveries
  <2>2. CASE retryOf[r] = c
    BY <1>1, <2>2 DEF OneAdmission, Admitted
  <2>3. CASE storage[r].request = c
    BY <1>1, <2>3, DeliveryAssumption
    DEF ClaimRetry, ClaimBacksRetry, SourceOk, Original, Admitted, TypeOK, Deliveries
  <2> QED
    BY <2>1, <2>2, <2>3
<1> QED
  BY <1>1, ClaimAdmitsOnly DEF OneAdmission

LEMMA ClaimBacks ==
  ASSUME TypeOK, AwaitMatchesStage, ForgottenForGood, ClaimBacksRetry,
         NEW r \in Deliveries, ClaimRetry(r)
  PROVE  ClaimBacksRetry'
<1> USE DEF Deliveries
<1>1. UNCHANGED <<owner, result, retryOf, accepted>>
  BY DEF ClaimRetry, github, history
<1>2. SourceOk(Original(r), r) /\ pc[r] = "claim"
  BY DEF ClaimRetry
<1>3. ASSUME NEW q \in Reruns, NEW c \in CheckIds, Admitted(q, c)
      PROVE  \/ storage'[owner[c]].status = "none"
             \/ /\ storage'[owner[c]].retry_claim = q
                /\ storage'[owner[c]].status \notin {"pending", "failed"}
  <2>1. /\ owner[c] \in accepted
        /\ \/ storage[owner[c]].status = "none"
           \/ /\ storage[owner[c]].retry_claim = q
              /\ storage[owner[c]].status \notin {"pending", "failed"}
    BY <1>3 DEF ClaimBacksRetry
  <2>2. owner[c] \in Deliveries
    BY <2>1 DEF TypeOK
  <2>3. CASE owner[c] = Original(r)
    BY <1>2, <2>1, <2>2, <2>3, ClaimKeeps, DeliveryAssumption DEF SourceOk
  <2>4. CASE owner[c] # Original(r)
    BY <2>1, <2>2, <2>4, ClaimKeeps
  <2> QED
    BY <2>3, <2>4
<1>4. ASSUME r \in Reruns
      PROVE  /\ storage[r].request \in CheckIds
             /\ result[storage[r].request] # "queued"
             /\ Original(r) \in accepted
             /\ storage'[Original(r)].retry_claim = r
             /\ storage'[Original(r)].status \notin {"pending", "failed"}
  <2>1. /\ storage[r].request \in CheckIds
        /\ result[storage[r].request] # "queued"
        /\ Original(r) # NoDelivery
    BY <1>2, <1>4 DEF ClaimBacksRetry, AwaitMatchesStage, Original
  <2>2. Original(r) \in Deliveries
    BY <2>1 DEF TypeOK, Original
  <2> QED
    BY <1>2, <2>1, <2>2, ClaimKeeps DEF SourceOk, ForgottenForGood
<1>5. ASSUME NEW q \in Reruns, storage'[q].status = "retry_queued"
      PROVE  /\ storage'[q].request \in CheckIds
             /\ owner[storage'[q].request] # NoDelivery
  BY <1>5, ClaimKeeps DEF ClaimBacksRetry
<1>6. ASSUME NEW q \in Reruns, pc'[q] \in {"claim", "accept"}
      PROVE  result[storage'[q].request] # "queued"
  BY <1>4, <1>6, ClaimKeeps DEF ClaimBacksRetry, ClaimRetry, Goto, TypeOK
<1>7. ASSUME NEW q \in Reruns, NEW c \in CheckIds, Admitted(q, c)'
      PROVE  /\ owner[c] \in accepted
             /\ result[c] # "queued"
             /\ \/ storage'[owner[c]].status = "none"
                \/ /\ storage'[owner[c]].retry_claim = q
                   /\ storage'[owner[c]].status \notin {"pending", "failed"}
  <2>1. CASE Admitted(q, c)
    BY <2>1, <1>3 DEF ClaimBacksRetry
  <2>2. CASE q = r /\ storage[r].request = c
    BY <2>2, <1>4 DEF Original
  <2> QED
    BY <2>1, <2>2, <1>1, <1>7, ClaimAdmitsOnly, ClaimKeeps DEF Admitted
<1> QED
  BY <1>1, <1>5, <1>6, <1>7 DEF ClaimBacksRetry

\* The check that the NOT CHECKED update completed is the one on record.
LEMMA SettledIsOwn ==
  ASSUME TypeOK, AwaitMatchesStage, OneCheckPerDelivery, CheckIsOwn,
         NEW d \in Deliveries, NotCheckedAnswered(d)
  PROVE  CheckIsOwn'
<1> USE DeliveryAssumption
<1>1. storage[d].check \in CheckIds /\ owner[storage[d].check] = d
  BY DEF NotCheckedAnswered, TypeOK, Record, AwaitMatchesStage, CheckIsOwn
<1>2. result[storage[d].check] # "queued"
  BY <1>1 DEF NotCheckedAnswered, CheckIsOwn, OneCheckPerDelivery, Owned
<1> QED
  BY <1>1, <1>2 DEF NotCheckedAnswered, Retain, Retained, With, Put, TypeOK,
                    Record, CheckIsOwn, Owned, github

-----------------------------------------------------------------------------
(* One lemma for each part of the invariant. *)

\* The program keeps its data in their types.
LEMMA TypeStep ==
    TypeOK /\ [Next]_vars => TypeOK'
<1> SUFFICES ASSUME TypeOK, [Next]_vars PROVE TypeOK'
  OBVIOUS
<1> USE DeliveryAssumption, TimeAssumption
<1> USE DEF Put, Goto, TypeOK, Record, github, history, Status, Terminal,
     Awaits, CheckState
<1>1. ASSUME NEW d \in Deliveries, Receive(d) PROVE TypeOK'
  <2>1. CASE ReceiveEvent(d)
    BY <2>1 DEF ReceiveEvent, Fresh, Queued
  <2>2. CASE ReceiveLegacy(d)
    BY <2>2 DEF ReceiveLegacy, Reconcilable, Queued
  <2>3. ASSUME NEW c \in CheckIds, ReceiveRerun(d, c) PROVE TypeOK'
    BY <2>3 DEF ReceiveRerun, Fresh, Queued
  <2> QED
    BY <1>1, <2>1, <2>2, <2>3 DEF Receive
<1>2. ASSUME NEW d \in Deliveries, Wakes(d) PROVE TypeOK'
  <2>1. CASE Forget(d)
    BY <2>1 DEF Forget, Finds, AlarmDue, Blank
  <2>2. CASE StartCreate(d)
    BY <2>2 DEF StartCreate, Finds, AlarmDue, DeadlinePassed, Begin
  <2>3. CASE ExpireQueued(d)
    BY <2>3 DEF ExpireQueued, Finds, AlarmDue, DeadlinePassed, Retain,
         Retained, With
  <2>4. CASE StartRecover(d)
    BY <2>4 DEF StartRecover, Finds, AlarmDue, Begin
  <2>5. CASE StartDispatch(d)
    BY <2>5 DEF StartDispatch, Finds, AlarmDue, DeadlinePassed, Begin
  <2>6. CASE ResumeDispatching(d)
    BY <2>6 DEF ResumeDispatching, Finds, AlarmDue, Saved, With
  <2>7. CASE StartFinish(d)
    BY <2>7 DEF StartFinish, Finds, AlarmDue, DeadlinePassed, Begin
  <2>8. CASE StartRerun(d)
    BY <2>8 DEF StartRerun, Finds, AlarmDue, DeadlinePassed, Begin
  <2>9. CASE ExpireRerun(d)
    BY <2>9 DEF ExpireRerun, Finds, AlarmDue, DeadlinePassed, Retain,
         Retained, With
  <2> QED
    BY <1>2, <2>1, <2>2, <2>3, <2>4, <2>5, <2>6, <2>7, <2>8, <2>9 DEF Wakes
<1>3. ASSUME NEW d \in Deliveries, PrepareRerequest(d) PROVE TypeOK'
  <2>1. CASE ReadSource(d)
    BY <2>1 DEF ReadSource, SourceOk, Original, Begin
  <2>2. CASE VerifyRerun(d)
    BY <2>2 DEF VerifyRerun, Begin
  <2>3. CASE ClaimRetry(d)
    BY <2>3, ClaimType
  <2>4. CASE QueueRerun(d)
    BY <2>4 DEF QueueRerun, Entered, With
  <2>5. CASE RejectRerun(d)
    BY <2>5 DEF RejectRerun, Retain, Retained, With
  <2> QED
    BY <1>3, <2>1, <2>2, <2>3, <2>4, <2>5 DEF PrepareRerequest
<1>4. ASSUME NEW d \in Deliveries, CreateCheck(d) PROVE TypeOK'
  <2>1. CASE SendCreate(d)
    BY <2>1 DEF SendCreate, Entered, With
  <2>2. CASE CreateAnswered(d)
    BY <2>2 DEF CreateAnswered, CheckCreated, Linked, With
  <2>3. ASSUME NEW c \in CheckIds, RecoverCompleted(d, c) PROVE TypeOK'
    BY <2>3 DEF RecoverCompleted, Recovers, Owned, Linked, Retain, Retained,
         With
  <2>4. ASSUME NEW c \in CheckIds, RecoverLegacy(d, c) PROVE TypeOK'
    BY <2>4 DEF RecoverLegacy, Recovers, Owned, Linked, With
  <2>5. ASSUME NEW c \in CheckIds, RecoverCreated(d, c) PROVE TypeOK'
    BY <2>5 DEF RecoverCreated, Recovers, Owned, CheckCreated, Linked, With
  <2> QED
    BY <1>4, <2>1, <2>2, <2>3, <2>4, <2>5 DEF CreateCheck
<1>5. ASSUME NEW d \in Deliveries, DispatchControl(d) PROVE TypeOK'
  <2>1. CASE CreatedInTime(d)
    BY <2>1 DEF CreatedInTime, DeadlinePassed, Begin
  <2>2. CASE CreatedTooLate(d)
    BY <2>2 DEF CreatedTooLate, DeadlinePassed, Saved, With
  <2>3. CASE SendDispatch(d)
    BY <2>3 DEF SendDispatch, Entered, With
  <2>4. CASE DispatchAnswered(d)
    BY <2>4 DEF DispatchAnswered, Saved, With
  <2> QED
    BY <1>5, <2>1, <2>2, <2>3, <2>4 DEF DispatchControl
<1>6. ASSUME NEW d \in Deliveries, Finish(d) PROVE TypeOK'
  <2>1. CASE FindCompleted(d)
    BY <2>1 DEF FindCompleted, Retain, Retained, With
  <2>2. CASE SendNotChecked(d)
    BY <2>2 DEF SendNotChecked
  <2>3. CASE NotCheckedAnswered(d)
    BY <2>3 DEF NotCheckedAnswered, Retain, Retained, With
  <2> QED
    BY <1>6, <2>1, <2>2, <2>3 DEF Finish
<1>7. ASSUME NEW d \in Deliveries, Fail(d) PROVE TypeOK'
  <2>1. CASE RetryLater(d)
    BY <2>1 DEF RetryLater, Throws, Awaits, StopsRetrying, Failures, Failed,
         With
  <2>2. CASE WatchUntilDeadline(d)
    BY <2>2 DEF WatchUntilDeadline, Throws, Awaits, StopsRetrying, Failures,
         Entered, With
  <2>3. CASE GiveUp(d)
    BY <2>3 DEF GiveUp, Throws, Awaits, StopsRetrying, Failures, Failed,
         Retain, Retained, With
  <2> QED
    BY <1>7, <2>1, <2>2, <2>3 DEF Fail
<1>8. ASSUME NEW d \in Deliveries, Crash(d) PROVE TypeOK'
  BY <1>8 DEF Crash
<1>9. ASSUME NEW d \in Deliveries, GitHub(d) PROVE TypeOK'
  <2>1. CASE GitHubStarts(d)
    BY <2>1 DEF GitHubStarts, Settings
  <2>2. CASE WorkflowDies(d)
    BY <2>2 DEF WorkflowDies, Settings
  <2>3. CASE LoseRequest(d)
    BY <2>3 DEF LoseRequest, Settings
  <2>4. ASSUME NEW c \in CheckIds, GitHubCreates(d, c) PROVE TypeOK'
    BY <2>4 DEF GitHubCreates, Settings
  <2>5. ASSUME NEW c \in CheckIds, GitHubCompletes(d, c) PROVE TypeOK'
    BY <2>5 DEF GitHubCompletes, Settings
  <2>6. ASSUME NEW c \in CheckIds, NEW outcome \in {"verdict",
    "not_checked"}, Publish(d, c, outcome) PROVE TypeOK'
    BY <2>6 DEF Publish, Settings
  <2> QED
    BY <1>9, <2>1, <2>2, <2>3, <2>4, <2>5, <2>6 DEF GitHub
<1>10. CASE Tick
  BY <1>10 DEF Tick, Aged, Less
<1>11. CASE UNCHANGED vars
  BY <1>11 DEF vars
<1>12. ASSUME NEW d \in Deliveries, LogOperator(d) PROVE TypeOK'
  BY <1>12 DEF LogOperator
<1> QED
  BY <1>1, <1>2, <1>3, <1>4, <1>5, <1>6, <1>7, <1>8, <1>9, <1>10, <1>11,
     <1>12 DEF Next, Alarm

\* A handler's await ends in the stage in which it began: only the handler itself,
\* whose steps end the await, and a webhook to a record that no handler works on
\* change the status.
LEMMA StageStep ==
    TypeOK /\ AwaitMatchesStage /\ RequestsMatchStage /\ [Next]_vars =>
  AwaitMatchesStage'
<1> SUFFICES ASSUME TypeOK, AwaitMatchesStage, RequestsMatchStage,
      [Next]_vars PROVE AwaitMatchesStage'
  OBVIOUS
<1> USE DeliveryAssumption, TimeAssumption
<1> USE DEF Put, Goto, TypeOK, Record, github, history, AwaitMatchesStage,
     RequestsMatchStage
<1>1. ASSUME NEW d \in Deliveries, Receive(d) PROVE AwaitMatchesStage'
  <2>1. CASE ReceiveEvent(d)
    BY <2>1 DEF ReceiveEvent, Fresh, Queued
  <2>2. CASE ReceiveLegacy(d)
    BY <2>2 DEF ReceiveLegacy, Reconcilable, Queued
  <2>3. ASSUME NEW c \in CheckIds, ReceiveRerun(d, c) PROVE
    AwaitMatchesStage'
    BY <2>3 DEF ReceiveRerun, Fresh, Queued
  <2> QED
    BY <1>1, <2>1, <2>2, <2>3 DEF Receive
<1>2. ASSUME NEW d \in Deliveries, Wakes(d) PROVE AwaitMatchesStage'
  <2>1. CASE Forget(d)
    BY <2>1 DEF Forget, Finds, AlarmDue, Blank
  <2>2. CASE StartCreate(d)
    BY <2>2 DEF StartCreate, Finds, AlarmDue, DeadlinePassed, Begin
  <2>3. CASE ExpireQueued(d)
    BY <2>3 DEF ExpireQueued, Finds, AlarmDue, DeadlinePassed, Retain,
         Retained, With
  <2>4. CASE StartRecover(d)
    BY <2>4 DEF StartRecover, Finds, AlarmDue, Begin
  <2>5. CASE StartDispatch(d)
    BY <2>5 DEF StartDispatch, Finds, AlarmDue, DeadlinePassed, Begin
  <2>6. CASE ResumeDispatching(d)
    BY <2>6 DEF ResumeDispatching, Finds, AlarmDue, Saved, With
  <2>7. CASE StartFinish(d)
    BY <2>7 DEF StartFinish, Finds, AlarmDue, DeadlinePassed, Begin
  <2>8. CASE StartRerun(d)
    BY <2>8 DEF StartRerun, Finds, AlarmDue, DeadlinePassed, Begin
  <2>9. CASE ExpireRerun(d)
    BY <2>9 DEF ExpireRerun, Finds, AlarmDue, DeadlinePassed, Retain,
         Retained, With
  <2> QED
    BY <1>2, <2>1, <2>2, <2>3, <2>4, <2>5, <2>6, <2>7, <2>8, <2>9 DEF Wakes
<1>3. ASSUME NEW d \in Deliveries, PrepareRerequest(d) PROVE AwaitMatchesStage'
  <2>1. CASE ReadSource(d)
    BY <2>1 DEF ReadSource, SourceOk, Original, Begin
  <2>2. CASE VerifyRerun(d)
    BY <2>2 DEF VerifyRerun, Begin
  <2>3. CASE ClaimRetry(d)
    BY <2>3 DEF ClaimRetry, SourceOk, Original, Claimed
  <2>4. CASE QueueRerun(d)
    BY <2>4 DEF QueueRerun, Entered, With
  <2>5. CASE RejectRerun(d)
    BY <2>5 DEF RejectRerun, Retain, Retained, With
  <2> QED
    BY <1>3, <2>1, <2>2, <2>3, <2>4, <2>5 DEF PrepareRerequest
<1>4. ASSUME NEW d \in Deliveries, CreateCheck(d) PROVE AwaitMatchesStage'
  <2>1. CASE SendCreate(d)
    BY <2>1 DEF SendCreate, Entered, With
  <2>2. CASE CreateAnswered(d)
    BY <2>2 DEF CreateAnswered, CheckCreated, Linked, With
  <2>3. ASSUME NEW c \in CheckIds, RecoverCompleted(d, c) PROVE
    AwaitMatchesStage'
    BY <2>3 DEF RecoverCompleted, Recovers, Owned, Linked, Retain, Retained,
         With
  <2>4. ASSUME NEW c \in CheckIds, RecoverLegacy(d, c) PROVE
    AwaitMatchesStage'
    BY <2>4 DEF RecoverLegacy, Recovers, Owned, Linked, With
  <2>5. ASSUME NEW c \in CheckIds, RecoverCreated(d, c) PROVE
    AwaitMatchesStage'
    BY <2>5 DEF RecoverCreated, Recovers, Owned, CheckCreated, Linked, With
  <2> QED
    BY <1>4, <2>1, <2>2, <2>3, <2>4, <2>5 DEF CreateCheck
<1>5. ASSUME NEW d \in Deliveries, DispatchControl(d) PROVE AwaitMatchesStage'
  <2>1. CASE CreatedInTime(d)
    BY <2>1 DEF CreatedInTime, DeadlinePassed, Begin
  <2>2. CASE CreatedTooLate(d)
    BY <2>2 DEF CreatedTooLate, DeadlinePassed, Saved, With
  <2>3. CASE SendDispatch(d)
    BY <2>3 DEF SendDispatch, Entered, With
  <2>4. CASE DispatchAnswered(d)
    BY <2>4 DEF DispatchAnswered, Saved, With
  <2> QED
    BY <1>5, <2>1, <2>2, <2>3, <2>4 DEF DispatchControl
<1>6. ASSUME NEW d \in Deliveries, Finish(d) PROVE AwaitMatchesStage'
  <2>1. CASE FindCompleted(d)
    BY <2>1 DEF FindCompleted, Retain, Retained, With
  <2>2. CASE SendNotChecked(d)
    BY <2>2 DEF SendNotChecked
  <2>3. CASE NotCheckedAnswered(d)
    BY <2>3 DEF NotCheckedAnswered, Retain, Retained, With
  <2> QED
    BY <1>6, <2>1, <2>2, <2>3 DEF Finish
<1>7. ASSUME NEW d \in Deliveries, Fail(d) PROVE AwaitMatchesStage'
  <2>1. CASE RetryLater(d)
    BY <2>1 DEF RetryLater, Throws, Awaits, StopsRetrying, Failures, Failed,
         With
  <2>2. CASE WatchUntilDeadline(d)
    BY <2>2 DEF WatchUntilDeadline, Throws, Awaits, StopsRetrying, Failures,
         Entered, With
  <2>3. CASE GiveUp(d)
    BY <2>3 DEF GiveUp, Throws, Awaits, StopsRetrying, Failures, Failed,
         Retain, Retained, With
  <2> QED
    BY <1>7, <2>1, <2>2, <2>3 DEF Fail
<1>8. ASSUME NEW d \in Deliveries, Crash(d) PROVE AwaitMatchesStage'
  BY <1>8 DEF Crash
<1>9. ASSUME NEW d \in Deliveries, GitHub(d) PROVE AwaitMatchesStage'
  BY <1>9 DEF GitHub, GitHubStarts, WorkflowDies, LoseRequest, GitHubCreates,
       GitHubCompletes, Publish, Settings
<1>10. CASE Tick
  BY <1>10 DEF Tick, Aged, Less
<1>11. CASE UNCHANGED vars
  BY <1>11 DEF vars
<1>12. ASSUME NEW d \in Deliveries, LogOperator(d) PROVE AwaitMatchesStage'
  BY <1>12 DEF LogOperator
<1> QED
  BY <1>1, <1>2, <1>3, <1>4, <1>5, <1>6, <1>7, <1>8, <1>9, <1>10, <1>11,
     <1>12 DEF Next, Alarm

\* The two requests are sent from the stages queued and check_created only, in
\* which they have not been sent yet.
LEMMA OneRequestStep ==
    TypeOK /\ AwaitMatchesStage /\ RequestsMatchStage /\ AtMostOneRequest /\
  [Next]_vars => AtMostOneRequest'
<1> SUFFICES ASSUME TypeOK, AwaitMatchesStage, RequestsMatchStage,
      AtMostOneRequest, [Next]_vars PROVE AtMostOneRequest'
  OBVIOUS
<1> USE DeliveryAssumption, TimeAssumption
<1> USE DEF Put, Goto, TypeOK, Record, github, history, AwaitMatchesStage,
     RequestsMatchStage, AtMostOneRequest
<1>1. ASSUME NEW d \in Deliveries, Receive(d) PROVE AtMostOneRequest'
  <2>1. CASE ReceiveEvent(d)
    BY <2>1 DEF ReceiveEvent, Fresh, Queued
  <2>2. CASE ReceiveLegacy(d)
    BY <2>2 DEF ReceiveLegacy, Reconcilable, Queued
  <2>3. ASSUME NEW c \in CheckIds, ReceiveRerun(d, c) PROVE
    AtMostOneRequest'
    BY <2>3 DEF ReceiveRerun, Fresh, Queued
  <2> QED
    BY <1>1, <2>1, <2>2, <2>3 DEF Receive
<1>2. ASSUME NEW d \in Deliveries, Wakes(d) PROVE AtMostOneRequest'
  <2>1. CASE Forget(d)
    BY <2>1 DEF Forget, Finds, AlarmDue, Blank
  <2>2. CASE StartCreate(d)
    BY <2>2 DEF StartCreate, Finds, AlarmDue, DeadlinePassed, Begin
  <2>3. CASE ExpireQueued(d)
    BY <2>3 DEF ExpireQueued, Finds, AlarmDue, DeadlinePassed, Retain,
         Retained, With
  <2>4. CASE StartRecover(d)
    BY <2>4 DEF StartRecover, Finds, AlarmDue, Begin
  <2>5. CASE StartDispatch(d)
    BY <2>5 DEF StartDispatch, Finds, AlarmDue, DeadlinePassed, Begin
  <2>6. CASE ResumeDispatching(d)
    BY <2>6 DEF ResumeDispatching, Finds, AlarmDue, Saved, With
  <2>7. CASE StartFinish(d)
    BY <2>7 DEF StartFinish, Finds, AlarmDue, DeadlinePassed, Begin
  <2>8. CASE StartRerun(d)
    BY <2>8 DEF StartRerun, Finds, AlarmDue, DeadlinePassed, Begin
  <2>9. CASE ExpireRerun(d)
    BY <2>9 DEF ExpireRerun, Finds, AlarmDue, DeadlinePassed, Retain,
         Retained, With
  <2> QED
    BY <1>2, <2>1, <2>2, <2>3, <2>4, <2>5, <2>6, <2>7, <2>8, <2>9 DEF Wakes
<1>3. ASSUME NEW d \in Deliveries, PrepareRerequest(d) PROVE AtMostOneRequest'
  <2>1. CASE ReadSource(d)
    BY <2>1 DEF ReadSource, SourceOk, Original, Begin
  <2>2. CASE VerifyRerun(d)
    BY <2>2 DEF VerifyRerun, Begin
  <2>3. CASE ClaimRetry(d)
    BY <2>3 DEF ClaimRetry, SourceOk, Original, Claimed
  <2>4. CASE QueueRerun(d)
    BY <2>4 DEF QueueRerun, Entered, With
  <2>5. CASE RejectRerun(d)
    BY <2>5 DEF RejectRerun, Retain, Retained, With
  <2> QED
    BY <1>3, <2>1, <2>2, <2>3, <2>4, <2>5 DEF PrepareRerequest
<1>4. ASSUME NEW d \in Deliveries, CreateCheck(d) PROVE AtMostOneRequest'
  <2>1. CASE SendCreate(d)
    BY <2>1 DEF SendCreate, Entered, With
  <2>2. CASE CreateAnswered(d)
    BY <2>2 DEF CreateAnswered, CheckCreated, Linked, With
  <2>3. ASSUME NEW c \in CheckIds, RecoverCompleted(d, c) PROVE
    AtMostOneRequest'
    BY <2>3 DEF RecoverCompleted, Recovers, Owned, Linked, Retain, Retained,
         With
  <2>4. ASSUME NEW c \in CheckIds, RecoverLegacy(d, c) PROVE
    AtMostOneRequest'
    BY <2>4 DEF RecoverLegacy, Recovers, Owned, Linked, With
  <2>5. ASSUME NEW c \in CheckIds, RecoverCreated(d, c) PROVE
    AtMostOneRequest'
    BY <2>5 DEF RecoverCreated, Recovers, Owned, CheckCreated, Linked, With
  <2> QED
    BY <1>4, <2>1, <2>2, <2>3, <2>4, <2>5 DEF CreateCheck
<1>5. ASSUME NEW d \in Deliveries, DispatchControl(d) PROVE AtMostOneRequest'
  <2>1. CASE CreatedInTime(d)
    BY <2>1 DEF CreatedInTime, DeadlinePassed, Begin
  <2>2. CASE CreatedTooLate(d)
    BY <2>2 DEF CreatedTooLate, DeadlinePassed, Saved, With
  <2>3. CASE SendDispatch(d)
    BY <2>3 DEF SendDispatch, Entered, With
  <2>4. CASE DispatchAnswered(d)
    BY <2>4 DEF DispatchAnswered, Saved, With
  <2> QED
    BY <1>5, <2>1, <2>2, <2>3, <2>4 DEF DispatchControl
<1>6. ASSUME NEW d \in Deliveries, Finish(d) PROVE AtMostOneRequest'
  <2>1. CASE FindCompleted(d)
    BY <2>1 DEF FindCompleted, Retain, Retained, With
  <2>2. CASE SendNotChecked(d)
    BY <2>2 DEF SendNotChecked
  <2>3. CASE NotCheckedAnswered(d)
    BY <2>3 DEF NotCheckedAnswered, Retain, Retained, With
  <2> QED
    BY <1>6, <2>1, <2>2, <2>3 DEF Finish
<1>7. ASSUME NEW d \in Deliveries, Fail(d) PROVE AtMostOneRequest'
  <2>1. CASE RetryLater(d)
    BY <2>1 DEF RetryLater, Throws, Awaits, StopsRetrying, Failures, Failed,
         With
  <2>2. CASE WatchUntilDeadline(d)
    BY <2>2 DEF WatchUntilDeadline, Throws, Awaits, StopsRetrying, Failures,
         Entered, With
  <2>3. CASE GiveUp(d)
    BY <2>3 DEF GiveUp, Throws, Awaits, StopsRetrying, Failures, Failed,
         Retain, Retained, With
  <2> QED
    BY <1>7, <2>1, <2>2, <2>3 DEF Fail
<1>8. ASSUME NEW d \in Deliveries, Crash(d) PROVE AtMostOneRequest'
  BY <1>8 DEF Crash
<1>9. ASSUME NEW d \in Deliveries, GitHub(d) PROVE AtMostOneRequest'
  BY <1>9 DEF GitHub, GitHubStarts, WorkflowDies, LoseRequest, GitHubCreates,
       GitHubCompletes, Publish, Settings
<1>10. CASE Tick
  BY <1>10 DEF Tick, Aged, Less
<1>11. CASE UNCHANGED vars
  BY <1>11 DEF vars
<1>12. ASSUME NEW d \in Deliveries, LogOperator(d) PROVE AtMostOneRequest'
  BY <1>12 DEF LogOperator
<1> QED
  BY <1>1, <1>2, <1>3, <1>4, <1>5, <1>6, <1>7, <1>8, <1>9, <1>10, <1>11,
     <1>12 DEF Next, Alarm

\* What was asked of GitHub follows from the stored stage.
LEMMA RequestStep ==
    TypeOK /\ AwaitMatchesStage /\ ForgottenForGood /\ RequestsMatchStage /\
  [Next]_vars => RequestsMatchStage'
<1> SUFFICES ASSUME TypeOK, AwaitMatchesStage, ForgottenForGood,
      RequestsMatchStage, [Next]_vars PROVE RequestsMatchStage'
  OBVIOUS
<1> USE DeliveryAssumption, TimeAssumption
<1> USE DEF Put, Goto, TypeOK, Record, github, history, AwaitMatchesStage,
     ForgottenForGood, RequestsMatchStage
<1>1. ASSUME NEW d \in Deliveries, Receive(d) PROVE RequestsMatchStage'
  <2>1. CASE ReceiveEvent(d)
    BY <2>1 DEF ReceiveEvent, Fresh, Queued
  <2>2. CASE ReceiveLegacy(d)
    BY <2>2 DEF ReceiveLegacy, Reconcilable, Queued
  <2>3. ASSUME NEW c \in CheckIds, ReceiveRerun(d, c) PROVE
    RequestsMatchStage'
    BY <2>3 DEF ReceiveRerun, Fresh, Queued
  <2> QED
    BY <1>1, <2>1, <2>2, <2>3 DEF Receive
<1>2. ASSUME NEW d \in Deliveries, Wakes(d) PROVE RequestsMatchStage'
  <2>1. CASE Forget(d)
    BY <2>1 DEF Forget, Finds, AlarmDue, Blank
  <2>2. CASE StartCreate(d)
    BY <2>2 DEF StartCreate, Finds, AlarmDue, DeadlinePassed, Begin
  <2>3. CASE ExpireQueued(d)
    BY <2>3 DEF ExpireQueued, Finds, AlarmDue, DeadlinePassed, Retain,
         Retained, With
  <2>4. CASE StartRecover(d)
    BY <2>4 DEF StartRecover, Finds, AlarmDue, Begin
  <2>5. CASE StartDispatch(d)
    BY <2>5 DEF StartDispatch, Finds, AlarmDue, DeadlinePassed, Begin
  <2>6. CASE ResumeDispatching(d)
    BY <2>6 DEF ResumeDispatching, Finds, AlarmDue, Saved, With
  <2>7. CASE StartFinish(d)
    BY <2>7 DEF StartFinish, Finds, AlarmDue, DeadlinePassed, Begin
  <2>8. CASE StartRerun(d)
    BY <2>8 DEF StartRerun, Finds, AlarmDue, DeadlinePassed, Begin
  <2>9. CASE ExpireRerun(d)
    BY <2>9 DEF ExpireRerun, Finds, AlarmDue, DeadlinePassed, Retain,
         Retained, With
  <2> QED
    BY <1>2, <2>1, <2>2, <2>3, <2>4, <2>5, <2>6, <2>7, <2>8, <2>9 DEF Wakes
<1>3. ASSUME NEW d \in Deliveries, PrepareRerequest(d) PROVE RequestsMatchStage'
  <2>1. CASE ReadSource(d)
    BY <2>1 DEF ReadSource, SourceOk, Original, Begin
  <2>2. CASE VerifyRerun(d)
    BY <2>2 DEF VerifyRerun, Begin
  <2>3. CASE ClaimRetry(d)
    BY <2>3 DEF ClaimRetry, SourceOk, Original, Claimed
  <2>4. CASE QueueRerun(d)
    BY <2>4 DEF QueueRerun, Entered, With
  <2>5. CASE RejectRerun(d)
    BY <2>5 DEF RejectRerun, Retain, Retained, With
  <2> QED
    BY <1>3, <2>1, <2>2, <2>3, <2>4, <2>5 DEF PrepareRerequest
<1>4. ASSUME NEW d \in Deliveries, CreateCheck(d) PROVE RequestsMatchStage'
  <2>1. CASE SendCreate(d)
    BY <2>1 DEF SendCreate, Entered, With
  <2>2. CASE CreateAnswered(d)
    BY <2>2 DEF CreateAnswered, CheckCreated, Linked, With
  <2>3. ASSUME NEW c \in CheckIds, RecoverCompleted(d, c) PROVE
    RequestsMatchStage'
    BY <2>3 DEF RecoverCompleted, Recovers, Owned, Linked, Retain, Retained,
         With
  <2>4. ASSUME NEW c \in CheckIds, RecoverLegacy(d, c) PROVE
    RequestsMatchStage'
    BY <2>4 DEF RecoverLegacy, Recovers, Owned, Linked, With
  <2>5. ASSUME NEW c \in CheckIds, RecoverCreated(d, c) PROVE
    RequestsMatchStage'
    BY <2>5 DEF RecoverCreated, Recovers, Owned, CheckCreated, Linked, With
  <2> QED
    BY <1>4, <2>1, <2>2, <2>3, <2>4, <2>5 DEF CreateCheck
<1>5. ASSUME NEW d \in Deliveries, DispatchControl(d) PROVE RequestsMatchStage'
  <2>1. CASE CreatedInTime(d)
    BY <2>1 DEF CreatedInTime, DeadlinePassed, Begin
  <2>2. CASE CreatedTooLate(d)
    BY <2>2 DEF CreatedTooLate, DeadlinePassed, Saved, With
  <2>3. CASE SendDispatch(d)
    BY <2>3 DEF SendDispatch, Entered, With
  <2>4. CASE DispatchAnswered(d)
    BY <2>4 DEF DispatchAnswered, Saved, With
  <2> QED
    BY <1>5, <2>1, <2>2, <2>3, <2>4 DEF DispatchControl
<1>6. ASSUME NEW d \in Deliveries, Finish(d) PROVE RequestsMatchStage'
  <2>1. CASE FindCompleted(d)
    BY <2>1 DEF FindCompleted, Retain, Retained, With
  <2>2. CASE SendNotChecked(d)
    BY <2>2 DEF SendNotChecked
  <2>3. CASE NotCheckedAnswered(d)
    BY <2>3 DEF NotCheckedAnswered, Retain, Retained, With
  <2> QED
    BY <1>6, <2>1, <2>2, <2>3 DEF Finish
<1>7. ASSUME NEW d \in Deliveries, Fail(d) PROVE RequestsMatchStage'
  <2>1. CASE RetryLater(d)
    BY <2>1 DEF RetryLater, Throws, Awaits, StopsRetrying, Failures, Failed,
         With
  <2>2. CASE WatchUntilDeadline(d)
    BY <2>2 DEF WatchUntilDeadline, Throws, Awaits, StopsRetrying, Failures,
         Entered, With
  <2>3. CASE GiveUp(d)
    BY <2>3 DEF GiveUp, Throws, Awaits, StopsRetrying, Failures, Failed,
         Retain, Retained, With
  <2> QED
    BY <1>7, <2>1, <2>2, <2>3 DEF Fail
<1>8. ASSUME NEW d \in Deliveries, Crash(d) PROVE RequestsMatchStage'
  BY <1>8 DEF Crash
<1>9. ASSUME NEW d \in Deliveries, GitHub(d) PROVE RequestsMatchStage'
  BY <1>9 DEF GitHub, GitHubStarts, WorkflowDies, LoseRequest, GitHubCreates,
       GitHubCompletes, Publish, Settings
<1>10. CASE Tick
  BY <1>10 DEF Tick, Aged, Less
<1>11. CASE UNCHANGED vars
  BY <1>11 DEF vars
<1>12. ASSUME NEW d \in Deliveries, LogOperator(d) PROVE RequestsMatchStage'
  BY <1>12 DEF LogOperator
<1> QED
  BY <1>1, <1>2, <1>3, <1>4, <1>5, <1>6, <1>7, <1>8, <1>9, <1>10, <1>11,
     <1>12 DEF Next, Alarm

\* A control workflow runs only when one was dispatched.
LEMMA RunStep ==
    TypeOK /\ AwaitMatchesStage /\ RunsMatchRequests /\ [Next]_vars =>
  RunsMatchRequests'
<1> SUFFICES ASSUME TypeOK, AwaitMatchesStage, RunsMatchRequests,
      [Next]_vars PROVE RunsMatchRequests'
  OBVIOUS
<1> USE DeliveryAssumption, TimeAssumption
<1> USE DEF Put, Goto, TypeOK, Record, github, history, AwaitMatchesStage,
     RunsMatchRequests
<1>1. ASSUME NEW d \in Deliveries, Receive(d) PROVE RunsMatchRequests'
  <2>1. CASE ReceiveEvent(d)
    BY <2>1 DEF ReceiveEvent, Fresh, Queued
  <2>2. CASE ReceiveLegacy(d)
    BY <2>2 DEF ReceiveLegacy, Reconcilable, Queued
  <2>3. ASSUME NEW c \in CheckIds, ReceiveRerun(d, c) PROVE
    RunsMatchRequests'
    BY <2>3 DEF ReceiveRerun, Fresh, Queued
  <2> QED
    BY <1>1, <2>1, <2>2, <2>3 DEF Receive
<1>2. ASSUME NEW d \in Deliveries, Wakes(d) PROVE RunsMatchRequests'
  <2>1. CASE Forget(d)
    BY <2>1 DEF Forget, Finds, AlarmDue, Blank
  <2>2. CASE StartCreate(d)
    BY <2>2 DEF StartCreate, Finds, AlarmDue, DeadlinePassed, Begin
  <2>3. CASE ExpireQueued(d)
    BY <2>3 DEF ExpireQueued, Finds, AlarmDue, DeadlinePassed, Retain,
         Retained, With
  <2>4. CASE StartRecover(d)
    BY <2>4 DEF StartRecover, Finds, AlarmDue, Begin
  <2>5. CASE StartDispatch(d)
    BY <2>5 DEF StartDispatch, Finds, AlarmDue, DeadlinePassed, Begin
  <2>6. CASE ResumeDispatching(d)
    BY <2>6 DEF ResumeDispatching, Finds, AlarmDue, Saved, With
  <2>7. CASE StartFinish(d)
    BY <2>7 DEF StartFinish, Finds, AlarmDue, DeadlinePassed, Begin
  <2>8. CASE StartRerun(d)
    BY <2>8 DEF StartRerun, Finds, AlarmDue, DeadlinePassed, Begin
  <2>9. CASE ExpireRerun(d)
    BY <2>9 DEF ExpireRerun, Finds, AlarmDue, DeadlinePassed, Retain,
         Retained, With
  <2> QED
    BY <1>2, <2>1, <2>2, <2>3, <2>4, <2>5, <2>6, <2>7, <2>8, <2>9 DEF Wakes
<1>3. ASSUME NEW d \in Deliveries, PrepareRerequest(d) PROVE RunsMatchRequests'
  <2>1. CASE ReadSource(d)
    BY <2>1 DEF ReadSource, SourceOk, Original, Begin
  <2>2. CASE VerifyRerun(d)
    BY <2>2 DEF VerifyRerun, Begin
  <2>3. CASE ClaimRetry(d)
    BY <2>3 DEF ClaimRetry, SourceOk, Original, Claimed
  <2>4. CASE QueueRerun(d)
    BY <2>4 DEF QueueRerun, Entered, With
  <2>5. CASE RejectRerun(d)
    BY <2>5 DEF RejectRerun, Retain, Retained, With
  <2> QED
    BY <1>3, <2>1, <2>2, <2>3, <2>4, <2>5 DEF PrepareRerequest
<1>4. ASSUME NEW d \in Deliveries, CreateCheck(d) PROVE RunsMatchRequests'
  <2>1. CASE SendCreate(d)
    BY <2>1 DEF SendCreate, Entered, With
  <2>2. CASE CreateAnswered(d)
    BY <2>2 DEF CreateAnswered, CheckCreated, Linked, With
  <2>3. ASSUME NEW c \in CheckIds, RecoverCompleted(d, c) PROVE
    RunsMatchRequests'
    BY <2>3 DEF RecoverCompleted, Recovers, Owned, Linked, Retain, Retained,
         With
  <2>4. ASSUME NEW c \in CheckIds, RecoverLegacy(d, c) PROVE
    RunsMatchRequests'
    BY <2>4 DEF RecoverLegacy, Recovers, Owned, Linked, With
  <2>5. ASSUME NEW c \in CheckIds, RecoverCreated(d, c) PROVE
    RunsMatchRequests'
    BY <2>5 DEF RecoverCreated, Recovers, Owned, CheckCreated, Linked, With
  <2> QED
    BY <1>4, <2>1, <2>2, <2>3, <2>4, <2>5 DEF CreateCheck
<1>5. ASSUME NEW d \in Deliveries, DispatchControl(d) PROVE RunsMatchRequests'
  <2>1. CASE CreatedInTime(d)
    BY <2>1 DEF CreatedInTime, DeadlinePassed, Begin
  <2>2. CASE CreatedTooLate(d)
    BY <2>2 DEF CreatedTooLate, DeadlinePassed, Saved, With
  <2>3. CASE SendDispatch(d)
    BY <2>3 DEF SendDispatch, Entered, With
  <2>4. CASE DispatchAnswered(d)
    BY <2>4 DEF DispatchAnswered, Saved, With
  <2> QED
    BY <1>5, <2>1, <2>2, <2>3, <2>4 DEF DispatchControl
<1>6. ASSUME NEW d \in Deliveries, Finish(d) PROVE RunsMatchRequests'
  <2>1. CASE FindCompleted(d)
    BY <2>1 DEF FindCompleted, Retain, Retained, With
  <2>2. CASE SendNotChecked(d)
    BY <2>2 DEF SendNotChecked
  <2>3. CASE NotCheckedAnswered(d)
    BY <2>3 DEF NotCheckedAnswered, Retain, Retained, With
  <2> QED
    BY <1>6, <2>1, <2>2, <2>3 DEF Finish
<1>7. ASSUME NEW d \in Deliveries, Fail(d) PROVE RunsMatchRequests'
  <2>1. CASE RetryLater(d)
    BY <2>1 DEF RetryLater, Throws, Awaits, StopsRetrying, Failures, Failed,
         With
  <2>2. CASE WatchUntilDeadline(d)
    BY <2>2 DEF WatchUntilDeadline, Throws, Awaits, StopsRetrying, Failures,
         Entered, With
  <2>3. CASE GiveUp(d)
    BY <2>3 DEF GiveUp, Throws, Awaits, StopsRetrying, Failures, Failed,
         Retain, Retained, With
  <2> QED
    BY <1>7, <2>1, <2>2, <2>3 DEF Fail
<1>8. ASSUME NEW d \in Deliveries, Crash(d) PROVE RunsMatchRequests'
  BY <1>8 DEF Crash
<1>9. ASSUME NEW d \in Deliveries, GitHub(d) PROVE RunsMatchRequests'
  BY <1>9 DEF GitHub, GitHubStarts, WorkflowDies, LoseRequest, GitHubCreates,
       GitHubCompletes, Publish, Settings
<1>10. CASE Tick
  BY <1>10 DEF Tick, Aged, Less
<1>11. CASE UNCHANGED vars
  BY <1>11 DEF vars
<1>12. ASSUME NEW d \in Deliveries, LogOperator(d) PROVE RunsMatchRequests'
  BY <1>12 DEF LogOperator
<1> QED
  BY <1>1, <1>2, <1>3, <1>4, <1>5, <1>6, <1>7, <1>8, <1>9, <1>10, <1>11,
     <1>12 DEF Next, Alarm

\* Only a record whose retention ran out is deleted, and by then the redelivery
\* window, which is no longer, has run out too.
LEMMA ForgetStep ==
    TypeOK /\ AwaitMatchesStage /\ ForgottenForGood /\ [Next]_vars =>
  ForgottenForGood'
<1> SUFFICES ASSUME TypeOK, AwaitMatchesStage, ForgottenForGood,
      [Next]_vars PROVE ForgottenForGood'
  OBVIOUS
<1> USE DeliveryAssumption, TimeAssumption
<1> USE DEF Put, Goto, TypeOK, Record, github, history, AwaitMatchesStage,
     ForgottenForGood
<1>1. ASSUME NEW d \in Deliveries, Receive(d) PROVE ForgottenForGood'
  <2>1. CASE ReceiveEvent(d)
    BY <2>1 DEF ReceiveEvent, Fresh, Queued
  <2>2. CASE ReceiveLegacy(d)
    BY <2>2 DEF ReceiveLegacy, Reconcilable, Queued
  <2>3. ASSUME NEW c \in CheckIds, ReceiveRerun(d, c) PROVE
    ForgottenForGood'
    BY <2>3 DEF ReceiveRerun, Fresh, Queued
  <2> QED
    BY <1>1, <2>1, <2>2, <2>3 DEF Receive
<1>2. ASSUME NEW d \in Deliveries, Wakes(d) PROVE ForgottenForGood'
  <2>1. CASE Forget(d)
    BY <2>1 DEF Forget, Finds, AlarmDue, Blank
  <2>2. CASE StartCreate(d)
    BY <2>2 DEF StartCreate, Finds, AlarmDue, DeadlinePassed, Begin
  <2>3. CASE ExpireQueued(d)
    BY <2>3 DEF ExpireQueued, Finds, AlarmDue, DeadlinePassed, Retain,
         Retained, With
  <2>4. CASE StartRecover(d)
    BY <2>4 DEF StartRecover, Finds, AlarmDue, Begin
  <2>5. CASE StartDispatch(d)
    BY <2>5 DEF StartDispatch, Finds, AlarmDue, DeadlinePassed, Begin
  <2>6. CASE ResumeDispatching(d)
    BY <2>6 DEF ResumeDispatching, Finds, AlarmDue, Saved, With
  <2>7. CASE StartFinish(d)
    BY <2>7 DEF StartFinish, Finds, AlarmDue, DeadlinePassed, Begin
  <2>8. CASE StartRerun(d)
    BY <2>8 DEF StartRerun, Finds, AlarmDue, DeadlinePassed, Begin
  <2>9. CASE ExpireRerun(d)
    BY <2>9 DEF ExpireRerun, Finds, AlarmDue, DeadlinePassed, Retain,
         Retained, With
  <2> QED
    BY <1>2, <2>1, <2>2, <2>3, <2>4, <2>5, <2>6, <2>7, <2>8, <2>9 DEF Wakes
<1>3. ASSUME NEW d \in Deliveries, PrepareRerequest(d) PROVE ForgottenForGood'
  <2>1. CASE ReadSource(d)
    BY <2>1 DEF ReadSource, SourceOk, Original, Begin
  <2>2. CASE VerifyRerun(d)
    BY <2>2 DEF VerifyRerun, Begin
  <2>3. CASE ClaimRetry(d)
    BY <2>3 DEF ClaimRetry, SourceOk, Original, Claimed
  <2>4. CASE QueueRerun(d)
    BY <2>4 DEF QueueRerun, Entered, With
  <2>5. CASE RejectRerun(d)
    BY <2>5 DEF RejectRerun, Retain, Retained, With
  <2> QED
    BY <1>3, <2>1, <2>2, <2>3, <2>4, <2>5 DEF PrepareRerequest
<1>4. ASSUME NEW d \in Deliveries, CreateCheck(d) PROVE ForgottenForGood'
  <2>1. CASE SendCreate(d)
    BY <2>1 DEF SendCreate, Entered, With
  <2>2. CASE CreateAnswered(d)
    BY <2>2 DEF CreateAnswered, CheckCreated, Linked, With
  <2>3. ASSUME NEW c \in CheckIds, RecoverCompleted(d, c) PROVE
    ForgottenForGood'
    BY <2>3 DEF RecoverCompleted, Recovers, Owned, Linked, Retain, Retained,
         With
  <2>4. ASSUME NEW c \in CheckIds, RecoverLegacy(d, c) PROVE
    ForgottenForGood'
    BY <2>4 DEF RecoverLegacy, Recovers, Owned, Linked, With
  <2>5. ASSUME NEW c \in CheckIds, RecoverCreated(d, c) PROVE
    ForgottenForGood'
    BY <2>5 DEF RecoverCreated, Recovers, Owned, CheckCreated, Linked, With
  <2> QED
    BY <1>4, <2>1, <2>2, <2>3, <2>4, <2>5 DEF CreateCheck
<1>5. ASSUME NEW d \in Deliveries, DispatchControl(d) PROVE ForgottenForGood'
  <2>1. CASE CreatedInTime(d)
    BY <2>1 DEF CreatedInTime, DeadlinePassed, Begin
  <2>2. CASE CreatedTooLate(d)
    BY <2>2 DEF CreatedTooLate, DeadlinePassed, Saved, With
  <2>3. CASE SendDispatch(d)
    BY <2>3 DEF SendDispatch, Entered, With
  <2>4. CASE DispatchAnswered(d)
    BY <2>4 DEF DispatchAnswered, Saved, With
  <2> QED
    BY <1>5, <2>1, <2>2, <2>3, <2>4 DEF DispatchControl
<1>6. ASSUME NEW d \in Deliveries, Finish(d) PROVE ForgottenForGood'
  <2>1. CASE FindCompleted(d)
    BY <2>1 DEF FindCompleted, Retain, Retained, With
  <2>2. CASE SendNotChecked(d)
    BY <2>2 DEF SendNotChecked
  <2>3. CASE NotCheckedAnswered(d)
    BY <2>3 DEF NotCheckedAnswered, Retain, Retained, With
  <2> QED
    BY <1>6, <2>1, <2>2, <2>3 DEF Finish
<1>7. ASSUME NEW d \in Deliveries, Fail(d) PROVE ForgottenForGood'
  <2>1. CASE RetryLater(d)
    BY <2>1 DEF RetryLater, Throws, Awaits, StopsRetrying, Failures, Failed,
         With
  <2>2. CASE WatchUntilDeadline(d)
    BY <2>2 DEF WatchUntilDeadline, Throws, Awaits, StopsRetrying, Failures,
         Entered, With
  <2>3. CASE GiveUp(d)
    BY <2>3 DEF GiveUp, Throws, Awaits, StopsRetrying, Failures, Failed,
         Retain, Retained, With
  <2> QED
    BY <1>7, <2>1, <2>2, <2>3 DEF Fail
<1>8. ASSUME NEW d \in Deliveries, Crash(d) PROVE ForgottenForGood'
  BY <1>8 DEF Crash
<1>9. ASSUME NEW d \in Deliveries, GitHub(d) PROVE ForgottenForGood'
  BY <1>9 DEF GitHub, GitHubStarts, WorkflowDies, LoseRequest, GitHubCreates,
       GitHubCompletes, Publish, Settings
<1>10. CASE Tick
  BY <1>10 DEF Tick, Aged, Less
<1>11. CASE UNCHANGED vars
  BY <1>11 DEF vars
<1>12. ASSUME NEW d \in Deliveries, LogOperator(d) PROVE ForgottenForGood'
  BY <1>12 DEF LogOperator
<1> QED
  BY <1>1, <1>2, <1>3, <1>4, <1>5, <1>6, <1>7, <1>8, <1>9, <1>10, <1>11,
     <1>12 DEF Next, Alarm

\* Check runs are created by sent requests only, one for each.
LEMMA CheckStep ==
    TypeOK /\ AwaitMatchesStage /\ RequestsMatchStage /\ ForgottenForGood /\
  ChecksMatchRequests /\ [Next]_vars => ChecksMatchRequests'
<1> SUFFICES ASSUME TypeOK, AwaitMatchesStage, RequestsMatchStage,
      ForgottenForGood, ChecksMatchRequests, [Next]_vars PROVE
      ChecksMatchRequests'
  OBVIOUS
<1> USE DeliveryAssumption, TimeAssumption
<1> USE DEF Put, Goto, TypeOK, Record, github, history, Owned,
     AwaitMatchesStage, RequestsMatchStage, ForgottenForGood,
     ChecksMatchRequests
<1>1. ASSUME NEW d \in Deliveries, Receive(d) PROVE ChecksMatchRequests'
  <2>1. CASE ReceiveEvent(d)
    BY <2>1 DEF ReceiveEvent, Fresh, Queued
  <2>2. CASE ReceiveLegacy(d)
    BY <2>2 DEF ReceiveLegacy, Reconcilable, Queued
  <2>3. ASSUME NEW c \in CheckIds, ReceiveRerun(d, c) PROVE
    ChecksMatchRequests'
    BY <2>3 DEF ReceiveRerun, Fresh, Queued
  <2> QED
    BY <1>1, <2>1, <2>2, <2>3 DEF Receive
<1>2. ASSUME NEW d \in Deliveries, Wakes(d) PROVE ChecksMatchRequests'
  <2>1. CASE Forget(d)
    BY <2>1 DEF Forget, Finds, AlarmDue, Blank
  <2>2. CASE StartCreate(d)
    BY <2>2 DEF StartCreate, Finds, AlarmDue, DeadlinePassed, Begin
  <2>3. CASE ExpireQueued(d)
    BY <2>3 DEF ExpireQueued, Finds, AlarmDue, DeadlinePassed, Retain,
         Retained, With
  <2>4. CASE StartRecover(d)
    BY <2>4 DEF StartRecover, Finds, AlarmDue, Begin
  <2>5. CASE StartDispatch(d)
    BY <2>5 DEF StartDispatch, Finds, AlarmDue, DeadlinePassed, Begin
  <2>6. CASE ResumeDispatching(d)
    BY <2>6 DEF ResumeDispatching, Finds, AlarmDue, Saved, With
  <2>7. CASE StartFinish(d)
    BY <2>7 DEF StartFinish, Finds, AlarmDue, DeadlinePassed, Begin
  <2>8. CASE StartRerun(d)
    BY <2>8 DEF StartRerun, Finds, AlarmDue, DeadlinePassed, Begin
  <2>9. CASE ExpireRerun(d)
    BY <2>9 DEF ExpireRerun, Finds, AlarmDue, DeadlinePassed, Retain,
         Retained, With
  <2> QED
    BY <1>2, <2>1, <2>2, <2>3, <2>4, <2>5, <2>6, <2>7, <2>8, <2>9 DEF Wakes
<1>3. ASSUME NEW d \in Deliveries, PrepareRerequest(d) PROVE ChecksMatchRequests'
  <2>1. CASE ReadSource(d)
    BY <2>1 DEF ReadSource, SourceOk, Original, Begin
  <2>2. CASE VerifyRerun(d)
    BY <2>2 DEF VerifyRerun, Begin
  <2>3. CASE ClaimRetry(d)
    BY <2>3 DEF ClaimRetry, SourceOk, Original, Claimed
  <2>4. CASE QueueRerun(d)
    BY <2>4 DEF QueueRerun, Entered, With
  <2>5. CASE RejectRerun(d)
    BY <2>5 DEF RejectRerun, Retain, Retained, With
  <2> QED
    BY <1>3, <2>1, <2>2, <2>3, <2>4, <2>5 DEF PrepareRerequest
<1>4. ASSUME NEW d \in Deliveries, CreateCheck(d) PROVE ChecksMatchRequests'
  <2>1. CASE SendCreate(d)
    BY <2>1 DEF SendCreate, Entered, With
  <2>2. CASE CreateAnswered(d)
    BY <2>2 DEF CreateAnswered, CheckCreated, Linked, With
  <2>3. ASSUME NEW c \in CheckIds, RecoverCompleted(d, c) PROVE
    ChecksMatchRequests'
    BY <2>3 DEF RecoverCompleted, Recovers, Owned, Linked, Retain, Retained,
         With
  <2>4. ASSUME NEW c \in CheckIds, RecoverLegacy(d, c) PROVE
    ChecksMatchRequests'
    BY <2>4 DEF RecoverLegacy, Recovers, Owned, Linked, With
  <2>5. ASSUME NEW c \in CheckIds, RecoverCreated(d, c) PROVE
    ChecksMatchRequests'
    BY <2>5 DEF RecoverCreated, Recovers, Owned, CheckCreated, Linked, With
  <2> QED
    BY <1>4, <2>1, <2>2, <2>3, <2>4, <2>5 DEF CreateCheck
<1>5. ASSUME NEW d \in Deliveries, DispatchControl(d) PROVE ChecksMatchRequests'
  <2>1. CASE CreatedInTime(d)
    BY <2>1 DEF CreatedInTime, DeadlinePassed, Begin
  <2>2. CASE CreatedTooLate(d)
    BY <2>2 DEF CreatedTooLate, DeadlinePassed, Saved, With
  <2>3. CASE SendDispatch(d)
    BY <2>3 DEF SendDispatch, Entered, With
  <2>4. CASE DispatchAnswered(d)
    BY <2>4 DEF DispatchAnswered, Saved, With
  <2> QED
    BY <1>5, <2>1, <2>2, <2>3, <2>4 DEF DispatchControl
<1>6. ASSUME NEW d \in Deliveries, Finish(d) PROVE ChecksMatchRequests'
  <2>1. CASE FindCompleted(d)
    BY <2>1 DEF FindCompleted, Retain, Retained, With
  <2>2. CASE SendNotChecked(d)
    BY <2>2 DEF SendNotChecked
  <2>3. CASE NotCheckedAnswered(d)
    BY <2>3 DEF NotCheckedAnswered, Retain, Retained, With
  <2> QED
    BY <1>6, <2>1, <2>2, <2>3 DEF Finish
<1>7. ASSUME NEW d \in Deliveries, Fail(d) PROVE ChecksMatchRequests'
  <2>1. CASE RetryLater(d)
    BY <2>1 DEF RetryLater, Throws, Awaits, StopsRetrying, Failures, Failed,
         With
  <2>2. CASE WatchUntilDeadline(d)
    BY <2>2 DEF WatchUntilDeadline, Throws, Awaits, StopsRetrying, Failures,
         Entered, With
  <2>3. CASE GiveUp(d)
    BY <2>3 DEF GiveUp, Throws, Awaits, StopsRetrying, Failures, Failed,
         Retain, Retained, With
  <2> QED
    BY <1>7, <2>1, <2>2, <2>3 DEF Fail
<1>8. ASSUME NEW d \in Deliveries, Crash(d) PROVE ChecksMatchRequests'
  BY <1>8 DEF Crash
<1>9. ASSUME NEW d \in Deliveries, GitHub(d) PROVE ChecksMatchRequests'
  <2>1. CASE GitHubStarts(d)
    BY <2>1 DEF GitHubStarts, Settings
  <2>2. CASE WorkflowDies(d)
    BY <2>2 DEF WorkflowDies, Settings
  <2>3. CASE LoseRequest(d)
    BY <2>3 DEF LoseRequest, Settings
  <2>4. ASSUME NEW c \in CheckIds, GitHubCreates(d, c) PROVE
    ChecksMatchRequests'
    BY <2>4 DEF GitHubCreates, Settings
  <2>5. ASSUME NEW c \in CheckIds, GitHubCompletes(d, c) PROVE
    ChecksMatchRequests'
    BY <2>5 DEF GitHubCompletes, Settings
  <2>6. ASSUME NEW c \in CheckIds, NEW outcome \in {"verdict",
    "not_checked"}, Publish(d, c, outcome) PROVE ChecksMatchRequests'
    BY <2>6 DEF Publish, Settings
  <2> QED
    BY <1>9, <2>1, <2>2, <2>3, <2>4, <2>5, <2>6 DEF GitHub
<1>10. CASE Tick
  BY <1>10 DEF Tick, Aged, Less
<1>11. CASE UNCHANGED vars
  BY <1>11 DEF vars
<1>12. ASSUME NEW d \in Deliveries, LogOperator(d) PROVE ChecksMatchRequests'
  BY <1>12 DEF LogOperator
<1> QED
  BY <1>1, <1>2, <1>3, <1>4, <1>5, <1>6, <1>7, <1>8, <1>9, <1>10, <1>11,
     <1>12 DEF Next, Alarm

\* GitHub carries out a creation request once, and there is no second request.
LEMMA OneCheckStep ==
    TypeOK /\ ChecksMatchRequests /\ OneCheckPerDelivery /\ [Next]_vars =>
  OneCheckPerDelivery'
<1> SUFFICES ASSUME TypeOK, ChecksMatchRequests, OneCheckPerDelivery,
      [Next]_vars PROVE OneCheckPerDelivery'
  OBVIOUS
<1> USE DeliveryAssumption, TimeAssumption
<1> USE DEF Put, Goto, TypeOK, Record, github, history, Owned,
     ChecksMatchRequests, OneCheckPerDelivery
<1>1. ASSUME NEW d \in Deliveries, Receive(d) PROVE OneCheckPerDelivery'
  BY <1>1 DEF Receive, ReceiveEvent, ReceiveLegacy, ReceiveRerun, Fresh,
       Queued, Reconcilable, With
<1>2. ASSUME NEW d \in Deliveries, Wakes(d) PROVE OneCheckPerDelivery'
  BY <1>2 DEF Wakes, Forget, StartCreate, ExpireQueued, StartRecover,
       StartDispatch, ResumeDispatching, StartFinish, StartRerun, ExpireRerun,
       Finds, AlarmDue, Blank, DeadlinePassed, Begin, Retain, Retained, Saved,
       With
<1>3. ASSUME NEW d \in Deliveries, PrepareRerequest(d) PROVE OneCheckPerDelivery'
  BY <1>3 DEF PrepareRerequest, ReadSource, VerifyRerun, ClaimRetry,
       QueueRerun, RejectRerun, SourceOk, Original, Begin, Claimed, Entered,
       Retain, Retained, With
<1>4. ASSUME NEW d \in Deliveries, CreateCheck(d) PROVE OneCheckPerDelivery'
  BY <1>4 DEF CreateCheck, SendCreate, CreateAnswered, RecoverCompleted,
       RecoverLegacy, RecoverCreated, Entered, CheckCreated, Linked, Recovers,
       Owned, Retain, Retained, With
<1>5. ASSUME NEW d \in Deliveries, DispatchControl(d) PROVE OneCheckPerDelivery'
  BY <1>5 DEF DispatchControl, CreatedInTime, CreatedTooLate, SendDispatch,
       DispatchAnswered, DeadlinePassed, Begin, Saved, Entered, With
<1>6. ASSUME NEW d \in Deliveries, Finish(d) PROVE OneCheckPerDelivery'
  BY <1>6 DEF Finish, FindCompleted, SendNotChecked, NotCheckedAnswered,
       Retain, Retained, With
<1>7. ASSUME NEW d \in Deliveries, Fail(d) PROVE OneCheckPerDelivery'
  BY <1>7 DEF Fail, RetryLater, WatchUntilDeadline, GiveUp, Throws, Awaits,
       StopsRetrying, Failures, Failed, Entered, Retain, Retained, With
<1>8. ASSUME NEW d \in Deliveries, Crash(d) PROVE OneCheckPerDelivery'
  BY <1>8 DEF Crash
<1>9. ASSUME NEW d \in Deliveries, GitHub(d) PROVE OneCheckPerDelivery'
  <2>1. CASE GitHubStarts(d)
    BY <2>1 DEF GitHubStarts, Settings
  <2>2. CASE WorkflowDies(d)
    BY <2>2 DEF WorkflowDies, Settings
  <2>3. CASE LoseRequest(d)
    BY <2>3 DEF LoseRequest, Settings
  <2>4. ASSUME NEW c \in CheckIds, GitHubCreates(d, c) PROVE
    OneCheckPerDelivery'
    BY <2>4 DEF GitHubCreates, Settings
  <2>5. ASSUME NEW c \in CheckIds, GitHubCompletes(d, c) PROVE
    OneCheckPerDelivery'
    BY <2>5 DEF GitHubCompletes, Settings
  <2>6. ASSUME NEW c \in CheckIds, NEW outcome \in {"verdict",
    "not_checked"}, Publish(d, c, outcome) PROVE OneCheckPerDelivery'
    BY <2>6 DEF Publish, Settings
  <2> QED
    BY <1>9, <2>1, <2>2, <2>3, <2>4, <2>5, <2>6 DEF GitHub
<1>10. CASE Tick
  BY <1>10 DEF Tick, Aged, Less
<1>11. CASE UNCHANGED vars
  BY <1>11 DEF vars
<1>12. ASSUME NEW d \in Deliveries, LogOperator(d) PROVE OneCheckPerDelivery'
  BY <1>12 DEF LogOperator
<1> QED
  BY <1>1, <1>2, <1>3, <1>4, <1>5, <1>6, <1>7, <1>8, <1>9, <1>10, <1>11,
     <1>12 DEF Next, Alarm

\* A ledger records the check that carries its own external_id, and calls it
\* completed or timed_out only when it is.
LEMMA OwnStep ==
    TypeOK /\ AwaitMatchesStage /\ RequestsMatchStage /\ ForgottenForGood /\
  ChecksMatchRequests /\ OneCheckPerDelivery /\ CheckIsOwn /\ [Next]_vars =>
  CheckIsOwn'
<1> SUFFICES ASSUME TypeOK, AwaitMatchesStage, RequestsMatchStage,
      ForgottenForGood, ChecksMatchRequests, OneCheckPerDelivery,
      CheckIsOwn, [Next]_vars PROVE CheckIsOwn'
  OBVIOUS
<1> USE DeliveryAssumption, TimeAssumption
<1> USE DEF Put, Goto, TypeOK, Record, github, history, Owned,
     AwaitMatchesStage, RequestsMatchStage, ForgottenForGood,
     ChecksMatchRequests, OneCheckPerDelivery, CheckIsOwn
<1>1. ASSUME NEW d \in Deliveries, Receive(d) PROVE CheckIsOwn'
  <2>1. CASE ReceiveEvent(d)
    BY <2>1 DEF ReceiveEvent, Fresh, Queued
  <2>2. CASE ReceiveLegacy(d)
    BY <2>2 DEF ReceiveLegacy, Reconcilable, Queued
  <2>3. ASSUME NEW c \in CheckIds, ReceiveRerun(d, c) PROVE CheckIsOwn'
    BY <2>3 DEF ReceiveRerun, Fresh, Queued
  <2> QED
    BY <1>1, <2>1, <2>2, <2>3 DEF Receive
<1>2. ASSUME NEW d \in Deliveries, Wakes(d) PROVE CheckIsOwn'
  <2>1. CASE Forget(d)
    BY <2>1 DEF Forget, Finds, AlarmDue, Blank
  <2>2. CASE StartCreate(d)
    BY <2>2 DEF StartCreate, Finds, AlarmDue, DeadlinePassed, Begin
  <2>3. CASE ExpireQueued(d)
    BY <2>3 DEF ExpireQueued, Finds, AlarmDue, DeadlinePassed, Retain,
         Retained, With
  <2>4. CASE StartRecover(d)
    BY <2>4 DEF StartRecover, Finds, AlarmDue, Begin
  <2>5. CASE StartDispatch(d)
    BY <2>5 DEF StartDispatch, Finds, AlarmDue, DeadlinePassed, Begin
  <2>6. CASE ResumeDispatching(d)
    BY <2>6 DEF ResumeDispatching, Finds, AlarmDue, Saved, With
  <2>7. CASE StartFinish(d)
    BY <2>7 DEF StartFinish, Finds, AlarmDue, DeadlinePassed, Begin
  <2>8. CASE StartRerun(d)
    BY <2>8 DEF StartRerun, Finds, AlarmDue, DeadlinePassed, Begin
  <2>9. CASE ExpireRerun(d)
    BY <2>9 DEF ExpireRerun, Finds, AlarmDue, DeadlinePassed, Retain,
         Retained, With
  <2> QED
    BY <1>2, <2>1, <2>2, <2>3, <2>4, <2>5, <2>6, <2>7, <2>8, <2>9 DEF Wakes
<1>3. ASSUME NEW d \in Deliveries, PrepareRerequest(d) PROVE CheckIsOwn'
  <2>1. CASE ReadSource(d)
    BY <2>1 DEF ReadSource, SourceOk, Original, Begin
  <2>2. CASE VerifyRerun(d)
    BY <2>2 DEF VerifyRerun, Begin
  <2>3. CASE ClaimRetry(d)
    BY <2>3 DEF ClaimRetry, SourceOk, Original, Claimed
  <2>4. CASE QueueRerun(d)
    BY <2>4 DEF QueueRerun, Entered, With
  <2>5. CASE RejectRerun(d)
    BY <2>5 DEF RejectRerun, Retain, Retained, With
  <2> QED
    BY <1>3, <2>1, <2>2, <2>3, <2>4, <2>5 DEF PrepareRerequest
<1>4. ASSUME NEW d \in Deliveries, CreateCheck(d) PROVE CheckIsOwn'
  <2>1. CASE SendCreate(d)
    BY <2>1 DEF SendCreate, Entered, With
  <2>2. CASE CreateAnswered(d)
    BY <2>2 DEF CreateAnswered, CheckCreated, Linked, With
  <2>3. ASSUME NEW c \in CheckIds, RecoverCompleted(d, c) PROVE
    CheckIsOwn'
    BY <2>3 DEF RecoverCompleted, Recovers, Owned, Linked, Retain, Retained,
         With
  <2>4. ASSUME NEW c \in CheckIds, RecoverLegacy(d, c) PROVE CheckIsOwn'
    BY <2>4 DEF RecoverLegacy, Recovers, Owned, Linked, With
  <2>5. ASSUME NEW c \in CheckIds, RecoverCreated(d, c) PROVE CheckIsOwn'
    BY <2>5 DEF RecoverCreated, Recovers, Owned, CheckCreated, Linked, With
  <2> QED
    BY <1>4, <2>1, <2>2, <2>3, <2>4, <2>5 DEF CreateCheck
<1>5. ASSUME NEW d \in Deliveries, DispatchControl(d) PROVE CheckIsOwn'
  <2>1. CASE CreatedInTime(d)
    BY <2>1 DEF CreatedInTime, DeadlinePassed, Begin
  <2>2. CASE CreatedTooLate(d)
    BY <2>2 DEF CreatedTooLate, DeadlinePassed, Saved, With
  <2>3. CASE SendDispatch(d)
    BY <2>3 DEF SendDispatch, Entered, With
  <2>4. CASE DispatchAnswered(d)
    BY <2>4 DEF DispatchAnswered, Saved, With
  <2> QED
    BY <1>5, <2>1, <2>2, <2>3, <2>4 DEF DispatchControl
<1>6. ASSUME NEW d \in Deliveries, Finish(d) PROVE CheckIsOwn'
  <2>1. CASE FindCompleted(d)
    BY <2>1 DEF FindCompleted, Retain, Retained, With
  <2>2. CASE SendNotChecked(d)
    BY <2>2 DEF SendNotChecked
  <2>3. CASE NotCheckedAnswered(d)
    BY <2>3, SettledIsOwn
  <2> QED
    BY <1>6, <2>1, <2>2, <2>3 DEF Finish
<1>7. ASSUME NEW d \in Deliveries, Fail(d) PROVE CheckIsOwn'
  <2>1. CASE RetryLater(d)
    BY <2>1 DEF RetryLater, Throws, Awaits, StopsRetrying, Failures, Failed,
         With
  <2>2. CASE WatchUntilDeadline(d)
    BY <2>2 DEF WatchUntilDeadline, Throws, Awaits, StopsRetrying, Failures,
         Entered, With
  <2>3. CASE GiveUp(d)
    BY <2>3 DEF GiveUp, Throws, Awaits, StopsRetrying, Failures, Failed,
         Retain, Retained, With
  <2> QED
    BY <1>7, <2>1, <2>2, <2>3 DEF Fail
<1>8. ASSUME NEW d \in Deliveries, Crash(d) PROVE CheckIsOwn'
  BY <1>8 DEF Crash
<1>9. ASSUME NEW d \in Deliveries, GitHub(d) PROVE CheckIsOwn'
  <2>1. CASE GitHubStarts(d)
    BY <2>1 DEF GitHubStarts, Settings
  <2>2. CASE WorkflowDies(d)
    BY <2>2 DEF WorkflowDies, Settings
  <2>3. CASE LoseRequest(d)
    BY <2>3 DEF LoseRequest, Settings
  <2>4. ASSUME NEW c \in CheckIds, GitHubCreates(d, c) PROVE CheckIsOwn'
    BY <2>4 DEF GitHubCreates, Settings
  <2>5. ASSUME NEW c \in CheckIds, GitHubCompletes(d, c) PROVE CheckIsOwn'
    BY <2>5 DEF GitHubCompletes, Settings
  <2>6. ASSUME NEW c \in CheckIds, NEW outcome \in {"verdict",
    "not_checked"}, Publish(d, c, outcome) PROVE CheckIsOwn'
    BY <2>6 DEF Publish, Settings
  <2> QED
    BY <1>9, <2>1, <2>2, <2>3, <2>4, <2>5, <2>6 DEF GitHub
<1>10. CASE Tick
  BY <1>10 DEF Tick, Aged, Less
<1>11. CASE UNCHANGED vars
  BY <1>11 DEF vars
<1>12. ASSUME NEW d \in Deliveries, LogOperator(d) PROVE CheckIsOwn'
  BY <1>12 DEF LogOperator
<1> QED
  BY <1>1, <1>2, <1>3, <1>4, <1>5, <1>6, <1>7, <1>8, <1>9, <1>10, <1>11,
     <1>12 DEF Next, Alarm

\* The alarm of a dispatched record is never due before its deadline.
LEMMA DeadlineStep ==
    TypeOK /\ AwaitMatchesStage /\ DeadlineFirst /\ [Next]_vars =>
  DeadlineFirst'
<1> SUFFICES ASSUME TypeOK, AwaitMatchesStage, DeadlineFirst, [Next]_vars
      PROVE DeadlineFirst'
  OBVIOUS
<1> USE DeliveryAssumption, TimeAssumption
<1> USE DEF Put, Goto, TypeOK, Record, github, history, AwaitMatchesStage,
     DeadlineFirst
<1>1. ASSUME NEW d \in Deliveries, Receive(d) PROVE DeadlineFirst'
  <2>1. CASE ReceiveEvent(d)
    BY <2>1 DEF ReceiveEvent, Fresh, Queued
  <2>2. CASE ReceiveLegacy(d)
    BY <2>2 DEF ReceiveLegacy, Reconcilable, Queued
  <2>3. ASSUME NEW c \in CheckIds, ReceiveRerun(d, c) PROVE DeadlineFirst'
    BY <2>3 DEF ReceiveRerun, Fresh, Queued
  <2> QED
    BY <1>1, <2>1, <2>2, <2>3 DEF Receive
<1>2. ASSUME NEW d \in Deliveries, Wakes(d) PROVE DeadlineFirst'
  <2>1. CASE Forget(d)
    BY <2>1 DEF Forget, Finds, AlarmDue, Blank
  <2>2. CASE StartCreate(d)
    BY <2>2 DEF StartCreate, Finds, AlarmDue, DeadlinePassed, Begin
  <2>3. CASE ExpireQueued(d)
    BY <2>3 DEF ExpireQueued, Finds, AlarmDue, DeadlinePassed, Retain,
         Retained, With
  <2>4. CASE StartRecover(d)
    BY <2>4 DEF StartRecover, Finds, AlarmDue, Begin
  <2>5. CASE StartDispatch(d)
    BY <2>5 DEF StartDispatch, Finds, AlarmDue, DeadlinePassed, Begin
  <2>6. CASE ResumeDispatching(d)
    BY <2>6 DEF ResumeDispatching, Finds, AlarmDue, Saved, With
  <2>7. CASE StartFinish(d)
    BY <2>7 DEF StartFinish, Finds, AlarmDue, DeadlinePassed, Begin
  <2>8. CASE StartRerun(d)
    BY <2>8 DEF StartRerun, Finds, AlarmDue, DeadlinePassed, Begin
  <2>9. CASE ExpireRerun(d)
    BY <2>9 DEF ExpireRerun, Finds, AlarmDue, DeadlinePassed, Retain,
         Retained, With
  <2> QED
    BY <1>2, <2>1, <2>2, <2>3, <2>4, <2>5, <2>6, <2>7, <2>8, <2>9 DEF Wakes
<1>3. ASSUME NEW d \in Deliveries, PrepareRerequest(d) PROVE DeadlineFirst'
  <2>1. CASE ReadSource(d)
    BY <2>1 DEF ReadSource, SourceOk, Original, Begin
  <2>2. CASE VerifyRerun(d)
    BY <2>2 DEF VerifyRerun, Begin
  <2>3. CASE ClaimRetry(d)
    BY <2>3 DEF ClaimRetry, SourceOk, Original, Claimed
  <2>4. CASE QueueRerun(d)
    BY <2>4 DEF QueueRerun, Entered, With
  <2>5. CASE RejectRerun(d)
    BY <2>5 DEF RejectRerun, Retain, Retained, With
  <2> QED
    BY <1>3, <2>1, <2>2, <2>3, <2>4, <2>5 DEF PrepareRerequest
<1>4. ASSUME NEW d \in Deliveries, CreateCheck(d) PROVE DeadlineFirst'
  <2>1. CASE SendCreate(d)
    BY <2>1 DEF SendCreate, Entered, With
  <2>2. CASE CreateAnswered(d)
    BY <2>2 DEF CreateAnswered, CheckCreated, Linked, With
  <2>3. ASSUME NEW c \in CheckIds, RecoverCompleted(d, c) PROVE
    DeadlineFirst'
    BY <2>3 DEF RecoverCompleted, Recovers, Owned, Linked, Retain, Retained,
         With
  <2>4. ASSUME NEW c \in CheckIds, RecoverLegacy(d, c) PROVE
    DeadlineFirst'
    BY <2>4 DEF RecoverLegacy, Recovers, Owned, Linked, With
  <2>5. ASSUME NEW c \in CheckIds, RecoverCreated(d, c) PROVE
    DeadlineFirst'
    BY <2>5 DEF RecoverCreated, Recovers, Owned, CheckCreated, Linked, With
  <2> QED
    BY <1>4, <2>1, <2>2, <2>3, <2>4, <2>5 DEF CreateCheck
<1>5. ASSUME NEW d \in Deliveries, DispatchControl(d) PROVE DeadlineFirst'
  <2>1. CASE CreatedInTime(d)
    BY <2>1 DEF CreatedInTime, DeadlinePassed, Begin
  <2>2. CASE CreatedTooLate(d)
    BY <2>2 DEF CreatedTooLate, DeadlinePassed, Saved, With
  <2>3. CASE SendDispatch(d)
    BY <2>3 DEF SendDispatch, Entered, With
  <2>4. CASE DispatchAnswered(d)
    BY <2>4 DEF DispatchAnswered, Saved, With
  <2> QED
    BY <1>5, <2>1, <2>2, <2>3, <2>4 DEF DispatchControl
<1>6. ASSUME NEW d \in Deliveries, Finish(d) PROVE DeadlineFirst'
  <2>1. CASE FindCompleted(d)
    BY <2>1 DEF FindCompleted, Retain, Retained, With
  <2>2. CASE SendNotChecked(d)
    BY <2>2 DEF SendNotChecked
  <2>3. CASE NotCheckedAnswered(d)
    BY <2>3 DEF NotCheckedAnswered, Retain, Retained, With
  <2> QED
    BY <1>6, <2>1, <2>2, <2>3 DEF Finish
<1>7. ASSUME NEW d \in Deliveries, Fail(d) PROVE DeadlineFirst'
  <2>1. CASE RetryLater(d)
    BY <2>1 DEF RetryLater, Throws, Awaits, StopsRetrying, Failures, Failed,
         With
  <2>2. CASE WatchUntilDeadline(d)
    BY <2>2 DEF WatchUntilDeadline, Throws, Awaits, StopsRetrying, Failures,
         Entered, With
  <2>3. CASE GiveUp(d)
    BY <2>3 DEF GiveUp, Throws, Awaits, StopsRetrying, Failures, Failed,
         Retain, Retained, With
  <2> QED
    BY <1>7, <2>1, <2>2, <2>3 DEF Fail
<1>8. ASSUME NEW d \in Deliveries, Crash(d) PROVE DeadlineFirst'
  BY <1>8 DEF Crash
<1>9. ASSUME NEW d \in Deliveries, GitHub(d) PROVE DeadlineFirst'
  BY <1>9 DEF GitHub, GitHubStarts, WorkflowDies, LoseRequest, GitHubCreates,
       GitHubCompletes, Publish, Settings
<1>10. CASE Tick
  BY <1>10 DEF Tick, Aged, Less
<1>11. CASE UNCHANGED vars
  BY <1>11 DEF vars
<1>12. ASSUME NEW d \in Deliveries, LogOperator(d) PROVE DeadlineFirst'
  BY <1>12 DEF LogOperator
<1> QED
  BY <1>1, <1>2, <1>3, <1>4, <1>5, <1>6, <1>7, <1>8, <1>9, <1>10, <1>11,
     <1>12 DEF Next, Alarm

\* An admission is backed by the claim at the original ledger until that record
\* is deleted, and the check it is for stays completed.
LEMMA ClaimStep ==
    TypeOK /\ AwaitMatchesStage /\ RequestsMatchStage /\ ForgottenForGood /\
  ChecksMatchRequests /\ CheckIsOwn /\ QueuedWasAdmitted /\ ClaimBacksRetry /\
  [Next]_vars => ClaimBacksRetry'
<1> SUFFICES ASSUME TypeOK, AwaitMatchesStage, RequestsMatchStage,
      ForgottenForGood, ChecksMatchRequests, CheckIsOwn,
      QueuedWasAdmitted, ClaimBacksRetry, [Next]_vars PROVE
      ClaimBacksRetry'
  OBVIOUS
<1> USE DeliveryAssumption, TimeAssumption
<1> USE DEF Put, Goto, TypeOK, Record, github, history, Owned, Admitted,
     AwaitMatchesStage, RequestsMatchStage, ForgottenForGood,
     ChecksMatchRequests, CheckIsOwn, QueuedWasAdmitted, ClaimBacksRetry
<1>1. ASSUME NEW d \in Deliveries, Receive(d) PROVE ClaimBacksRetry'
  <2>1. CASE ReceiveEvent(d)
    BY <2>1 DEF ReceiveEvent, Fresh, Queued
  <2>2. CASE ReceiveLegacy(d)
    BY <2>2 DEF ReceiveLegacy, Reconcilable, Queued
  <2>3. ASSUME NEW c \in CheckIds, ReceiveRerun(d, c) PROVE
    ClaimBacksRetry'
    BY <2>3 DEF ReceiveRerun, Fresh, Queued
  <2> QED
    BY <1>1, <2>1, <2>2, <2>3 DEF Receive
<1>2. ASSUME NEW d \in Deliveries, Wakes(d) PROVE ClaimBacksRetry'
  <2>1. CASE Forget(d)
    BY <2>1 DEF Forget, Finds, AlarmDue, Blank
  <2>2. CASE StartCreate(d)
    BY <2>2 DEF StartCreate, Finds, AlarmDue, DeadlinePassed, Begin
  <2>3. CASE ExpireQueued(d)
    BY <2>3 DEF ExpireQueued, Finds, AlarmDue, DeadlinePassed, Retain,
         Retained, With
  <2>4. CASE StartRecover(d)
    BY <2>4 DEF StartRecover, Finds, AlarmDue, Begin
  <2>5. CASE StartDispatch(d)
    BY <2>5 DEF StartDispatch, Finds, AlarmDue, DeadlinePassed, Begin
  <2>6. CASE ResumeDispatching(d)
    BY <2>6 DEF ResumeDispatching, Finds, AlarmDue, Saved, With
  <2>7. CASE StartFinish(d)
    BY <2>7 DEF StartFinish, Finds, AlarmDue, DeadlinePassed, Begin
  <2>8. CASE StartRerun(d)
    BY <2>8 DEF StartRerun, Finds, AlarmDue, DeadlinePassed, Begin
  <2>9. CASE ExpireRerun(d)
    BY <2>9 DEF ExpireRerun, Finds, AlarmDue, DeadlinePassed, Retain,
         Retained, With
  <2> QED
    BY <1>2, <2>1, <2>2, <2>3, <2>4, <2>5, <2>6, <2>7, <2>8, <2>9 DEF Wakes
<1>3. ASSUME NEW d \in Deliveries, PrepareRerequest(d) PROVE ClaimBacksRetry'
  <2>1. CASE ReadSource(d)
    BY <2>1 DEF ReadSource, SourceOk, Original, Begin
  <2>2. CASE VerifyRerun(d)
    BY <2>2 DEF VerifyRerun, Begin
  <2>3. CASE ClaimRetry(d)
    BY <2>3, ClaimBacks
  <2>4. CASE QueueRerun(d)
    BY <2>4 DEF QueueRerun, Entered, With
  <2>5. CASE RejectRerun(d)
    BY <2>5 DEF RejectRerun, Retain, Retained, With
  <2> QED
    BY <1>3, <2>1, <2>2, <2>3, <2>4, <2>5 DEF PrepareRerequest
<1>4. ASSUME NEW d \in Deliveries, CreateCheck(d) PROVE ClaimBacksRetry'
  <2>1. CASE SendCreate(d)
    BY <2>1 DEF SendCreate, Entered, With
  <2>2. CASE CreateAnswered(d)
    BY <2>2 DEF CreateAnswered, CheckCreated, Linked, With
  <2>3. ASSUME NEW c \in CheckIds, RecoverCompleted(d, c) PROVE
    ClaimBacksRetry'
    BY <2>3 DEF RecoverCompleted, Recovers, Owned, Linked, Retain, Retained,
         With
  <2>4. ASSUME NEW c \in CheckIds, RecoverLegacy(d, c) PROVE
    ClaimBacksRetry'
    BY <2>4 DEF RecoverLegacy, Recovers, Owned, Linked, With
  <2>5. ASSUME NEW c \in CheckIds, RecoverCreated(d, c) PROVE
    ClaimBacksRetry'
    BY <2>5 DEF RecoverCreated, Recovers, Owned, CheckCreated, Linked, With
  <2> QED
    BY <1>4, <2>1, <2>2, <2>3, <2>4, <2>5 DEF CreateCheck
<1>5. ASSUME NEW d \in Deliveries, DispatchControl(d) PROVE ClaimBacksRetry'
  <2>1. CASE CreatedInTime(d)
    BY <2>1 DEF CreatedInTime, DeadlinePassed, Begin
  <2>2. CASE CreatedTooLate(d)
    BY <2>2 DEF CreatedTooLate, DeadlinePassed, Saved, With
  <2>3. CASE SendDispatch(d)
    BY <2>3 DEF SendDispatch, Entered, With
  <2>4. CASE DispatchAnswered(d)
    BY <2>4 DEF DispatchAnswered, Saved, With
  <2> QED
    BY <1>5, <2>1, <2>2, <2>3, <2>4 DEF DispatchControl
<1>6. ASSUME NEW d \in Deliveries, Finish(d) PROVE ClaimBacksRetry'
  <2>1. CASE FindCompleted(d)
    BY <2>1 DEF FindCompleted, Retain, Retained, With
  <2>2. CASE SendNotChecked(d)
    BY <2>2 DEF SendNotChecked
  <2>3. CASE NotCheckedAnswered(d)
    BY <2>3 DEF NotCheckedAnswered, Retain, Retained, With
  <2> QED
    BY <1>6, <2>1, <2>2, <2>3 DEF Finish
<1>7. ASSUME NEW d \in Deliveries, Fail(d) PROVE ClaimBacksRetry'
  <2>1. CASE RetryLater(d)
    BY <2>1 DEF RetryLater, Throws, Awaits, StopsRetrying, Failures, Failed,
         With
  <2>2. CASE WatchUntilDeadline(d)
    BY <2>2 DEF WatchUntilDeadline, Throws, Awaits, StopsRetrying, Failures,
         Entered, With
  <2>3. CASE GiveUp(d)
    BY <2>3 DEF GiveUp, Throws, Awaits, StopsRetrying, Failures, Failed,
         Retain, Retained, With
  <2> QED
    BY <1>7, <2>1, <2>2, <2>3 DEF Fail
<1>8. ASSUME NEW d \in Deliveries, Crash(d) PROVE ClaimBacksRetry'
  BY <1>8 DEF Crash
<1>9. ASSUME NEW d \in Deliveries, GitHub(d) PROVE ClaimBacksRetry'
  <2>1. CASE GitHubStarts(d)
    BY <2>1 DEF GitHubStarts, Settings
  <2>2. CASE WorkflowDies(d)
    BY <2>2 DEF WorkflowDies, Settings
  <2>3. CASE LoseRequest(d)
    BY <2>3 DEF LoseRequest, Settings
  <2>4. ASSUME NEW c \in CheckIds, GitHubCreates(d, c) PROVE
    ClaimBacksRetry'
    BY <2>4 DEF GitHubCreates, Settings
  <2>5. ASSUME NEW c \in CheckIds, GitHubCompletes(d, c) PROVE
    ClaimBacksRetry'
    BY <2>5 DEF GitHubCompletes, Settings
  <2>6. ASSUME NEW c \in CheckIds, NEW outcome \in {"verdict",
    "not_checked"}, Publish(d, c, outcome) PROVE ClaimBacksRetry'
    BY <2>6 DEF Publish, Settings
  <2> QED
    BY <1>9, <2>1, <2>2, <2>3, <2>4, <2>5, <2>6 DEF GitHub
<1>10. CASE Tick
  BY <1>10, TickBacks
<1>11. CASE UNCHANGED vars
  BY <1>11 DEF vars
<1>12. ASSUME NEW d \in Deliveries, LogOperator(d) PROVE ClaimBacksRetry'
  BY <1>12 DEF LogOperator
<1> QED
  BY <1>1, <1>2, <1>3, <1>4, <1>5, <1>6, <1>7, <1>8, <1>9, <1>10, <1>11,
     <1>12 DEF Next, Alarm

\* A rerun is admitted only by a claim, and a claim excludes other claimants.
LEMMA AdmissionStep ==
    TypeOK /\ AwaitMatchesStage /\ QueuedWasAdmitted /\ ClaimBacksRetry /\
  OneAdmission /\ [Next]_vars => OneAdmission'
<1> SUFFICES ASSUME TypeOK, AwaitMatchesStage, QueuedWasAdmitted,
      ClaimBacksRetry, OneAdmission, [Next]_vars PROVE OneAdmission'
  OBVIOUS
<1> USE DeliveryAssumption, TimeAssumption
<1> USE DEF Put, Goto, TypeOK, Record, github, history, Admitted,
     AwaitMatchesStage, QueuedWasAdmitted, ClaimBacksRetry, OneAdmission
<1>1. ASSUME NEW d \in Deliveries, Receive(d) PROVE OneAdmission'
  <2>1. CASE ReceiveEvent(d)
    BY <2>1 DEF ReceiveEvent, Fresh, Queued
  <2>2. CASE ReceiveLegacy(d)
    BY <2>2 DEF ReceiveLegacy, Reconcilable, Queued
  <2>3. ASSUME NEW c \in CheckIds, ReceiveRerun(d, c) PROVE OneAdmission'
    BY <2>3 DEF ReceiveRerun, Fresh, Queued
  <2> QED
    BY <1>1, <2>1, <2>2, <2>3 DEF Receive
<1>2. ASSUME NEW d \in Deliveries, Wakes(d) PROVE OneAdmission'
  <2>1. CASE Forget(d)
    BY <2>1 DEF Forget, Finds, AlarmDue, Blank
  <2>2. CASE StartCreate(d)
    BY <2>2 DEF StartCreate, Finds, AlarmDue, DeadlinePassed, Begin
  <2>3. CASE ExpireQueued(d)
    BY <2>3 DEF ExpireQueued, Finds, AlarmDue, DeadlinePassed, Retain,
         Retained, With
  <2>4. CASE StartRecover(d)
    BY <2>4 DEF StartRecover, Finds, AlarmDue, Begin
  <2>5. CASE StartDispatch(d)
    BY <2>5 DEF StartDispatch, Finds, AlarmDue, DeadlinePassed, Begin
  <2>6. CASE ResumeDispatching(d)
    BY <2>6 DEF ResumeDispatching, Finds, AlarmDue, Saved, With
  <2>7. CASE StartFinish(d)
    BY <2>7 DEF StartFinish, Finds, AlarmDue, DeadlinePassed, Begin
  <2>8. CASE StartRerun(d)
    BY <2>8 DEF StartRerun, Finds, AlarmDue, DeadlinePassed, Begin
  <2>9. CASE ExpireRerun(d)
    BY <2>9 DEF ExpireRerun, Finds, AlarmDue, DeadlinePassed, Retain,
         Retained, With
  <2> QED
    BY <1>2, <2>1, <2>2, <2>3, <2>4, <2>5, <2>6, <2>7, <2>8, <2>9 DEF Wakes
<1>3. ASSUME NEW d \in Deliveries, PrepareRerequest(d) PROVE OneAdmission'
  <2>1. CASE ReadSource(d)
    BY <2>1 DEF ReadSource, SourceOk, Original, Begin
  <2>2. CASE VerifyRerun(d)
    BY <2>2 DEF VerifyRerun, Begin
  <2>3. CASE ClaimRetry(d)
    BY <2>3, ClaimAdmits
  <2>4. CASE QueueRerun(d)
    BY <2>4 DEF QueueRerun, Entered, With
  <2>5. CASE RejectRerun(d)
    BY <2>5 DEF RejectRerun, Retain, Retained, With
  <2> QED
    BY <1>3, <2>1, <2>2, <2>3, <2>4, <2>5 DEF PrepareRerequest
<1>4. ASSUME NEW d \in Deliveries, CreateCheck(d) PROVE OneAdmission'
  <2>1. CASE SendCreate(d)
    BY <2>1 DEF SendCreate, Entered, With
  <2>2. CASE CreateAnswered(d)
    BY <2>2 DEF CreateAnswered, CheckCreated, Linked, With
  <2>3. ASSUME NEW c \in CheckIds, RecoverCompleted(d, c) PROVE
    OneAdmission'
    BY <2>3 DEF RecoverCompleted, Recovers, Owned, Linked, Retain, Retained,
         With
  <2>4. ASSUME NEW c \in CheckIds, RecoverLegacy(d, c) PROVE OneAdmission'
    BY <2>4 DEF RecoverLegacy, Recovers, Owned, Linked, With
  <2>5. ASSUME NEW c \in CheckIds, RecoverCreated(d, c) PROVE
    OneAdmission'
    BY <2>5 DEF RecoverCreated, Recovers, Owned, CheckCreated, Linked, With
  <2> QED
    BY <1>4, <2>1, <2>2, <2>3, <2>4, <2>5 DEF CreateCheck
<1>5. ASSUME NEW d \in Deliveries, DispatchControl(d) PROVE OneAdmission'
  <2>1. CASE CreatedInTime(d)
    BY <2>1 DEF CreatedInTime, DeadlinePassed, Begin
  <2>2. CASE CreatedTooLate(d)
    BY <2>2 DEF CreatedTooLate, DeadlinePassed, Saved, With
  <2>3. CASE SendDispatch(d)
    BY <2>3 DEF SendDispatch, Entered, With
  <2>4. CASE DispatchAnswered(d)
    BY <2>4 DEF DispatchAnswered, Saved, With
  <2> QED
    BY <1>5, <2>1, <2>2, <2>3, <2>4 DEF DispatchControl
<1>6. ASSUME NEW d \in Deliveries, Finish(d) PROVE OneAdmission'
  <2>1. CASE FindCompleted(d)
    BY <2>1 DEF FindCompleted, Retain, Retained, With
  <2>2. CASE SendNotChecked(d)
    BY <2>2 DEF SendNotChecked
  <2>3. CASE NotCheckedAnswered(d)
    BY <2>3 DEF NotCheckedAnswered, Retain, Retained, With
  <2> QED
    BY <1>6, <2>1, <2>2, <2>3 DEF Finish
<1>7. ASSUME NEW d \in Deliveries, Fail(d) PROVE OneAdmission'
  <2>1. CASE RetryLater(d)
    BY <2>1 DEF RetryLater, Throws, Awaits, StopsRetrying, Failures, Failed,
         With
  <2>2. CASE WatchUntilDeadline(d)
    BY <2>2 DEF WatchUntilDeadline, Throws, Awaits, StopsRetrying, Failures,
         Entered, With
  <2>3. CASE GiveUp(d)
    BY <2>3 DEF GiveUp, Throws, Awaits, StopsRetrying, Failures, Failed,
         Retain, Retained, With
  <2> QED
    BY <1>7, <2>1, <2>2, <2>3 DEF Fail
<1>8. ASSUME NEW d \in Deliveries, Crash(d) PROVE OneAdmission'
  BY <1>8 DEF Crash
<1>9. ASSUME NEW d \in Deliveries, GitHub(d) PROVE OneAdmission'
  BY <1>9 DEF GitHub, GitHubStarts, WorkflowDies, LoseRequest, GitHubCreates,
       GitHubCompletes, Publish, Settings
<1>10. CASE Tick
  BY <1>10, TickAdmits
<1>11. CASE UNCHANGED vars
  BY <1>11 DEF vars
<1>12. ASSUME NEW d \in Deliveries, LogOperator(d) PROVE OneAdmission'
  BY <1>12 DEF LogOperator
<1> QED
  BY <1>1, <1>2, <1>3, <1>4, <1>5, <1>6, <1>7, <1>8, <1>9, <1>10, <1>11,
     <1>12 DEF Next, Alarm

\* A rerun reaches the stages of its own check through its admission only.
LEMMA QueuedStep ==
    TypeOK /\ AwaitMatchesStage /\ RequestsMatchStage /\ ForgottenForGood /\
  ClaimBacksRetry /\ QueuedWasAdmitted /\ [Next]_vars => QueuedWasAdmitted'
<1> SUFFICES ASSUME TypeOK, AwaitMatchesStage, RequestsMatchStage,
      ForgottenForGood, ClaimBacksRetry, QueuedWasAdmitted, [Next]_vars
      PROVE QueuedWasAdmitted'
  OBVIOUS
<1> USE DeliveryAssumption, TimeAssumption
<1> USE DEF Put, Goto, TypeOK, Record, github, history, AwaitMatchesStage,
     RequestsMatchStage, ForgottenForGood, ClaimBacksRetry, QueuedWasAdmitted
<1>1. ASSUME NEW d \in Deliveries, Receive(d) PROVE QueuedWasAdmitted'
  <2>1. CASE ReceiveEvent(d)
    BY <2>1 DEF ReceiveEvent, Fresh, Queued
  <2>2. CASE ReceiveLegacy(d)
    BY <2>2 DEF ReceiveLegacy, Reconcilable, Queued
  <2>3. ASSUME NEW c \in CheckIds, ReceiveRerun(d, c) PROVE
    QueuedWasAdmitted'
    BY <2>3 DEF ReceiveRerun, Fresh, Queued
  <2> QED
    BY <1>1, <2>1, <2>2, <2>3 DEF Receive
<1>2. ASSUME NEW d \in Deliveries, Wakes(d) PROVE QueuedWasAdmitted'
  <2>1. CASE Forget(d)
    BY <2>1 DEF Forget, Finds, AlarmDue, Blank
  <2>2. CASE StartCreate(d)
    BY <2>2 DEF StartCreate, Finds, AlarmDue, DeadlinePassed, Begin
  <2>3. CASE ExpireQueued(d)
    BY <2>3 DEF ExpireQueued, Finds, AlarmDue, DeadlinePassed, Retain,
         Retained, With
  <2>4. CASE StartRecover(d)
    BY <2>4 DEF StartRecover, Finds, AlarmDue, Begin
  <2>5. CASE StartDispatch(d)
    BY <2>5 DEF StartDispatch, Finds, AlarmDue, DeadlinePassed, Begin
  <2>6. CASE ResumeDispatching(d)
    BY <2>6 DEF ResumeDispatching, Finds, AlarmDue, Saved, With
  <2>7. CASE StartFinish(d)
    BY <2>7 DEF StartFinish, Finds, AlarmDue, DeadlinePassed, Begin
  <2>8. CASE StartRerun(d)
    BY <2>8 DEF StartRerun, Finds, AlarmDue, DeadlinePassed, Begin
  <2>9. CASE ExpireRerun(d)
    BY <2>9 DEF ExpireRerun, Finds, AlarmDue, DeadlinePassed, Retain,
         Retained, With
  <2> QED
    BY <1>2, <2>1, <2>2, <2>3, <2>4, <2>5, <2>6, <2>7, <2>8, <2>9 DEF Wakes
<1>3. ASSUME NEW d \in Deliveries, PrepareRerequest(d) PROVE QueuedWasAdmitted'
  <2>1. CASE ReadSource(d)
    BY <2>1 DEF ReadSource, SourceOk, Original, Begin
  <2>2. CASE VerifyRerun(d)
    BY <2>2 DEF VerifyRerun, Begin
  <2>3. CASE ClaimRetry(d)
    BY <2>3 DEF ClaimRetry, SourceOk, Original, Claimed
  <2>4. CASE QueueRerun(d)
    BY <2>4 DEF QueueRerun, Entered, With
  <2>5. CASE RejectRerun(d)
    BY <2>5 DEF RejectRerun, Retain, Retained, With
  <2> QED
    BY <1>3, <2>1, <2>2, <2>3, <2>4, <2>5 DEF PrepareRerequest
<1>4. ASSUME NEW d \in Deliveries, CreateCheck(d) PROVE QueuedWasAdmitted'
  <2>1. CASE SendCreate(d)
    BY <2>1 DEF SendCreate, Entered, With
  <2>2. CASE CreateAnswered(d)
    BY <2>2 DEF CreateAnswered, CheckCreated, Linked, With
  <2>3. ASSUME NEW c \in CheckIds, RecoverCompleted(d, c) PROVE
    QueuedWasAdmitted'
    BY <2>3 DEF RecoverCompleted, Recovers, Owned, Linked, Retain, Retained,
         With
  <2>4. ASSUME NEW c \in CheckIds, RecoverLegacy(d, c) PROVE
    QueuedWasAdmitted'
    BY <2>4 DEF RecoverLegacy, Recovers, Owned, Linked, With
  <2>5. ASSUME NEW c \in CheckIds, RecoverCreated(d, c) PROVE
    QueuedWasAdmitted'
    BY <2>5 DEF RecoverCreated, Recovers, Owned, CheckCreated, Linked, With
  <2> QED
    BY <1>4, <2>1, <2>2, <2>3, <2>4, <2>5 DEF CreateCheck
<1>5. ASSUME NEW d \in Deliveries, DispatchControl(d) PROVE QueuedWasAdmitted'
  <2>1. CASE CreatedInTime(d)
    BY <2>1 DEF CreatedInTime, DeadlinePassed, Begin
  <2>2. CASE CreatedTooLate(d)
    BY <2>2 DEF CreatedTooLate, DeadlinePassed, Saved, With
  <2>3. CASE SendDispatch(d)
    BY <2>3 DEF SendDispatch, Entered, With
  <2>4. CASE DispatchAnswered(d)
    BY <2>4 DEF DispatchAnswered, Saved, With
  <2> QED
    BY <1>5, <2>1, <2>2, <2>3, <2>4 DEF DispatchControl
<1>6. ASSUME NEW d \in Deliveries, Finish(d) PROVE QueuedWasAdmitted'
  <2>1. CASE FindCompleted(d)
    BY <2>1 DEF FindCompleted, Retain, Retained, With
  <2>2. CASE SendNotChecked(d)
    BY <2>2 DEF SendNotChecked
  <2>3. CASE NotCheckedAnswered(d)
    BY <2>3 DEF NotCheckedAnswered, Retain, Retained, With
  <2> QED
    BY <1>6, <2>1, <2>2, <2>3 DEF Finish
<1>7. ASSUME NEW d \in Deliveries, Fail(d) PROVE QueuedWasAdmitted'
  <2>1. CASE RetryLater(d)
    BY <2>1 DEF RetryLater, Throws, Awaits, StopsRetrying, Failures, Failed,
         With
  <2>2. CASE WatchUntilDeadline(d)
    BY <2>2 DEF WatchUntilDeadline, Throws, Awaits, StopsRetrying, Failures,
         Entered, With
  <2>3. CASE GiveUp(d)
    BY <2>3 DEF GiveUp, Throws, Awaits, StopsRetrying, Failures, Failed,
         Retain, Retained, With
  <2> QED
    BY <1>7, <2>1, <2>2, <2>3 DEF Fail
<1>8. ASSUME NEW d \in Deliveries, Crash(d) PROVE QueuedWasAdmitted'
  BY <1>8 DEF Crash
<1>9. ASSUME NEW d \in Deliveries, GitHub(d) PROVE QueuedWasAdmitted'
  BY <1>9 DEF GitHub, GitHubStarts, WorkflowDies, LoseRequest, GitHubCreates,
       GitHubCompletes, Publish, Settings
<1>10. CASE Tick
  BY <1>10, TickQueued
<1>11. CASE UNCHANGED vars
  BY <1>11 DEF vars
<1>12. ASSUME NEW d \in Deliveries, LogOperator(d) PROVE QueuedWasAdmitted'
  BY <1>12 DEF LogOperator
<1> QED
  BY <1>1, <1>2, <1>3, <1>4, <1>5, <1>6, <1>7, <1>8, <1>9, <1>10, <1>11,
     <1>12 DEF Next, Alarm

\* While the control workflow runs, its ledger watches the check or settled it.
LEMMA WatchStep ==
    TypeOK /\ AwaitMatchesStage /\ RequestsMatchStage /\ ForgottenForGood /\
  RunsMatchRequests /\ ChecksMatchRequests /\ OneCheckPerDelivery /\
  CheckIsOwn /\ WatchedWhileRunning /\ [Next]_vars => WatchedWhileRunning'
<1> SUFFICES ASSUME TypeOK, AwaitMatchesStage, RequestsMatchStage,
      ForgottenForGood, RunsMatchRequests, ChecksMatchRequests,
      OneCheckPerDelivery, CheckIsOwn, WatchedWhileRunning, [Next]_vars
      PROVE WatchedWhileRunning'
  OBVIOUS
<1> USE DeliveryAssumption, TimeAssumption
<1> USE DEF Put, Goto, TypeOK, Record, github, history, Owned,
     AwaitMatchesStage, RequestsMatchStage, ForgottenForGood,
     RunsMatchRequests, ChecksMatchRequests, OneCheckPerDelivery, CheckIsOwn,
     WatchedWhileRunning
<1>1. ASSUME NEW d \in Deliveries, Receive(d) PROVE WatchedWhileRunning'
  <2>1. CASE ReceiveEvent(d)
    BY <2>1 DEF ReceiveEvent, Fresh, Queued
  <2>2. CASE ReceiveLegacy(d)
    BY <2>2 DEF ReceiveLegacy, Reconcilable, Queued
  <2>3. ASSUME NEW c \in CheckIds, ReceiveRerun(d, c) PROVE
    WatchedWhileRunning'
    BY <2>3 DEF ReceiveRerun, Fresh, Queued
  <2> QED
    BY <1>1, <2>1, <2>2, <2>3 DEF Receive
<1>2. ASSUME NEW d \in Deliveries, Wakes(d) PROVE WatchedWhileRunning'
  <2>1. CASE Forget(d)
    BY <2>1 DEF Forget, Finds, AlarmDue, Blank
  <2>2. CASE StartCreate(d)
    BY <2>2 DEF StartCreate, Finds, AlarmDue, DeadlinePassed, Begin
  <2>3. CASE ExpireQueued(d)
    BY <2>3 DEF ExpireQueued, Finds, AlarmDue, DeadlinePassed, Retain,
         Retained, With
  <2>4. CASE StartRecover(d)
    BY <2>4 DEF StartRecover, Finds, AlarmDue, Begin
  <2>5. CASE StartDispatch(d)
    BY <2>5 DEF StartDispatch, Finds, AlarmDue, DeadlinePassed, Begin
  <2>6. CASE ResumeDispatching(d)
    BY <2>6 DEF ResumeDispatching, Finds, AlarmDue, Saved, With
  <2>7. CASE StartFinish(d)
    BY <2>7 DEF StartFinish, Finds, AlarmDue, DeadlinePassed, Begin
  <2>8. CASE StartRerun(d)
    BY <2>8 DEF StartRerun, Finds, AlarmDue, DeadlinePassed, Begin
  <2>9. CASE ExpireRerun(d)
    BY <2>9 DEF ExpireRerun, Finds, AlarmDue, DeadlinePassed, Retain,
         Retained, With
  <2> QED
    BY <1>2, <2>1, <2>2, <2>3, <2>4, <2>5, <2>6, <2>7, <2>8, <2>9 DEF Wakes
<1>3. ASSUME NEW d \in Deliveries, PrepareRerequest(d) PROVE WatchedWhileRunning'
  <2>1. CASE ReadSource(d)
    BY <2>1 DEF ReadSource, SourceOk, Original, Begin
  <2>2. CASE VerifyRerun(d)
    BY <2>2 DEF VerifyRerun, Begin
  <2>3. CASE ClaimRetry(d)
    BY <2>3 DEF ClaimRetry, SourceOk, Original, Claimed
  <2>4. CASE QueueRerun(d)
    BY <2>4 DEF QueueRerun, Entered, With
  <2>5. CASE RejectRerun(d)
    BY <2>5 DEF RejectRerun, Retain, Retained, With
  <2> QED
    BY <1>3, <2>1, <2>2, <2>3, <2>4, <2>5 DEF PrepareRerequest
<1>4. ASSUME NEW d \in Deliveries, CreateCheck(d) PROVE WatchedWhileRunning'
  <2>1. CASE SendCreate(d)
    BY <2>1 DEF SendCreate, Entered, With
  <2>2. CASE CreateAnswered(d)
    BY <2>2 DEF CreateAnswered, CheckCreated, Linked, With
  <2>3. ASSUME NEW c \in CheckIds, RecoverCompleted(d, c) PROVE
    WatchedWhileRunning'
    BY <2>3 DEF RecoverCompleted, Recovers, Owned, Linked, Retain, Retained,
         With
  <2>4. ASSUME NEW c \in CheckIds, RecoverLegacy(d, c) PROVE
    WatchedWhileRunning'
    BY <2>4 DEF RecoverLegacy, Recovers, Owned, Linked, With
  <2>5. ASSUME NEW c \in CheckIds, RecoverCreated(d, c) PROVE
    WatchedWhileRunning'
    BY <2>5 DEF RecoverCreated, Recovers, Owned, CheckCreated, Linked, With
  <2> QED
    BY <1>4, <2>1, <2>2, <2>3, <2>4, <2>5 DEF CreateCheck
<1>5. ASSUME NEW d \in Deliveries, DispatchControl(d) PROVE WatchedWhileRunning'
  <2>1. CASE CreatedInTime(d)
    BY <2>1 DEF CreatedInTime, DeadlinePassed, Begin
  <2>2. CASE CreatedTooLate(d)
    BY <2>2 DEF CreatedTooLate, DeadlinePassed, Saved, With
  <2>3. CASE SendDispatch(d)
    BY <2>3 DEF SendDispatch, Entered, With
  <2>4. CASE DispatchAnswered(d)
    BY <2>4 DEF DispatchAnswered, Saved, With
  <2> QED
    BY <1>5, <2>1, <2>2, <2>3, <2>4 DEF DispatchControl
<1>6. ASSUME NEW d \in Deliveries, Finish(d) PROVE WatchedWhileRunning'
  <2>1. CASE FindCompleted(d)
    BY <2>1 DEF FindCompleted, Retain, Retained, With
  <2>2. CASE SendNotChecked(d)
    BY <2>2 DEF SendNotChecked
  <2>3. CASE NotCheckedAnswered(d)
    BY <2>3 DEF NotCheckedAnswered, Retain, Retained, With
  <2> QED
    BY <1>6, <2>1, <2>2, <2>3 DEF Finish
<1>7. ASSUME NEW d \in Deliveries, Fail(d) PROVE WatchedWhileRunning'
  <2>1. CASE RetryLater(d)
    BY <2>1 DEF RetryLater, Throws, Awaits, StopsRetrying, Failures, Failed,
         With
  <2>2. CASE WatchUntilDeadline(d)
    BY <2>2 DEF WatchUntilDeadline, Throws, Awaits, StopsRetrying, Failures,
         Entered, With
  <2>3. CASE GiveUp(d)
    BY <2>3 DEF GiveUp, Throws, Awaits, StopsRetrying, Failures, Failed,
         Retain, Retained, With
  <2> QED
    BY <1>7, <2>1, <2>2, <2>3 DEF Fail
<1>8. ASSUME NEW d \in Deliveries, Crash(d) PROVE WatchedWhileRunning'
  BY <1>8 DEF Crash
<1>9. ASSUME NEW d \in Deliveries, GitHub(d) PROVE WatchedWhileRunning'
  <2>1. CASE GitHubStarts(d)
    BY <2>1 DEF GitHubStarts, Settings
  <2>2. CASE WorkflowDies(d)
    BY <2>2 DEF WorkflowDies, Settings
  <2>3. CASE LoseRequest(d)
    BY <2>3 DEF LoseRequest, Settings
  <2>4. ASSUME NEW c \in CheckIds, GitHubCreates(d, c) PROVE
    WatchedWhileRunning'
    BY <2>4 DEF GitHubCreates, Settings
  <2>5. ASSUME NEW c \in CheckIds, GitHubCompletes(d, c) PROVE
    WatchedWhileRunning'
    BY <2>5 DEF GitHubCompletes, Settings
  <2>6. ASSUME NEW c \in CheckIds, NEW outcome \in {"verdict",
    "not_checked"}, Publish(d, c, outcome) PROVE WatchedWhileRunning'
    BY <2>6 DEF Publish, Settings
  <2> QED
    BY <1>9, <2>1, <2>2, <2>3, <2>4, <2>5, <2>6 DEF GitHub
<1>10. CASE Tick
  BY <1>10 DEF Tick, Aged, Less
<1>11. CASE UNCHANGED vars
  BY <1>11 DEF vars
<1>12. ASSUME NEW d \in Deliveries, LogOperator(d) PROVE WatchedWhileRunning'
  BY <1>12 DEF LogOperator
<1> QED
  BY <1>1, <1>2, <1>3, <1>4, <1>5, <1>6, <1>7, <1>8, <1>9, <1>10, <1>11,
     <1>12 DEF Next, Alarm

\* Every step keeps every part of the invariant.
LEMMA InvStep == IndInv /\ [Next]_vars => IndInv'
  BY TypeStep, StageStep, OneRequestStep, RequestStep, RunStep, ForgetStep,
     CheckStep, OneCheckStep, OwnStep, DeadlineStep, ClaimStep, AdmissionStep,
     QueuedStep, WatchStep DEF IndInv

-----------------------------------------------------------------------------
(* The theorems. *)

\* The inductive invariant holds of every instance.
THEOREM Invariance == Spec => []IndInv
<1>1. Init => IndInv
  BY InitInv
<1>2. IndInv /\ [Next]_vars => IndInv'
  BY InvStep
<1> QED
  BY <1>1, <1>2, PTL DEF Spec

\* Every variable keeps its type: no step of the ledgers stores a record
\* that its readers do not expect.
THEOREM TypeCorrect == Spec => []TypeOK
<1>1. IndInv => TypeOK
  BY DEF IndInv
<1> QED
  BY <1>1, Invariance, PTL

\* For any number of deliveries, any timers, any failure budget and any
\* crashes, a delivery requests one check and one workflow at most.
THEOREM RequestsOnce == Spec => []AtMostOneRequest
<1>1. IndInv => AtMostOneRequest
  BY DEF IndInv
<1> QED
  BY <1>1, Invariance, PTL

\* Retention as long as the redelivery window is enough: no webhook is
\* taken for a new delivery after its record was deleted.
THEOREM Remembered == Spec => []RedeliveryRemembered
<1>1. IndInv => RedeliveryRemembered
  BY DEF IndInv, TypeOK, ForgottenForGood, RedeliveryRemembered
<1> QED
  BY <1>1, Invariance, PTL

\* A record that says completed or timed_out is true of the check at GitHub.
THEOREM Truthful == Spec => []TerminalTruth
<1>1. IndInv => TerminalTruth
  BY DEF IndInv, TypeOK, Record, CheckIsOwn, TerminalTruth
<1> QED
  BY <1>1, Invariance, PTL

\* Any number of racing re-run webhooks get at most one retry of a check,
\* also after the original ledger deleted its record and claim.
THEOREM RetriesOnce == Spec => []OneRetryPerCheck
<1>1. IndInv => OneRetryPerCheck
  BY DEF IndInv, TypeOK, Deliveries, OneAdmission, Admitted, OneRetryPerCheck
<1> QED
  BY <1>1, Invariance, PTL

\* No retry is admitted for a check that is still running.
THEOREM RetriesCompleted == Spec => []RetryOnlyCompleted
<1>1. IndInv => RetryOnlyCompleted
  BY
  DEF IndInv, TypeOK, Deliveries, ClaimBacksRetry, Admitted, RetryOnlyCompleted
<1> QED
  BY <1>1, Invariance, PTL

\* A ledger never completes a check as NOT CHECKED before its deadline.
THEOREM NeverEarly == Spec => NotCheckedOnlyLate
<1>1. IndInv /\ [Next]_vars =>
        [\A d \in Deliveries :
           patch[d] # "sent" /\ patch'[d] = "sent" => DeadlinePassed(d)]_vars
  <2> SUFFICES ASSUME IndInv, [Next]_vars, NEW d \in Deliveries,
                      patch[d] # "sent", patch'[d] = "sent"
               PROVE  DeadlinePassed(d)
    OBVIOUS
  <2>0. patch' # patch
    OBVIOUS
  <2> USE DEF github, history
  <2>1. ASSUME NEW e \in Deliveries, Receive(e) PROVE FALSE
    BY <2>0, <2>1 DEF Receive, ReceiveEvent, ReceiveLegacy, ReceiveRerun
  <2>2. ASSUME NEW e \in Deliveries, Wakes(e) PROVE FALSE
    BY <2>0, <2>2
    DEF Wakes, Forget, StartCreate, ExpireQueued, StartRecover, StartDispatch,
       ResumeDispatching, StartFinish, StartRerun, ExpireRerun, Begin
  <2>3. ASSUME NEW e \in Deliveries, PrepareRerequest(e) PROVE FALSE
    BY <2>0, <2>3
    DEF PrepareRerequest, ReadSource, VerifyRerun, ClaimRetry, QueueRerun,
        RejectRerun, Begin
  <2>4. ASSUME NEW e \in Deliveries, CreateCheck(e) PROVE FALSE
    BY <2>0, <2>4
    DEF CreateCheck, SendCreate, CreateAnswered, RecoverCompleted,
        RecoverLegacy, RecoverCreated, CheckCreated
  <2>5. ASSUME NEW e \in Deliveries, DispatchControl(e) PROVE FALSE
    BY <2>0, <2>5
    DEF DispatchControl, CreatedInTime, CreatedTooLate, SendDispatch,
        DispatchAnswered, Begin
  <2>6. ASSUME NEW e \in Deliveries, Finish(e) PROVE DeadlinePassed(d)
    BY <2>0, <2>6
    DEF Finish, FindCompleted, SendNotChecked, NotCheckedAnswered, IndInv,
        DeadlineFirst, DeadlinePassed, TypeOK
  <2>7. ASSUME NEW e \in Deliveries, Fail(e) PROVE FALSE
    BY <2>0, <2>7 DEF Fail, RetryLater, WatchUntilDeadline, GiveUp
  <2>8. ASSUME NEW e \in Deliveries, Crash(e) PROVE FALSE
    BY <2>0, <2>8 DEF Crash
  <2>9. ASSUME NEW e \in Deliveries, GitHub(e) PROVE FALSE
    BY <2>9
    DEF GitHub, GitHubStarts, WorkflowDies, LoseRequest, GitHubCreates,
        GitHubCompletes, Publish, IndInv, TypeOK
  <2>10. CASE Tick
    BY <2>0, <2>10 DEF Tick
  <2>11. CASE UNCHANGED vars
    BY <2>0, <2>11 DEF vars
  <2>12. ASSUME NEW e \in Deliveries, LogOperator(e) PROVE FALSE
    BY <2>0, <2>12 DEF LogOperator
  <2> QED
    BY <2>1, <2>2, <2>3, <2>4, <2>5, <2>6, <2>7, <2>8, <2>9, <2>10, <2>11,
       <2>12 DEF Next, Alarm
<1> QED
  BY <1>1, Invariance, PTL DEF Spec, NotCheckedOnlyLate

\* No two check runs carry the external_id of one delivery.
THEOREM ChecksOnce == Spec => []OneCheckPerDelivery
<1>1. IndInv => OneCheckPerDelivery
  BY DEF IndInv
<1> QED
  BY <1>1, Invariance, PTL

\* Nothing is asked for twice, and nothing asked for once is there twice.
THEOREM AllRequestsOnce == Spec => []RequestedOnce
<1>1. IndInv => RequestedOnce
  BY DEF IndInv, RequestedOnce
<1> QED
  BY <1>1, Invariance, PTL

\* No control workflow runs for a check that its ledger lost sight of.
THEOREM Watched == Spec => []WatchedWhileRunning
<1>1. IndInv => WatchedWhileRunning
  BY DEF IndInv
<1> QED
  BY <1>1, Invariance, PTL

-----------------------------------------------------------------------------
\* The ledgers implement the safety part of DeliveryPromise: under the
\* refinement mapping of DeliveryLedger each step is a step of the promise or
\* changes nothing in it.


\* The records an older release left are open, and charged with what it may
\* have asked.
LEMMA PromiseInit == Init => Promise!Init
<1> SUFFICES ASSUME Init PROVE Promise!Init
  OBVIOUS
<1> USE DeliveryAssumption
<1>1. ASSUME NEW d \in Deliveries
      PROVE  storage[d].status \in {"none", "pending", "failed"} /\ (d \in
             Legacy => storage[d].status # "none")
  BY DEF Init, Blank
<1>2. ASSUME NEW d \in Deliveries
      PROVE  /\ Phase(d) = IF d \in Legacy THEN "open" ELSE "new"
             /\ AskedFor(d) = IF d \in Legacy THEN {"check", "run"} ELSE {}
  BY <1>1 DEF Init, Phase, AskedFor
<1> QED
  BY <1>2 DEF Init, Promise!Init

\* A step that changes neither requests nor the phase of anyone is a stutter.
LEMMA KeepsPhases ==
  ASSUME UNCHANGED <<creates, dispatches, retryOf>>,
         \A d \in Deliveries : Phase(d)' = Phase(d)
  PROVE  UNCHANGED Promise!promise
<1>1. \A d \in Deliveries : AskedFor(d)' = AskedFor(d)
  BY DEF AskedFor
<1> QED
  BY <1>1 DEF Promise!promise

\* So is one that leaves the records and the history alone.
LEMMA Quiet ==
  ASSUME UNCHANGED <<storage, accepted, creates, dispatches, retryOf>>
  PROVE  UNCHANGED Promise!promise
  BY DEF Promise!promise, Phase, AskedFor

\* A ledger's record was put, and nothing was asked of GitHub: the phase of
\* its delivery moves as the status says.
LEMMA PutMoves ==
  ASSUME TypeOK, NEW d \in Deliveries, NEW s, Put(d, s), d \in accepted,
         accepted' = accepted, UNCHANGED <<creates, dispatches, retryOf>>,
         storage[d].status \notin {"none", "retained"}
  PROVE  /\ s.status = "retained" => Promise!Settle(d)
         /\ s.status \notin {"none", "retained"} => UNCHANGED Promise!promise
<1>1. \A e \in Deliveries : e # d => storage'[e] = storage[e]
  BY DEF Put, TypeOK
<1>2. storage'[d] = s
  BY DEF Put, TypeOK
<1>3. \A e \in Deliveries : e # d => Phase(e)' = Phase(e)
  BY <1>1 DEF Phase
<1>4. \A e \in Deliveries : AskedFor(e)' = AskedFor(e)
  BY DEF AskedFor
<1>5. Phase(d) = "open"
  BY DEF Phase
<1>6. CASE s.status = "retained"
  <2>1. Phase(d)' = "settled"
    BY <1>2, <1>6 DEF Phase
  <2> QED
    BY <1>3, <1>4, <1>5, <1>6, <2>1 DEF Promise!Settle, Promise!Move
<1>7. CASE s.status \notin {"none", "retained"}
  <2>1. Phase(d)' = "open"
    BY <1>2, <1>7 DEF Phase
  <2> QED
    BY <1>3, <1>4, <1>5, <1>7, <2>1 DEF Promise!promise
<1> QED
  BY <1>6, <1>7

\* Each step of the ledgers, of GitHub and of the clock is a step of the
\* promise or changes nothing in it.
LEMMA PromiseStep == IndInv /\ [Next]_vars => [Promise!Next]_Promise!promise
<1> SUFFICES ASSUME IndInv, [Next]_vars
             PROVE  [Promise!Next]_Promise!promise
  OBVIOUS
<1> USE DeliveryAssumption, TimeAssumption
<1> USE DEF IndInv, history
<1>0. ASSUME NEW d \in Deliveries, storage[d].status # "none"
      PROVE  d \in accepted
  BY <1>0 DEF ForgottenForGood
<1>1. ASSUME NEW d \in Deliveries, Receive(d)
      PROVE  [Promise!Next]_Promise!promise
  <2>1. PICK s : Put(d, s) /\ accepted' = accepted \cup {d} /\ s.status \in
        {"queued", "creating", "retry_queued"}
                  /\ UNCHANGED <<creates, dispatches, retryOf>>
    BY <1>1 DEF Receive, ReceiveEvent, ReceiveLegacy, ReceiveRerun, Queued
  <2>2. /\ storage'[d] = s
        /\ \A e \in Deliveries : e # d => storage'[e] = storage[e]
    BY <2>1 DEF Put, TypeOK
  <2>3. \A e \in Deliveries : AskedFor(e)' = AskedFor(e)
    BY <2>1 DEF AskedFor
  <2>4. \A e \in Deliveries : e # d => Phase(e)' = Phase(e)
    BY <2>1, <2>2 DEF Phase
  <2>5. Phase(d)' = "open"
    BY <2>1, <2>2 DEF Phase
  <2>6. CASE storage[d].status = "none"
    <3>1. window[d] > 0
      BY <1>1 DEF Receive, ReceiveEvent, ReceiveLegacy, ReceiveRerun
    <3>2. d \notin accepted
      BY <2>6, <3>1 DEF ForgottenForGood
    <3>3. Phase(d) = "new"
      BY <2>6, <3>2 DEF Phase
    <3>4. Promise!Accept(d)
      BY <2>1, <2>3, <2>4, <2>5, <3>3 DEF Promise!Accept, Promise!Move
    <3> QED
      BY <3>4 DEF Promise!Next
  <2>7. CASE storage[d].status # "none"
    <3>1. Phase(d) = "open"
      BY <1>0, <1>1, <2>7
      DEF Receive, ReceiveEvent, ReceiveLegacy, ReceiveRerun, Fresh,
          Reconcilable, Phase
    <3> QED
      BY <2>1, <2>3, <2>4, <2>5, <3>1 DEF Promise!promise
  <2> QED
    BY <2>6, <2>7
<1>2. ASSUME NEW d \in Deliveries, Wakes(d) PROVE [Promise!Next]_Promise!promise
  <2>1. CASE Forget(d)
    <3>1. Phase(d) = "settled" /\ Phase(d)' = "gone"
      BY <1>0, <2>1 DEF Forget, Finds, Put, Blank, Phase, TypeOK
    <3>2. \A e \in Deliveries : e # d => Phase(e)' = Phase(e)
      BY <2>1 DEF Forget, Put, Phase, TypeOK
    <3>3. \A e \in Deliveries : AskedFor(e)' = AskedFor(e)
      BY <2>1 DEF Forget, AskedFor
    <3>4. Promise!Forget(d)
      BY <2>1, <3>1, <3>2, <3>3 DEF Forget, Promise!Forget, Promise!Move
    <3> QED
      BY <3>4 DEF Promise!Next
  <2>2. CASE StartCreate(d) \/ StartRecover(d) \/ StartDispatch(d) \/
        StartFinish(d) \/ StartRerun(d)
    BY <2>2, Quiet
    DEF StartCreate, StartRecover, StartDispatch, StartFinish, StartRerun, Begin
  <2>3. CASE ExpireQueued(d)
    BY <1>0, <2>3, PutMoves
    DEF ExpireQueued, Finds, Retain, Retained, With, Promise!Next
  <2>4. CASE ExpireRerun(d)
    BY <1>0, <2>4, PutMoves
    DEF ExpireRerun, Finds, Retain, Retained, With, Promise!Next
  <2>5. CASE ResumeDispatching(d)
    BY <1>0, <2>5, PutMoves DEF ResumeDispatching, Finds, Saved, With
  <2> QED
    BY <1>2, <2>1, <2>2, <2>3, <2>4, <2>5 DEF Wakes
<1>3. ASSUME NEW d \in Deliveries, PrepareRerequest(d)
      PROVE  [Promise!Next]_Promise!promise
  <2>1. CASE ReadSource(d) \/ VerifyRerun(d)
    BY <2>1, Quiet DEF ReadSource, VerifyRerun, Begin
  <2>2. CASE ClaimRetry(d)
    <3>1. \A e \in Deliveries : Phase(e)' = Phase(e)
      BY <2>2, ClaimKeeps DEF ClaimRetry, Phase
    <3> QED
      BY <2>2, <3>1, KeepsPhases DEF ClaimRetry
  <2>3. CASE QueueRerun(d)
    <3> DEFINE c == storage[d].request
    <3>1. /\ storage[d].status = "retry_queued"
          /\ d \in Reruns /\ retryOf[d] = NoCheck
          /\ c \in CheckIds
      BY <2>3
      DEF QueueRerun, AwaitMatchesStage, QueuedWasAdmitted, ClaimBacksRetry
    <3>2. \A q \in Reruns : retryOf[q] # c
      BY <2>3, <3>1 DEF QueueRerun, OneAdmission, Admitted
    <3>3. Phase(d) = "open" /\ Phase(d)' = "open"
      BY <1>0, <2>3, <3>1 DEF QueueRerun, Put, Entered, With, Phase, TypeOK
    <3>4. \A e \in Deliveries : Phase(e)' = Phase(e)
      BY <2>3, <3>3 DEF QueueRerun, Put, Phase, TypeOK
    <3>5. \A e \in Deliveries : AskedFor(e)' = AskedFor(e)
      BY <2>3 DEF QueueRerun, AskedFor
    <3>6. AskedFor(d) = {}
      BY <3>1 DEF AskedFor, RequestsMatchStage
    <3>7. Promise!Admit(d, c)
      BY <2>3, <3>1, <3>2, <3>3, <3>4, <3>5, <3>6 DEF QueueRerun, Promise!Admit
    <3> QED
      BY <3>1, <3>7 DEF Promise!Next
  <2>4. CASE RejectRerun(d)
    <3>1. storage[d].status = "retry_queued"
      BY <2>4 DEF RejectRerun, AwaitMatchesStage
    <3> QED
      BY <1>0, <2>4, <3>1, PutMoves
      DEF RejectRerun, Retain, Retained, With, Promise!Next
  <2> QED
    BY <1>3, <2>1, <2>2, <2>3, <2>4 DEF PrepareRerequest
<1>4. ASSUME NEW d \in Deliveries, CreateCheck(d)
      PROVE  [Promise!Next]_Promise!promise
  <2>1. CASE SendCreate(d)
    <3>1. storage[d].status = "queued" /\ d \in accepted
      BY <1>0, <2>1 DEF SendCreate, AwaitMatchesStage
    <3>2. \A e \in Deliveries : Phase(e)' = Phase(e)
      BY <2>1, <3>1 DEF SendCreate, Put, Entered, With, Phase, TypeOK
    <3>3. \A e \in Deliveries : e # d => AskedFor(e)' = AskedFor(e)
      BY <2>1 DEF SendCreate, AskedFor, TypeOK
    <3>4. AskedFor(d) = {} /\ AskedFor(d)' = {"check"}
      BY <2>1, <3>1 DEF SendCreate, AskedFor, RequestsMatchStage, TypeOK
    <3>5. Phase(d) = "open" /\ (d \in Reruns => retryOf[d] # NoCheck)
      BY <3>1 DEF Phase, QueuedWasAdmitted
    <3>6. Promise!AskCheck(d)
      BY <2>1, <3>2, <3>3, <3>4, <3>5
      DEF SendCreate, Promise!AskCheck, Promise!Ask
    <3> QED
      BY <3>6 DEF Promise!Next
  <2>2. CASE CreateAnswered(d)
    <3>1. storage[d].status = "creating"
      BY <2>2 DEF CreateAnswered, AwaitMatchesStage
    <3> QED
      BY <1>0, <2>2, <3>1, PutMoves
      DEF CreateAnswered, CheckCreated, Linked, With
  <2>3. ASSUME NEW c \in CheckIds, RecoverCompleted(d, c) \/ RecoverLegacy(d, c)
        \/ RecoverCreated(d, c)
        PROVE  [Promise!Next]_Promise!promise
    <3>1. storage[d].status = "creating"
      BY <2>3
      DEF RecoverCompleted, RecoverLegacy, RecoverCreated, Recovers,
          AwaitMatchesStage
    <3>2. CASE RecoverCompleted(d, c)
      BY <1>0, <3>1, <3>2, PutMoves
      DEF RecoverCompleted, Retain, Retained, With, Promise!Next
    <3>3. CASE RecoverLegacy(d, c)
      BY <1>0, <3>1, <3>3, PutMoves DEF RecoverLegacy, Linked, With
    <3>4. CASE RecoverCreated(d, c)
      BY <1>0, <3>1, <3>4, PutMoves
      DEF RecoverCreated, CheckCreated, Linked, With
    <3> QED
      BY <2>3, <3>2, <3>3, <3>4
  <2> QED
    BY <1>4, <2>1, <2>2, <2>3 DEF CreateCheck
<1>5. ASSUME NEW d \in Deliveries, DispatchControl(d)
      PROVE  [Promise!Next]_Promise!promise
  <2>1. CASE CreatedInTime(d)
    BY <2>1, Quiet DEF CreatedInTime, Begin
  <2>2. CASE CreatedTooLate(d)
    <3>1. storage[d].status = "check_created"
      BY <2>2 DEF CreatedTooLate, AwaitMatchesStage
    <3> QED
      BY <1>0, <2>2, <3>1, PutMoves DEF CreatedTooLate, Saved, With
  <2>3. CASE SendDispatch(d)
    <3>1. storage[d].status = "check_created" /\ d \in accepted
      BY <1>0, <2>3 DEF SendDispatch, AwaitMatchesStage
    <3>2. \A e \in Deliveries : Phase(e)' = Phase(e)
      BY <2>3, <3>1 DEF SendDispatch, Put, Entered, With, Phase, TypeOK
    <3>3. \A e \in Deliveries : e # d => AskedFor(e)' = AskedFor(e)
      BY <2>3 DEF SendDispatch, AskedFor, TypeOK
    <3>4. creates[d] = 1 /\ dispatches[d] = 0
      BY <3>1 DEF RequestsMatchStage
    <3>5. AskedFor(d) = {"check"} /\ AskedFor(d)' = {"check", "run"}
      BY <2>3, <3>4 DEF SendDispatch, AskedFor, TypeOK
    <3>6. Phase(d) = "open" /\ (d \in Reruns => retryOf[d] # NoCheck)
      BY <3>1, <3>4 DEF Phase, QueuedWasAdmitted
    <3>7. Promise!AskRun(d)
      BY <2>3, <3>2, <3>3, <3>5, <3>6
      DEF SendDispatch, Promise!AskRun, Promise!Ask
    <3> QED
      BY <3>7 DEF Promise!Next
  <2>4. CASE DispatchAnswered(d)
    <3>1. storage[d].status = "dispatching"
      BY <2>4 DEF DispatchAnswered, AwaitMatchesStage
    <3> QED
      BY <1>0, <2>4, <3>1, PutMoves DEF DispatchAnswered, Saved, With
  <2> QED
    BY <1>5, <2>1, <2>2, <2>3, <2>4 DEF DispatchControl
<1>6. ASSUME NEW d \in Deliveries, Finish(d)
      PROVE  [Promise!Next]_Promise!promise
  <2>1. storage[d].status \in {"dispatched", "check_created"}
    BY <1>6
    DEF Finish, FindCompleted, SendNotChecked, NotCheckedAnswered,
        AwaitMatchesStage
  <2>2. CASE FindCompleted(d)
    BY <1>0, <2>1, <2>2, PutMoves
    DEF FindCompleted, Retain, Retained, With, Promise!Next
  <2>3. CASE SendNotChecked(d)
    BY <2>3, Quiet DEF SendNotChecked
  <2>4. CASE NotCheckedAnswered(d)
    BY <1>0, <2>1, <2>4, PutMoves
    DEF NotCheckedAnswered, Retain, Retained, With, Promise!Next
  <2> QED
    BY <1>6, <2>2, <2>3, <2>4 DEF Finish
<1>7. ASSUME NEW d \in Deliveries, Fail(d) PROVE [Promise!Next]_Promise!promise
  <2>1. storage[d].status \notin {"none", "retained"}
    BY <1>7
    DEF Fail, RetryLater, WatchUntilDeadline, GiveUp, Throws, AwaitMatchesStage,
        Awaits, TypeOK
  <2>2. CASE RetryLater(d)
    BY <1>0, <2>1, <2>2, PutMoves DEF RetryLater, Failed, With
  <2>3. CASE WatchUntilDeadline(d)
    BY <1>0, <2>1, <2>3, PutMoves DEF WatchUntilDeadline, Entered, With
  <2>4. CASE GiveUp(d)
    BY <1>0, <2>1, <2>4, PutMoves
    DEF GiveUp, Retain, Retained, With, Promise!Next
  <2> QED
    BY <1>7, <2>2, <2>3, <2>4 DEF Fail
<1>8. ASSUME NEW d \in Deliveries, Crash(d) PROVE [Promise!Next]_Promise!promise
  BY <1>8, Quiet DEF Crash
<1>9. ASSUME NEW d \in Deliveries, GitHub(d)
      PROVE  [Promise!Next]_Promise!promise
  BY <1>9, Quiet
  DEF GitHub, GitHubStarts, WorkflowDies, LoseRequest, GitHubCreates,
      GitHubCompletes, Publish, Settings
<1>10. CASE Tick
  <2>1. \A d \in Deliveries : Phase(d)' = Phase(d)
    BY <1>10, TickKeeps DEF Tick, Phase
  <2> QED
    BY <1>10, <2>1, KeepsPhases DEF Tick
<1>11. CASE UNCHANGED vars
  BY <1>11, Quiet DEF vars
<1>12. ASSUME NEW d \in Deliveries, LogOperator(d) PROVE [Promise!Next]_Promise!promise
  BY <1>12, Quiet DEF LogOperator
<1> QED
  BY <1>1, <1>2, <1>3, <1>4, <1>5, <1>6, <1>7, <1>8, <1>9, <1>10, <1>11,
     <1>12 DEF Next, Alarm

\* The ledgers implement the promise.
THEOREM Refinement == Spec => Promise!Spec
<1> QED
  BY PromiseInit, PromiseStep, Invariance, PTL DEF Spec, Promise!Spec
=============================================================================
