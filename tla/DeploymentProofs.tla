--------------------------- MODULE DeploymentProofs ---------------------------
(***************************************************************************)
(* A recorded deployment decision is replayed, and GitHub is not called    *)
(* again, for every number of deliveries and authorizations, whatever the  *)
(* retention times are and wherever the object is evicted, as long as no   *)
(* eviction cut off the retention of that decision or an expiry.  The      *)
(* merge queue, of which the deployment ledger knows nothing, has its      *)
(* theorems at the end.                                                    *)
(***************************************************************************)
EXTENDS DeploymentInv, MergeQueue, TLAPS

\* Every operation keeps the types.
LEMMA TypeStep ==
  TypeOK /\ GateMatchesPhase
    /\ [Next]_vars => TypeOK'
<1> SUFFICES ASSUME TypeOK, GateMatchesPhase, [Next]_vars
             PROVE  TypeOK'
  OBVIOUS
<1> USE DeploymentAssumption
<1> USE DEF clocks, storage, memory, history, Gates, NoAlarm, NoRetention, Idle, TypeOK, GateMatchesPhase
<1>1. ASSUME NEW a \in Authorizations, Register(a) PROVE TypeOK'
  BY <1>1 DEF Register, Current
<1>2. CASE RegisterRetention
  BY <1>2 DEF RegisterRetention, Larger
<1>3. CASE RegisterAlarm
  BY <1>3 DEF RegisterAlarm
<1>4. ASSUME NEW d \in Deliveries, Decide(d) PROVE TypeOK'
  BY <1>4 DEF Decide, Sendable, Current, Idle
<1>5. ASSUME NEW d \in Deliveries, Callback(d) PROVE TypeOK'
  BY <1>5 DEF Callback
<1>6. ASSUME NEW d \in Deliveries, Record(d) PROVE TypeOK'
  BY <1>6 DEF Record
<1>7. ASSUME NEW d \in Deliveries, FailDecide(d) PROVE TypeOK'
  BY <1>7 DEF FailDecide, Idle
<1>8. ASSUME NEW d \in Deliveries, RetainDecision(d) PROVE TypeOK'
  BY <1>8 DEF RetainDecision, Retained, Larger, Idle, NoRetention
<1>9. ASSUME NEW d \in Deliveries, DecisionAlarm(d) PROVE TypeOK'
  BY <1>9 DEF DecisionAlarm, Retained, Idle
<1>10. CASE ExpireAuthorization
  BY <1>10 DEF ExpireAuthorization, AlarmDue
<1>11. CASE ExpirePhase
  BY <1>11 DEF ExpirePhase
<1>12. CASE ExpireAlarm
  BY <1>12 DEF ExpireAlarm
<1>13. CASE DeleteAll
  BY <1>13 DEF DeleteAll, AlarmDue, NoRetention, NoAlarm
<1>14. CASE Crash
  BY <1>14 DEF Crash, Idle
<1>15. CASE Tick
  BY <1>15 DEF Tick, AlarmDue
<1>16. CASE UNCHANGED vars
  BY <1>16 DEF vars
<1> QED
  BY <1>1, <1>2, <1>3, <1>4, <1>5, <1>6, <1>7, <1>8, <1>9,
     <1>10, <1>11, <1>12, <1>13, <1>14, <1>15, <1>16
  DEF Next, Write, Alarm, Answer

\* Only one decision at a time is between its writes.
LEMMA DatedStep ==
  TypeOK /\ DecisionDated
    /\ [Next]_vars => DecisionDated'
<1> SUFFICES ASSUME TypeOK, DecisionDated, [Next]_vars
             PROVE  DecisionDated'
  OBVIOUS
<1> USE DeploymentAssumption
<1> USE DEF clocks, storage, memory, history, Idle, TypeOK, DecisionDated
<1>1. ASSUME NEW a \in Authorizations, Register(a) PROVE DecisionDated'
  BY <1>1 DEF Register, Current
<1>2. CASE RegisterRetention
  BY <1>2 DEF RegisterRetention, Larger
<1>3. CASE RegisterAlarm
  BY <1>3 DEF RegisterAlarm
<1>4. ASSUME NEW d \in Deliveries, Decide(d) PROVE DecisionDated'
  BY <1>4 DEF Decide, Sendable, Current, Idle
<1>5. ASSUME NEW d \in Deliveries, Callback(d) PROVE DecisionDated'
  BY <1>5 DEF Callback
<1>6. ASSUME NEW d \in Deliveries, Record(d) PROVE DecisionDated'
  BY <1>6 DEF Record
<1>7. ASSUME NEW d \in Deliveries, FailDecide(d) PROVE DecisionDated'
  BY <1>7 DEF FailDecide, Idle
<1>8. ASSUME NEW d \in Deliveries, RetainDecision(d) PROVE DecisionDated'
  BY <1>8 DEF RetainDecision, Retained, Larger, Idle, NoRetention
<1>9. ASSUME NEW d \in Deliveries, DecisionAlarm(d) PROVE DecisionDated'
  BY <1>9 DEF DecisionAlarm, Retained, Idle
<1>10. CASE ExpireAuthorization
  BY <1>10 DEF ExpireAuthorization, AlarmDue
<1>11. CASE ExpirePhase
  BY <1>11 DEF ExpirePhase
<1>12. CASE ExpireAlarm
  BY <1>12 DEF ExpireAlarm
<1>13. CASE DeleteAll
  BY <1>13 DEF DeleteAll, AlarmDue, NoRetention, NoAlarm
<1>14. CASE Crash
  BY <1>14 DEF Crash, Idle
<1>15. CASE Tick
  BY <1>15 DEF Tick, AlarmDue
<1>16. CASE UNCHANGED vars
  BY <1>16 DEF vars
<1> QED
  BY <1>1, <1>2, <1>3, <1>4, <1>5, <1>6, <1>7, <1>8, <1>9,
     <1>10, <1>11, <1>12, <1>13, <1>14, <1>15, <1>16
  DEF Next, Write, Alarm, Answer

\* An operation that holds the gate finds what it wrote before.
LEMMA GateStep ==
  TypeOK /\ GateMatchesPhase
    /\ [Next]_vars => GateMatchesPhase'
<1> SUFFICES ASSUME TypeOK, GateMatchesPhase, [Next]_vars
             PROVE  GateMatchesPhase'
  OBVIOUS
<1> USE DeploymentAssumption
<1> USE DEF clocks, storage, memory, history, NoRetention, NoAlarm, TypeOK, GateMatchesPhase
<1>1. ASSUME NEW a \in Authorizations, Register(a) PROVE GateMatchesPhase'
  BY <1>1 DEF Register, Current
<1>2. CASE RegisterRetention
  BY <1>2 DEF RegisterRetention, Larger
<1>3. CASE RegisterAlarm
  BY <1>3 DEF RegisterAlarm
<1>4. ASSUME NEW d \in Deliveries, Decide(d) PROVE GateMatchesPhase'
  BY <1>4 DEF Decide, Sendable, Current, Idle
<1>5. ASSUME NEW d \in Deliveries, Callback(d) PROVE GateMatchesPhase'
  BY <1>5 DEF Callback
<1>6. ASSUME NEW d \in Deliveries, Record(d) PROVE GateMatchesPhase'
  BY <1>6 DEF Record
<1>7. ASSUME NEW d \in Deliveries, FailDecide(d) PROVE GateMatchesPhase'
  BY <1>7 DEF FailDecide, Idle
<1>8. ASSUME NEW d \in Deliveries, RetainDecision(d) PROVE GateMatchesPhase'
  BY <1>8 DEF RetainDecision, Retained, Larger, Idle, NoRetention
<1>9. ASSUME NEW d \in Deliveries, DecisionAlarm(d) PROVE GateMatchesPhase'
  BY <1>9 DEF DecisionAlarm, Retained, Idle
<1>10. CASE ExpireAuthorization
  BY <1>10 DEF ExpireAuthorization, AlarmDue
<1>11. CASE ExpirePhase
  BY <1>11 DEF ExpirePhase
<1>12. CASE ExpireAlarm
  BY <1>12 DEF ExpireAlarm
<1>13. CASE DeleteAll
  BY <1>13 DEF DeleteAll, AlarmDue, NoRetention, NoAlarm
<1>14. CASE Crash
  BY <1>14 DEF Crash, Idle
<1>15. CASE Tick
  BY <1>15 DEF Tick, AlarmDue
<1>16. CASE UNCHANGED vars
  BY <1>16 DEF vars
<1> QED
  BY <1>1, <1>2, <1>3, <1>4, <1>5, <1>6, <1>7, <1>8, <1>9,
     <1>10, <1>11, <1>12, <1>13, <1>14, <1>15, <1>16
  DEF Next, Write, Alarm, Answer

\* Everything is deleted only at the stored deletion time, which no operation
\* lowers, or at an earlier alarm that still covers the kept decisions.
LEMMA RetainedStep ==
  TypeOK /\ DecisionDated /\ GateMatchesPhase /\ DecisionRetained
    /\ [Next]_vars => DecisionRetained'
<1> SUFFICES ASSUME TypeOK, DecisionDated, GateMatchesPhase, DecisionRetained, [Next]_vars
             PROVE  DecisionRetained'
  OBVIOUS
<1> USE DeploymentAssumption
<1> USE DEF clocks, storage, memory, history, NoRetention, Idle, TypeOK, DecisionDated, GateMatchesPhase, DecisionRetained
<1>1. ASSUME NEW a \in Authorizations, Register(a) PROVE DecisionRetained'
  BY <1>1 DEF Register, Current
<1>2. CASE RegisterRetention
  BY <1>2 DEF RegisterRetention, Larger
<1>3. CASE RegisterAlarm
  BY <1>3 DEF RegisterAlarm
<1>4. ASSUME NEW d \in Deliveries, Decide(d) PROVE DecisionRetained'
  BY <1>4 DEF Decide, Sendable, Current, Idle
<1>5. ASSUME NEW d \in Deliveries, Callback(d) PROVE DecisionRetained'
  BY <1>5 DEF Callback
<1>6. ASSUME NEW d \in Deliveries, Record(d) PROVE DecisionRetained'
  BY <1>6 DEF Record
<1>7. ASSUME NEW d \in Deliveries, FailDecide(d) PROVE DecisionRetained'
  BY <1>7 DEF FailDecide, Idle
<1>8. ASSUME NEW d \in Deliveries, RetainDecision(d) PROVE DecisionRetained'
  BY <1>8 DEF RetainDecision, Retained, Larger, Idle, NoRetention
<1>9. ASSUME NEW d \in Deliveries, DecisionAlarm(d) PROVE DecisionRetained'
  BY <1>9 DEF DecisionAlarm, Retained, Idle
<1>10. CASE ExpireAuthorization
  BY <1>10 DEF ExpireAuthorization, AlarmDue
<1>11. CASE ExpirePhase
  BY <1>11 DEF ExpirePhase
<1>12. CASE ExpireAlarm
  BY <1>12 DEF ExpireAlarm
<1>13. CASE DeleteAll
  BY <1>13 DEF DeleteAll, AlarmDue, NoRetention, NoAlarm
<1>14. CASE Crash
  BY <1>14 DEF Crash, Idle
<1>15. CASE Tick
  BY <1>15 DEF Tick, AlarmDue
<1>16. CASE UNCHANGED vars
  BY <1>16 DEF vars
<1> QED
  BY <1>1, <1>2, <1>3, <1>4, <1>5, <1>6, <1>7, <1>8, <1>9,
     <1>10, <1>11, <1>12, <1>13, <1>14, <1>15, <1>16
  DEF Next, Write, Alarm, Answer

\* A delivery whose decision is kept is answered from it while it may still be
\* sent again, so that no second decision is begun.
LEMMA UnrecordedStep ==
  TypeOK /\ DecisionDated /\ DecisionRetained /\ NotYetRecorded
    /\ [Next]_vars => NotYetRecorded'
<1> SUFFICES ASSUME TypeOK, DecisionDated, DecisionRetained, NotYetRecorded, [Next]_vars
             PROVE  NotYetRecorded'
  OBVIOUS
<1> USE DeploymentAssumption
<1> USE DEF clocks, storage, memory, history, Idle, TypeOK, DecisionDated, DecisionRetained, NotYetRecorded
<1>1. ASSUME NEW a \in Authorizations, Register(a) PROVE NotYetRecorded'
  BY <1>1 DEF Register, Current
<1>2. CASE RegisterRetention
  BY <1>2 DEF RegisterRetention, Larger
<1>3. CASE RegisterAlarm
  BY <1>3 DEF RegisterAlarm
<1>4. ASSUME NEW d \in Deliveries, Decide(d) PROVE NotYetRecorded'
  BY <1>4 DEF Decide, Sendable, Current, Idle
<1>5. ASSUME NEW d \in Deliveries, Callback(d) PROVE NotYetRecorded'
  BY <1>5 DEF Callback
<1>6. ASSUME NEW d \in Deliveries, Record(d) PROVE NotYetRecorded'
  BY <1>6 DEF Record
<1>7. ASSUME NEW d \in Deliveries, FailDecide(d) PROVE NotYetRecorded'
  BY <1>7 DEF FailDecide, Idle
<1>8. ASSUME NEW d \in Deliveries, RetainDecision(d) PROVE NotYetRecorded'
  BY <1>8 DEF RetainDecision, Retained, Larger, Idle, NoRetention
<1>9. ASSUME NEW d \in Deliveries, DecisionAlarm(d) PROVE NotYetRecorded'
  BY <1>9 DEF DecisionAlarm, Retained, Idle
<1>10. CASE ExpireAuthorization
  BY <1>10 DEF ExpireAuthorization, AlarmDue
<1>11. CASE ExpirePhase
  BY <1>11 DEF ExpirePhase
<1>12. CASE ExpireAlarm
  BY <1>12 DEF ExpireAlarm
<1>13. CASE DeleteAll
  BY <1>13 DEF DeleteAll, AlarmDue, NoRetention, NoAlarm
<1>14. CASE Crash
  BY <1>14 DEF Crash, Idle
<1>15. CASE Tick
  BY <1>15 DEF Tick, AlarmDue
<1>16. CASE UNCHANGED vars
  BY <1>16 DEF vars
<1> QED
  BY <1>1, <1>2, <1>3, <1>4, <1>5, <1>6, <1>7, <1>8, <1>9,
     <1>10, <1>11, <1>12, <1>13, <1>14, <1>15, <1>16
  DEF Next, Write, Alarm, Answer

\* Registration sets the alarm that removes what it stored.
LEMMA CoveredStep ==
  TypeOK /\ DecisionDated /\ GateMatchesPhase /\ AuthorizationCovered
    /\ [Next]_vars => AuthorizationCovered'
<1> SUFFICES ASSUME TypeOK, DecisionDated, GateMatchesPhase, AuthorizationCovered, [Next]_vars
             PROVE  AuthorizationCovered'
  OBVIOUS
<1> USE DeploymentAssumption
<1> USE DEF clocks, storage, memory, history, NoRetention, TypeOK, DecisionDated, GateMatchesPhase, AuthorizationCovered
<1>1. ASSUME NEW a \in Authorizations, Register(a) PROVE AuthorizationCovered'
  BY <1>1 DEF Register, Current
<1>2. CASE RegisterRetention
  BY <1>2 DEF RegisterRetention, Larger
<1>3. CASE RegisterAlarm
  BY <1>3 DEF RegisterAlarm
<1>4. ASSUME NEW d \in Deliveries, Decide(d) PROVE AuthorizationCovered'
  BY <1>4 DEF Decide, Sendable, Current, Idle
<1>5. ASSUME NEW d \in Deliveries, Callback(d) PROVE AuthorizationCovered'
  BY <1>5 DEF Callback
<1>6. ASSUME NEW d \in Deliveries, Record(d) PROVE AuthorizationCovered'
  BY <1>6 DEF Record
<1>7. ASSUME NEW d \in Deliveries, FailDecide(d) PROVE AuthorizationCovered'
  BY <1>7 DEF FailDecide, Idle
<1>8. ASSUME NEW d \in Deliveries, RetainDecision(d) PROVE AuthorizationCovered'
  BY <1>8 DEF RetainDecision, Retained, Larger, Idle, NoRetention
<1>9. ASSUME NEW d \in Deliveries, DecisionAlarm(d) PROVE AuthorizationCovered'
  BY <1>9 DEF DecisionAlarm, Retained, Idle
<1>10. CASE ExpireAuthorization
  BY <1>10 DEF ExpireAuthorization, AlarmDue
<1>11. CASE ExpirePhase
  BY <1>11 DEF ExpirePhase
<1>12. CASE ExpireAlarm
  BY <1>12 DEF ExpireAlarm
<1>13. CASE DeleteAll
  BY <1>13 DEF DeleteAll, AlarmDue, NoRetention, NoAlarm
<1>14. CASE Crash
  <2>1. CASE authorization \in registered'
    <3>1. gate \notin {"register_retention", "register_alarm"} /\ authorization \in registered
      BY <1>14, <2>1 DEF Crash
    <3>2. gate \in {"open", "retain_decision"}
      BY <3>1 DEF Gates
    <3> QED
      BY <1>14, <3>1, <3>2 DEF Crash
  <2>2. CASE authorization \notin registered'
    BY <1>14, <2>2 DEF Crash
  <2> QED
    BY <2>1, <2>2
<1>15. CASE Tick
  BY <1>15 DEF Tick, AlarmDue
<1>16. CASE UNCHANGED vars
  BY <1>16 DEF vars
<1> QED
  BY <1>1, <1>2, <1>3, <1>4, <1>5, <1>6, <1>7, <1>8, <1>9,
     <1>10, <1>11, <1>12, <1>13, <1>14, <1>15, <1>16
  DEF Next, Write, Alarm, Answer

\* A registration must be newer than the stored authorization; after an
\* expiry it is, because the margin is no shorter than any validity.
LEMMA NewestStep ==
  TypeOK /\ DecisionDated /\ GateMatchesPhase /\ AuthorizationCovered /\ SignedValidity /\ NewestStored
    /\ [Next]_vars => NewestStored'
<1> SUFFICES ASSUME TypeOK, DecisionDated, GateMatchesPhase, AuthorizationCovered, SignedValidity, NewestStored, [Next]_vars
             PROVE  NewestStored'
  OBVIOUS
<1> USE DeploymentAssumption
<1> USE DEF clocks, storage, memory, history, NoRetention, TooOld, TypeOK, DecisionDated, GateMatchesPhase, AuthorizationCovered, SignedValidity, NewestStored
<1>1. ASSUME NEW a \in Authorizations, Register(a) PROVE NewestStored'
  BY <1>1 DEF Register, Current
<1>2. CASE RegisterRetention
  BY <1>2 DEF RegisterRetention, Larger
<1>3. CASE RegisterAlarm
  BY <1>3 DEF RegisterAlarm
<1>4. ASSUME NEW d \in Deliveries, Decide(d) PROVE NewestStored'
  BY <1>4 DEF Decide, Sendable, Current, Idle
<1>5. ASSUME NEW d \in Deliveries, Callback(d) PROVE NewestStored'
  BY <1>5 DEF Callback
<1>6. ASSUME NEW d \in Deliveries, Record(d) PROVE NewestStored'
  BY <1>6 DEF Record
<1>7. ASSUME NEW d \in Deliveries, FailDecide(d) PROVE NewestStored'
  BY <1>7 DEF FailDecide, Idle
<1>8. ASSUME NEW d \in Deliveries, RetainDecision(d) PROVE NewestStored'
  BY <1>8 DEF RetainDecision, Retained, Larger, Idle, NoRetention
<1>9. ASSUME NEW d \in Deliveries, DecisionAlarm(d) PROVE NewestStored'
  BY <1>9 DEF DecisionAlarm, Retained, Idle
<1>10. CASE ExpireAuthorization
  BY <1>10 DEF ExpireAuthorization, AlarmDue
<1>11. CASE ExpirePhase
  BY <1>11 DEF ExpirePhase
<1>12. CASE ExpireAlarm
  BY <1>12 DEF ExpireAlarm
<1>13. CASE DeleteAll
  BY <1>13 DEF DeleteAll, AlarmDue, NoRetention, NoAlarm
<1>14. CASE Crash
  BY <1>14 DEF Crash, Idle
<1>15. CASE Tick
  BY <1>15 DEF Tick, AlarmDue
<1>16. CASE UNCHANGED vars
  BY <1>16 DEF vars
<1> QED
  BY <1>1, <1>2, <1>3, <1>4, <1>5, <1>6, <1>7, <1>8, <1>9,
     <1>10, <1>11, <1>12, <1>13, <1>14, <1>15, <1>16
  DEF Next, Write, Alarm, Answer

\* What was signed does not change.
LEMMA ClocksStep == SignedValidity /\ [Next]_vars => SignedValidity'
<1> SUFFICES ASSUME SignedValidity, [Next]_vars PROVE SignedValidity'
  OBVIOUS
<1>1. UNCHANGED clocks
  BY DEF Next, Register, Decide, Answer, Callback, Record, FailDecide, Write,
         RegisterRetention, RegisterAlarm, RetainDecision, DecisionAlarm,
         ExpirePhase, ExpireAlarm, Alarm, ExpireAuthorization, DeleteAll,
         Crash, Tick, vars
<1> QED
  BY <1>1 DEF SignedValidity, clocks

LEMMA InitInv == Init => DeploymentIndInv
  BY DeploymentAssumption
  DEF Init, DeploymentIndInv, TypeOK, DecisionDated,
      GateMatchesPhase, DecisionRetained, NotYetRecorded, AuthorizationCovered,
      SignedValidity, NewestStored, Gates, NoAlarm, NoRetention, Idle

LEMMA InvStep == DeploymentIndInv /\ [Next]_vars => DeploymentIndInv'
  BY TypeStep, DatedStep, GateStep, RetainedStep, UnrecordedStep, CoveredStep,
     NewestStep, ClocksStep
  DEF DeploymentIndInv

\* What protects kept decisions and registered authorizations always holds.
THEOREM DecisionsRetained == Spec => []DeploymentIndInv
BY InitInv, InvStep, PTL DEF Spec

\* The replay of a delivery whose decision is kept finds it.
THEOREM RepliesKnown == Spec => []ReplayKnown
<1>1. DeploymentIndInv => ReplayKnown
  BY DEF DeploymentIndInv, DecisionRetained, ReplayKnown
<1> QED
  BY <1>1, DecisionsRetained, PTL

\* GitHub is called once for each delivery whose decision is kept.
THEOREM CallsOnce == Spec => KeptCalledOnce
<1>1. ASSUME DeploymentIndInv, [Next]_vars
      PROVE  \A d \in Deliveries : Calls(d) => d \notin kept
  <2> SUFFICES ASSUME NEW d \in Deliveries, Calls(d), d \in kept PROVE FALSE
    OBVIOUS
  <2>1. inFlight[d].stage \in {"idle", "recorded"}
    BY <1>1 DEF DeploymentIndInv, NotYetRecorded
  <2>2. inFlight[d].stage = "token"
    BY <1>1 DEF Calls, DeploymentIndInv, TypeOK, Idle, Retained, memory,
                Next, Register, Decide, Answer, Callback, Record, FailDecide, Write,
         RegisterRetention, RegisterAlarm, RetainDecision, DecisionAlarm,
         ExpirePhase, ExpireAlarm, Alarm, ExpireAuthorization, DeleteAll,
         Crash, Tick, vars
  <2> QED
    BY <2>1, <2>2
<1> QED
  BY <1>1, DecisionsRetained, PTL DEF Spec, KeptCalledOnce

\* A registered authorization is removed only a whole audit margin after it
\* expired.
THEOREM RemovedLate == Spec => RemovedAfterMargin
<1>1. ASSUME DeploymentIndInv, [Next]_vars, authorization \in registered,
             authorization' = NoAuthorization
      PROVE  now >= validUntil[authorization] + AuthorizationRetention
  <2> USE <1>1, DeploymentAssumption DEF DeploymentIndInv
  <2>0. authorization # NoAuthorization
    BY DEF TypeOK
  <2>1. ASSUME NEW a \in Authorizations, Register(a) PROVE FALSE
    BY <2>1 DEF Register
  <2>2. ASSUME NEW d \in Deliveries, Decide(d) \/ Answer(d) PROVE FALSE
    BY <2>0, <2>2 DEF Decide, Answer, Callback, Record, FailDecide, storage
  <2>3. CASE Write
    BY <2>0, <2>3 DEF Write, RegisterRetention, RegisterAlarm, RetainDecision,
                DecisionAlarm, ExpirePhase, ExpireAlarm
  <2>4. CASE ExpireAuthorization
    BY <2>4 DEF ExpireAuthorization, AlarmDue, AuthorizationCovered, TypeOK
  <2>5. CASE DeleteAll
    BY <2>5 DEF DeleteAll, AlarmDue, AuthorizationCovered
  <2>6. CASE Crash \/ Tick \/ UNCHANGED vars
    BY <2>0, <2>6 DEF Crash, Tick, vars, storage
  <2> QED
    BY <2>1, <2>2, <2>3, <2>4, <2>5, <2>6 DEF Next, Alarm
<1> QED
  BY <1>1, DecisionsRetained, PTL DEF Spec, RemovedAfterMargin

\* No authorization takes the place of a newer one that was registered, stored
\* or removed.
THEOREM NeverOlder == Spec => NoRollback
<1>1. ASSUME DeploymentIndInv, [Next]_vars,
             authorization' \notin {authorization, NoAuthorization}
      PROVE  \A b \in registered :
               b = authorization' \/ issuedAt[b] < issuedAt[authorization']
  <2> USE <1>1, DeploymentAssumption DEF DeploymentIndInv
  <2>1. ASSUME NEW a \in Authorizations, Register(a)
        PROVE  \A b \in registered : b = a \/ issuedAt[b] < issuedAt[a]
    BY <2>1 DEF Register, Current, NewestStored, TooOld, SignedValidity, TypeOK
  <2>2. \E a \in Authorizations : Register(a)
    BY DEF TypeOK, storage, Next, Register, Decide, Answer, Callback, Record, FailDecide, Write,
         RegisterRetention, RegisterAlarm, RetainDecision, DecisionAlarm,
         ExpirePhase, ExpireAlarm, Alarm, ExpireAuthorization, DeleteAll,
         Crash, Tick, vars
  <2> QED
    BY <2>1, <2>2 DEF Register
<1> QED
  BY <1>1, DecisionsRetained, PTL DEF Spec, NoRollback

\* What replaces or removes an authorization leaves no older one valid.
THEOREM AuthorizationsKept == Spec => AuthorizationKept
BY RemovedLate, NeverOlder DEF AuthorizationKept

-----------------------------------------------------------------------------
(* The merge-queue dispatcher repeats a dispatch only after an error, and    *)
(* GitHub only merges verified heads, for every number of deliveries,       *)
(* sendings and crashes.                                                    *)

\* One step of a handler, of the workflow, of GitHub, or a crash keeps QueueInv.
LEMMA QueueStep == QueueInv /\ [QueueNext]_queueVars => QueueInv'
<1> SUFFICES ASSUME QueueInv, [QueueNext]_queueVars PROVE QueueInv'
  OBVIOUS
<1> USE QueueAssumption DEF QueueInv, QueueTypeOK, PendingIsHeld, Holds, MergedWasVerified, Handler, Run, Attempts
<1> USE DEF ledger, queue, Goto, Store, Becomes
<1>1. ASSUME NEW d \in MergeGroups, NEW n \in Attempts, Fetch(d, n) PROVE QueueInv'
  <2>1. CASE AnswerPrior(d, n)
    BY <2>1 DEF AnswerPrior, Sends
  <2>2. CASE BeginDispatch(d, n)
    BY <2>2 DEF BeginDispatch, Sends, Answered
  <2>3. CASE SendDispatch(d, n)
    BY <2>3 DEF SendDispatch
  <2>4. CASE DispatchAnswered(d, n)
    BY <2>4 DEF DispatchAnswered
  <2>5. CASE DispatchFails(d, n)
    BY <2>5 DEF DispatchFails
  <2> QED
    BY <1>1, <2>1, <2>2, <2>3, <2>4, <2>5 DEF Fetch
<1>2. ASSUME NEW d \in MergeGroups, NEW n \in Attempts, Workflow(d, n) PROVE QueueInv'
  <2>1. CASE StartWorkflow(d, n)
    BY <2>1 DEF StartWorkflow
  <2>2. CASE LoseDispatch(d, n)
    BY <2>2 DEF LoseDispatch
  <2>3. CASE ConfirmQueued(d, n)
    BY <2>3 DEF ConfirmQueued
  <2>4. CASE EvidencePasses(d, n)
    BY <2>4 DEF EvidencePasses
  <2>5. CASE EvidenceFails(d, n)
    BY <2>5 DEF EvidenceFails
  <2>6. CASE WorkflowDies(d, n)
    BY <2>6 DEF WorkflowDies
  <2>7. CASE ReadQueue(d, n)
    BY <2>7 DEF ReadQueue
  <2>8. CASE PostCheck(d, n)
    BY <2>8 DEF PostCheck
  <2> QED
    BY <1>2, <2>1, <2>2, <2>3, <2>4, <2>5, <2>6, <2>7, <2>8 DEF Workflow
<1>3. ASSUME NEW d \in MergeGroups, EvictDispatcher(d) PROVE QueueInv'
  BY <1>3 DEF EvictDispatcher
<1>4. ASSUME NEW d \in MergeGroups, LeaveQueue(d) \/ Merge(d) PROVE QueueInv'
  BY <1>4 DEF LeaveQueue, Merge
<1>5. CASE UNCHANGED queueVars
  BY <1>5 DEF queueVars
<1> QED
  BY <1>1, <1>2, <1>3, <1>4, <1>5 DEF QueueNext

\* The ledger, the runs and the checks of a delivery always fit together.
THEOREM QueueInvariance == QueueSpec => []QueueInv
<1>1. QueueInit => QueueInv
  BY QueueAssumption
  DEF QueueInit, QueueInv, QueueTypeOK, PendingIsHeld, Holds, MergedWasVerified, Handler, Run, Attempts
<1> QED
  BY <1>1, QueueStep, PTL DEF QueueSpec

\* A delivery is pending only while an attempt holds it, or lost it in a crash.
THEOREM PendingHeld == QueueSpec => []PendingIsHeld
<1>1. QueueInv => PendingIsHeld
  BY DEF QueueInv
<1> QED
  BY <1>1, QueueInvariance, PTL

\* A dispatch is repeated only after an error.
THEOREM RepeatsOnlyErrors == QueueSpec => []RetryOnlyAfterError
<1>1. QueueInv => RetryOnlyAfterError
  BY DEF QueueInv, RetryOnlyAfterError, Holds, Attempts
<1> QED
  BY <1>1, QueueInvariance, PTL

\* GitHub merges only heads whose evidence passed.
THEOREM MergesVerified == QueueSpec => []MergedWasVerified
<1>1. QueueInv => MergedWasVerified
  BY DEF QueueInv
<1> QED
  BY <1>1, QueueInvariance, PTL
=============================================================================
