--------------------------- MODULE DeploymentLedger ---------------------------
(***************************************************************************)
(* The Durable Object that answers GitHub's deployment protection webhooks *)
(* (hosted/public-app/src/index.mjs, DeploymentAuthorizationLedger) for    *)
(* one repository, commit and environment.                                 *)
(*                                                                         *)
(* An operator registers signed authorizations; each webhook delivery is   *)
(* decided from the stored one, GitHub is told, and the decision is kept   *)
(* for as long as GitHub may send the delivery again.  While an operation  *)
(* reads and writes storage the object's input gate lets no other event    *)
(* in, but the object may crash between two writes: `gate' is the write    *)
(* that comes next.  A call to GitHub opens the gate.                      *)
(*                                                                         *)
(* Times are numbers on one clock, in units that an instance chooses.      *)
(***************************************************************************)
EXTENDS Integers

CONSTANTS
  Deliveries,              \* deliveries of deployment_protection_rule webhooks
  Authorizations,          \* signed deployment authorizations
  NoAuthorization,
  MaxValidity,             \* the longest validity of an authorization
  AuthorizationRetention,  \* AUTHORIZATION_RETENTION_MS
  RedeliveryRetention,     \* WEBHOOK_REDELIVERY_RETENTION_MS
  RedeliveryWindow,        \* how long GitHub lets a delivery be sent again
  LastStart,               \* the last time at which the instance issues or sends
  MaxTime                  \* where the clock of the instance stops

ASSUME DeploymentAssumption ==
  /\ NoAuthorization \notin Authorizations
  /\ MaxValidity \in Nat \ {0} /\ AuthorizationRetention \in Nat
  /\ RedeliveryRetention \in Nat /\ RedeliveryWindow \in Nat
  /\ LastStart \in Nat /\ MaxTime \in Nat
  /\ RedeliveryWindow <= RedeliveryRetention
  /\ MaxValidity <= AuthorizationRetention

VARIABLES
  now,
  issuedAt, validUntil,    \* of each authorization, as it was signed
  sentAt,                  \* when GitHub first sent each delivery
  \* storage
  authorization, retention, decision, alarm,
  \* memory
  gate,                    \* the next write of the operation in the gate
  inFlight,                \* each decision being made
  \* history
  registered,              \* authorizations stored by a registration that no
                           \* eviction cut off
  recorded,                \* the deliveries whose decision was ever stored
  kept                     \* those of them whose retention no eviction cut off

clocks  == <<issuedAt, validUntil, sentAt>>
storage == <<authorization, retention, decision, alarm>>
memory  == <<gate, inFlight>>
history == <<registered, recorded, kept>>
vars == <<now, clocks, storage, memory, history>>

NoAlarm == MaxTime + 1   \* later than any time of the instance

NoRetention == [phase |-> "none", authorizationDeleteAt |-> 0, decisionsDeleteAt |-> 0]

Idle == [stage |-> "idle", state |-> "none", decidedAt |-> 0]

Gates ==
  {"open", "register_retention", "register_alarm", "retain_decision",
   "decision_alarm", "expire_phase", "expire_alarm"}

TypeOK ==
  /\ now \in Nat
  /\ issuedAt \in [Authorizations -> Nat]
  /\ validUntil \in [Authorizations -> Nat]
  /\ sentAt \in [Deliveries -> Nat]
  /\ authorization \in Authorizations \cup {NoAuthorization}
  /\ retention \in [phase : {"none", "authorization", "decisions"},
                    authorizationDeleteAt : Nat, decisionsDeleteAt : Nat]
  /\ decision \in [Deliveries -> {"none", "approved", "rejected"}]
  /\ alarm \in Nat
  /\ gate \in Gates
  /\ inFlight \in [Deliveries -> [stage : {"idle", "token", "callback", "recorded"},
                                  state : {"none", "approved", "rejected"},
                                  decidedAt : Nat]]
  /\ registered \subseteq Authorizations
  /\ kept \subseteq recorded /\ recorded \subseteq Deliveries

Init ==
  /\ now = 0
  /\ issuedAt \in [Authorizations -> 0 .. LastStart]
  /\ validUntil \in {v \in [Authorizations -> 0 .. LastStart + MaxValidity] :
       \A a \in Authorizations : v[a] \in issuedAt[a] + 1 .. issuedAt[a] + MaxValidity}
  /\ sentAt \in [Deliveries -> 0 .. LastStart]
  /\ authorization = NoAuthorization
  /\ retention = NoRetention
  /\ decision = [d \in Deliveries |-> "none"]
  /\ alarm = NoAlarm
  /\ gate = "open"
  /\ inFlight = [d \in Deliveries |-> Idle]
  /\ registered = {}
  /\ recorded = {} /\ kept = {}

Larger(a, b) == IF a >= b THEN a ELSE b

-----------------------------------------------------------------------------
(* register: the router has just verified the signatures and the validity.  *)

Current(a) == issuedAt[a] <= now /\ now <= validUntil[a]

Register(a) ==
  /\ gate = "open" /\ Current(a)
  /\ \/ authorization \in {NoAuthorization, a}
     \/ authorization # NoAuthorization /\ issuedAt[a] > issuedAt[authorization]
  /\ authorization' = a
  /\ registered' = registered \cup {a}
  /\ gate' = "register_retention"
  /\ UNCHANGED <<now, clocks, retention, decision, alarm, inFlight, recorded, kept>>

\* Mutated form of RegisterRetention: no audit margin.
RegisterNoMargin ==
  /\ gate = "register_retention"
  /\ LET until == validUntil[authorization]
     IN  retention' = [phase |-> "authorization", authorizationDeleteAt |-> until,
                       decisionsDeleteAt |-> Larger(until + RedeliveryRetention,
                                                    retention.decisionsDeleteAt)]
  /\ gate' = "register_alarm"
  /\ UNCHANGED <<now, clocks, authorization, decision, alarm, inFlight, history>>

RegisterRetention ==
  /\ gate = "register_retention"
  /\ LET until == validUntil[authorization]
     IN  retention' = [phase |-> "authorization",
                       authorizationDeleteAt |-> until + AuthorizationRetention,
                       decisionsDeleteAt |-> Larger(until + RedeliveryRetention,
                                                    retention.decisionsDeleteAt)]
  /\ gate' = "register_alarm"
  /\ UNCHANGED <<now, clocks, authorization, decision, alarm, inFlight, history>>

RegisterAlarm ==
  /\ gate = "register_alarm"
  /\ alarm' = retention.authorizationDeleteAt
  /\ gate' = "open"
  /\ UNCHANGED <<now, clocks, authorization, retention, decision, inFlight, history>>

-----------------------------------------------------------------------------
(* decide: a delivery with a stored decision is answered from it, and one   *)
(* whose decision is in flight waits for that; neither changes anything.    *)

Sendable(d) == sentAt[d] <= now /\ now < sentAt[d] + RedeliveryWindow

\* decideDeployment(), up to the request for an installation token.
Decide(d) ==
  /\ gate = "open" /\ Sendable(d)
  /\ decision[d] = "none" /\ inFlight[d] = Idle
  /\ LET approves == authorization # NoAuthorization /\ Current(authorization)
     IN  inFlight' = [inFlight EXCEPT ![d] =
           [stage |-> "token", state |-> IF approves THEN "approved" ELSE "rejected",
            decidedAt |-> now]]
  /\ UNCHANGED <<now, clocks, storage, gate, history>>

Callback(d) ==
  /\ gate = "open" /\ inFlight[d].stage = "token"
  /\ inFlight' = [inFlight EXCEPT ![d].stage = "callback"]
  /\ UNCHANGED <<now, clocks, storage, gate, history>>

\* GitHub accepted the answer.
Record(d) ==
  /\ gate = "open" /\ inFlight[d].stage = "callback"
  /\ decision' = [decision EXCEPT ![d] = inFlight[d].state]
  /\ recorded' = recorded \cup {d} /\ kept' = kept \cup {d}
  /\ inFlight' = [inFlight EXCEPT ![d].stage = "recorded"]
  /\ gate' = "retain_decision"
  /\ UNCHANGED <<now, clocks, authorization, retention, alarm, registered>>

\* The token or the callback failed: nothing is recorded.
FailDecide(d) ==
  /\ gate = "open" /\ inFlight[d].stage \in {"token", "callback"}
  /\ inFlight' = [inFlight EXCEPT ![d] = Idle]
  /\ UNCHANGED <<now, clocks, storage, gate, history>>

\* The decision is in flight until the last write for it is made.
Retained(d, next) ==
  /\ gate' = next
  /\ inFlight' = IF next = "open" THEN [inFlight EXCEPT ![d] = Idle] ELSE inFlight

\* Mutated form of RetainDecision: a slow decision shortens the retention.
RetainLatest(d) ==
  /\ gate = "retain_decision" /\ inFlight[d].stage = "recorded"
  /\ LET deleteAt == inFlight[d].decidedAt + RedeliveryRetention
     IN  retention' =
           IF retention.phase = "none"
           THEN [phase |-> "decisions", authorizationDeleteAt |-> 0,
                 decisionsDeleteAt |-> deleteAt]
           ELSE [retention EXCEPT !.decisionsDeleteAt = deleteAt]
  /\ Retained(d, IF retention.phase = "authorization" THEN "open" ELSE "decision_alarm")
  /\ UNCHANGED <<now, clocks, authorization, decision, alarm, history>>

\* Mutated form of RetainDecision: no alarm is set.
RetainNoAlarm(d) ==
  /\ gate = "retain_decision" /\ inFlight[d].stage = "recorded"
  /\ LET deleteAt == inFlight[d].decidedAt + RedeliveryRetention
     IN  retention' =
           IF retention.phase = "none"
           THEN [phase |-> "decisions", authorizationDeleteAt |-> 0,
                 decisionsDeleteAt |-> deleteAt]
           ELSE [retention EXCEPT !.decisionsDeleteAt = Larger(@, deleteAt)]
  /\ Retained(d, "open")
  /\ UNCHANGED <<now, clocks, authorization, decision, alarm, history>>

\* retainDecision()
RetainDecision(d) ==
  /\ gate = "retain_decision" /\ inFlight[d].stage = "recorded"
  /\ LET deleteAt == inFlight[d].decidedAt + RedeliveryRetention
     IN  retention' =
           IF retention.phase = "none"
           THEN [phase |-> "decisions", authorizationDeleteAt |-> 0,
                 decisionsDeleteAt |-> deleteAt]
           ELSE [retention EXCEPT !.decisionsDeleteAt = Larger(@, deleteAt)]
  /\ Retained(d, IF retention.phase = "authorization" THEN "open" ELSE "decision_alarm")
  /\ UNCHANGED <<now, clocks, authorization, decision, alarm, history>>

DecisionAlarm(d) ==
  /\ gate = "decision_alarm" /\ inFlight[d].stage = "recorded"
  /\ alarm' = retention.decisionsDeleteAt
  /\ Retained(d, "open")
  /\ UNCHANGED <<now, clocks, authorization, retention, decision, history>>

-----------------------------------------------------------------------------
(* alarm: the runtime delivers it once it is due, and again if the object   *)
(* crashes before it is done.                                               *)

AlarmDue == gate = "open" /\ alarm <= now

ExpireAuthorization ==
  /\ AlarmDue /\ retention.phase = "authorization"
  /\ authorization' = NoAuthorization
  /\ gate' = "expire_phase"
  /\ UNCHANGED <<now, clocks, retention, decision, alarm, inFlight, history>>

ExpirePhase ==
  /\ gate = "expire_phase"
  /\ retention' = [retention EXCEPT !.phase = "decisions"]
  /\ gate' = "expire_alarm"
  /\ UNCHANGED <<now, clocks, authorization, decision, alarm, inFlight, history>>

ExpireAlarm ==
  /\ gate = "expire_alarm"
  /\ alarm' = retention.decisionsDeleteAt
  /\ gate' = "open"
  /\ UNCHANGED <<now, clocks, authorization, retention, decision, inFlight, history>>

DeleteAll ==
  /\ AlarmDue /\ retention.phase # "authorization"
  /\ authorization' = NoAuthorization
  /\ retention' = NoRetention
  /\ decision' = [d \in Deliveries |-> "none"]
  /\ alarm' = NoAlarm
  /\ UNCHANGED <<now, clocks, memory, history>>

-----------------------------------------------------------------------------
\* The object is evicted before a write, or while it waits for GitHub.  The
\* operation is not resumed: a decision is then stored and not retained, an
\* authorization stored without its own retention or alarm, or the phase that
\* deletes everything stored while the alarm is still due.
Crash ==
  /\ gate # "open" \/ \E d \in Deliveries : inFlight[d] # Idle
  /\ gate' = "open"
  /\ inFlight' = [d \in Deliveries |-> Idle]
  /\ kept' = IF gate = "expire_alarm" THEN {}
             ELSE {d \in kept : inFlight[d].stage # "recorded"}
  /\ registered' = IF gate \in {"register_retention", "register_alarm"}
                   THEN registered \ {authorization} ELSE registered
  /\ UNCHANGED <<now, clocks, storage, recorded>>

\* An operation that holds the gate, or a due alarm, takes far less than the
\* unit of the clock.
Tick ==
  /\ now < MaxTime
  /\ gate = "open" /\ ~AlarmDue
  /\ now' = now + 1
  /\ UNCHANGED <<clocks, storage, memory, history>>

Write ==
  \/ RegisterRetention \/ RegisterAlarm
  \/ \E d \in Deliveries : RetainDecision(d) \/ DecisionAlarm(d)
  \/ ExpirePhase \/ ExpireAlarm

Alarm == ExpireAuthorization \/ DeleteAll

Answer(d) == Callback(d) \/ Record(d) \/ FailDecide(d)

Next ==
  \/ \E a \in Authorizations : Register(a)
  \/ \E d \in Deliveries : Decide(d) \/ Answer(d)
  \/ Write \/ Alarm \/ Crash \/ Tick

Spec == Init /\ [][Next]_vars

(* Time passes however often the gate is closed meanwhile, the runtime lets *)
(* a due alarm in among other events, and an operation makes its writes,    *)
(* which evictions do not prevent for ever.  Nothing is asked of the        *)
(* operator, of GitHub, or of an answer.                                    *)
FairSpec == Spec /\ SF_vars(Tick) /\ SF_vars(Alarm) /\ SF_vars(Write)
-----------------------------------------------------------------------------
(* Properties *)

\* As long as GitHub may send a delivery again, a decision once recorded for
\* it is still stored, unless an eviction cut off its retention or the expiry
\* of an authorization: the replay returns the original result (README "a
\* recorded deployment decision is retained separately through GitHub.com's
\* three-day manual webhook-redelivery window").
ReplayKnown ==
  \A d \in kept : now < sentAt[d] + RedeliveryWindow => decision[d] # "none"

Calls(d) == inFlight'[d].stage = "callback" /\ inFlight[d].stage # "callback"

\* GitHub is not called a second time for a delivery whose decision was
\* recorded (README "without calling GitHub a second time").
CalledOnce == [][\A d \in Deliveries : Calls(d) => d \notin recorded]_vars

\* It is not, whatever else is evicted, where no eviction cut off the retention
\* of that decision or the expiry of an authorization.
KeptCalledOnce == [][\A d \in Deliveries : Calls(d) => d \notin kept]_vars

\* No authorization is stored that is older than one registered before, also
\* when that one has been removed since: the audit margin is longer than the
\* validity of any authorization.  (One whose registration was cut off may have
\* been removed early, and does not count.)
NoRollback ==
  [][authorization' \notin {authorization, NoAuthorization} =>
       \A b \in registered : b = authorization' \/ issuedAt[b] < issuedAt[authorization']]_vars

\* An authorization whose registration was not cut off is removed only a whole
\* audit margin after it expired (README "Expired authorizations are removed
\* after a 24-hour audit margin").
RemovedAfterMargin ==
  [][(authorization \in registered /\ authorization' = NoAuthorization) =>
       now >= validUntil[authorization] + AuthorizationRetention]_vars

\* Both: what replaces or removes an authorization leaves no older one valid.
AuthorizationKept == NoRollback /\ RemovedAfterMargin

\* An authorization is stored whose registration was cut off.
CutOff == authorization \notin registered \cup {NoAuthorization}

\* What is stored is deleted in the end, also rejections made without an
\* authorization (README "the same bounded retention and cleanup schedule"),
\* unless an eviction cut off the retention of the decision or leaves an
\* authorization that has no alarm of its own.
CleanedUp ==
  /\ \A d \in Deliveries :
       d \in kept /\ decision[d] # "none" ~> decision[d] = "none" \/ d \notin kept \/ CutOff
  /\ authorization \in registered ~> authorization = NoAuthorization \/ CutOff
=============================================================================
