---------------------------- MODULE DeploymentInv ----------------------------
(***************************************************************************)
(* Why a recorded decision outlives its redelivery window, GitHub is called *)
(* for it once, and no authorization is replaced by an older one: the      *)
(* inductive invariant of DeploymentLedger, whatever writes evictions cut  *)
(* off.  Its parts speak of the decisions that are kept and of the         *)
(* authorizations that are registered; nothing protects the others.        *)
(***************************************************************************)
EXTENDS DeploymentLedger

\* A decision is dated no earlier than its delivery was sent, and the one that
\* holds the gate is the only one that is recorded and not yet retained.
DecisionDated ==
  /\ \A d \in Deliveries :
       /\ inFlight[d].stage # "idle" =>
            /\ sentAt[d] <= inFlight[d].decidedAt
            /\ inFlight[d].state # "none"
       /\ inFlight[d].stage = "recorded" =>
            /\ gate \in {"retain_decision", "decision_alarm"}
            /\ \A e \in Deliveries : inFlight[e].stage = "recorded" => e = d

\* The alarm handler holds the gate only in the phase that it ends.
GateMatchesPhase ==
  /\ gate = "expire_phase" => retention.phase = "authorization"
  /\ gate = "expire_alarm" => retention.phase = "decisions"
  /\ gate = "register_alarm" => retention.phase = "authorization"
  /\ gate = "decision_alarm" => retention.phase = "decisions"
  /\ gate = "register_retention" => authorization # NoAuthorization

\* A kept decision whose delivery may still be sent again is stored, and either
\* is just being retained or is covered by the stored deletion time and, once
\* the alarm is the one that deletes everything, by the alarm.  (The alarm may
\* be earlier than the deletion time, when an eviction kept it from being
\* moved.)
DecisionRetained ==
  \A d \in kept : now < sentAt[d] + RedeliveryWindow =>
    /\ decision[d] # "none"
    /\ \/ inFlight[d].stage = "recorded" /\ gate = "retain_decision"
       \/ /\ retention.phase # "none"
          /\ sentAt[d] + RedeliveryWindow <= retention.decisionsDeleteAt
          /\ \/ retention.phase = "authorization" \/ gate = "expire_alarm"
             \/ inFlight[d].stage = "recorded"
             \/ sentAt[d] + RedeliveryWindow <= alarm

\* A kept decision is not being made again.
NotYetRecorded ==
  \A d \in kept : inFlight[d].stage \in {"idle", "recorded"}

\* A registered authorization waits for the alarm of its own audit margin.
AuthorizationCovered ==
  LET margin == validUntil[authorization] + AuthorizationRetention
  IN  /\ authorization \in registered =>
           /\ gate \in {"open", "retain_decision"} =>
                retention.phase = "authorization" /\ alarm = margin
           /\ gate # "decision_alarm"
      /\ gate \in {"register_retention", "register_alarm"} => authorization \in registered
      /\ gate = "register_alarm" => retention.authorizationDeleteAt = margin
      /\ gate \in {"expire_phase", "expire_alarm"} => authorization = NoAuthorization

\* An authorization is valid for some time, and no longer than allowed.
SignedValidity ==
  \A a \in Authorizations :
    issuedAt[a] < validUntil[a] /\ validUntil[a] <= issuedAt[a] + MaxValidity

TooOld(b) == issuedAt[b] + MaxValidity < now

\* Every registered authorization is too old to be registered again, or is being
\* registered, or gives way to a newer one until an alarm after its validity.
NewestStored ==
  \A b \in registered :
    \/ TooOld(b)
    \/ b = authorization /\ gate \in {"register_retention", "register_alarm"}
    \/ /\ authorization # NoAuthorization
       /\ b = authorization \/ issuedAt[b] < issuedAt[authorization]
       /\ retention.phase = "authorization"
       /\ issuedAt[b] + MaxValidity < alarm

DeploymentIndInv ==
  /\ TypeOK /\ DecisionDated /\ GateMatchesPhase /\ DecisionRetained
  /\ NotYetRecorded /\ AuthorizationCovered /\ SignedValidity /\ NewestStored
=============================================================================
