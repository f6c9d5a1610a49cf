-------------------------- MODULE ContinuityHistory --------------------------
(***************************************************************************)
(* What `vigil continuity` computes from files it has read: the event a    *)
(* GitHub payload stands for, the event an append stores, whether a        *)
(* history verifies, what a policy decides about it, and what a staple     *)
(* says later.                                                             *)
(*                                                                         *)
(* An event's hash covers its predecessor's hash and its own draft, so it  *)
(* is written as the sequence of drafts up to it: equal hashes are equal   *)
(* histories.  Times are ticks; 0 stands for an absent freshUntil and for  *)
(* a source without a maximum age.                                         *)
(***************************************************************************)
EXTENDS Integers, Sequences, FiniteSets

CONSTANTS FutureSkew,    \* how far an event may lie ahead (300 s)
          StapleSkew,    \* STAPLE_CLOCK_SKEW_SECONDS
          MaxTtl         \* MAX_STAPLE_TTL_SECONDS

ASSUME HistoryAssumption ==
    /\ {FutureSkew, StapleSkew, MaxTtl} \subseteq Nat
    /\ MaxTtl > 0

None == "none"
Broken == "broken"

Hash(e) == Append(e.before, e.draft)
TipOf(view) == IF view = <<>> THEN <<>> ELSE Hash(view[Len(view)])

-----------------------------------------------------------------------------
(* Importing an outcome from GitHub. *)

\* classify: what an authenticated payload says of the recorded head, or
\* nothing.  payload.exact: the merge carries the recorded base and head, the
\* push an exact revert of the head; payload.linked: the head's link label.
Classified(payload) ==
    CASE payload.shape = "merge" /\ payload.hotfix /\ payload.linked ->
             {[kind |-> "hotfix_observed", disposition |-> "observe"]}
      [] payload.shape = "merge" /\ ~payload.hotfix /\ payload.exact ->
             {[kind |-> "merge_observed", disposition |-> "affirm"]}
      [] payload.shape = "issue" /\ payload.linked ->
             {[kind |-> "incident_linked", disposition |-> "observe"]}
      [] payload.shape = "push" /\ payload.exact ->
             {[kind |-> "revert_observed", disposition |-> "revoke"]}
      [] payload.shape = "outage" ->
             {[kind |-> "coverage_gap", disposition |-> "hold"]}
      [] OTHER -> {}

\* The draft of a delivery: its event ID is the delivery's own.
Imported(delivery, payload, outcome, issuer) ==
    [id |-> delivery, source |-> "github-outcome", issuer |-> issuer,
     delivery |-> delivery, kind |-> outcome.kind,
     disposition |-> outcome.disposition, target |-> payload.shape # "outage",
     fresh |-> 0, supersedes |-> None,
     observed |-> payload.at, effective |-> payload.at]

-----------------------------------------------------------------------------
(* Storing and verifying. *)

Ordered(d) ==
    /\ d.effective <= d.observed
    /\ d.fresh > 0 => d.fresh > d.effective
Follows(d, prior) ==
    d.observed >= prior.observed /\ d.effective >= prior.effective
\* latest is the latest time an event may claim.
Plausible(d, latest) == d.observed <= latest
UsedBefore(d, prior) == d.id = prior.id
Replayed(d, prior) == d.delivery # None /\ d.delivery = prior.delivery

\* Mutated form of MayStore: the event's ID and delivery are not looked up.
MayStoreAgain(d, key, view, latest) ==
    /\ view # <<>> => Follows(d, view[Len(view)].draft)
    /\ Ordered(d) /\ Plausible(d, latest)
    /\ key # None => key = d.issuer

\* createStoredEvent's refusals.
MayStore(d, key, view, latest) ==
    /\ \A i \in 1..Len(view) : /\ ~UsedBefore(d, view[i].draft)
                               /\ ~Replayed(d, view[i].draft)
    /\ view # <<>> => Follows(d, view[Len(view)].draft)
    /\ Ordered(d) /\ Plausible(d, latest)
    /\ key # None => key = d.issuer

StoredEvent(d, key, view) == [draft |-> d, signer |-> key, before |-> TipOf(view)]

\* One event of a history under verification: its sequence number is one more
\* than the length of its predecessor's hash.  pinned is the set of keys an
\* operator insists on, if any.
EventVerifies(view, i, pinned, latest) ==
    LET d == view[i].draft
        key == view[i].signer
    IN  /\ view[i].before = (IF i = 1 THEN <<>> ELSE Hash(view[i - 1]))
        /\ \A j \in 1..(i - 1) : /\ ~UsedBefore(d, view[j].draft)
                                 /\ ~Replayed(d, view[j].draft)
        /\ i > 1 => Follows(d, view[i - 1].draft)
        /\ Ordered(d) /\ Plausible(d, latest)
        /\ key # None => key = d.issuer
        /\ pinned # {} => key \in pinned

\* Mutated form of Verifies: a missing last entry is not noticed.
VerifiesAnyTip(root, view, tip, pinned, latest) ==
    /\ root.signer # Broken
    /\ \A i \in 1..Len(view) : EventVerifies(view, i, pinned, latest)

\* verifyContinuityChain: the root's own signature, every event, and the tip
\* that must name the last of them.
Verifies(root, view, tip, pinned, latest) ==
    /\ root.signer # Broken
    /\ \A i \in 1..Len(view) : EventVerifies(view, i, pinned, latest)
    /\ tip = TipOf(view)

-----------------------------------------------------------------------------
(* The policy's decision. *)

Linked(d) == d.kind = "incident_linked" =>
                 d.source = "github-outcome" /\ d.delivery # None /\ d.target
Denied(d, policy) ==
    /\ d.kind # "remediation_verified"
    /\ d.disposition = "revoke" \/ d.kind \in policy.deny
Revokes(d, policy) == Denied(d, policy) /\ Linked(d)

SoundRepair(e, policy, at) ==
    /\ policy.repair
    /\ e.draft.kind = "remediation_verified" /\ e.draft.disposition = "affirm"
    /\ e.draft.source = "verification" /\ e.draft.target
    /\ e.draft.fresh > at
    /\ e.signer \in policy.issuers

\* Mutated form of Repairs: whoever recorded the revocation may lift it.
RepairsOwn(view, j, i, policy, at) ==
    /\ i < j /\ Revokes(view[i].draft, policy)
    /\ SoundRepair(view[j], policy, at)
    /\ view[j].draft.supersedes = view[i].draft.id
\* Entry j is a fresh, signed, independent repair of the revocation i.
Repairs(view, j, i, policy, at) ==
    /\ i < j /\ Revokes(view[i].draft, policy)
    /\ SoundRepair(view[j], policy, at)
    /\ view[j].draft.supersedes = view[i].draft.id
    /\ view[j].draft.issuer # view[i].draft.issuer

Active(view, policy, at) ==
    {i \in 1..Len(view) :
        /\ Revokes(view[i].draft, policy)
        /\ ~\E j \in 1..Len(view) : Repairs(view, j, i, policy, at)}

\* A repair is used up by the revocation it lifts: an expired one, and a
\* second one for a revocation already lifted, only hold.
Accepted(view, j, policy, at) ==
    \E i \in 1..Len(view) :
        /\ Repairs(view, j, i, policy, at)
        /\ \A k \in 1..(j - 1) : ~Repairs(view, k, i, policy, at)

HoldsEntry(view, i, policy, at) ==
    LET d == view[i].draft
    IN  \/ policy.signedEvents /\ view[i].signer = None
        \/ d.kind = "remediation_verified" /\ ~Accepted(view, i, policy, at)
        \/ Denied(d, policy) /\ ~Linked(d)
        \/ d.kind # "remediation_verified" /\ d.disposition = "hold"
        \/ d.kind = "coverage_gap"

\* A monitor's checkpoint that says only "no known event" is a kind of its
\* own here.
Qualifies(d) ==
    /\ d.disposition \in {"affirm", "observe"}
    /\ d.kind \notin {"coverage_gap", "no_known_event_through",
                      "credential_revoked", "attestation_invalid",
                      "revert_observed", "incident_linked"}
FromSource(view, source) ==
    {i \in 1..Len(view) : view[i].draft.source = source
                              /\ Qualifies(view[i].draft)}
LatestFrom(view, source) ==
    CHOOSE i \in FromSource(view, source) :
        \A j \in FromSource(view, source) : j <= i
Unfit(view, source, policy, at) ==
    \/ FromSource(view, source) = {}
    \/ policy.age[source] = 0
    \/ view[LatestFrom(view, source)].draft.observed > at + policy.skew
Stale(view, source, policy, at) ==
    /\ ~Unfit(view, source, policy, at)
    /\ LET d == view[LatestFrom(view, source)].draft
       IN  \/ at - d.observed > policy.age[source]
           \/ d.fresh > 0 /\ d.fresh <= at

RootDenied(root, policy) ==
    \/ root.verdict = "FAIL" \/ root.signer = Broken
    \/ root.signer # None /\ root.signer \notin policy.roots
RootHeld(root, policy) ==
    \/ root.verdict = "INCONCLUSIVE"
    \/ policy.signedRoot /\ root.signer = None

\* evaluateContinuity.
Decision(valid, root, view, policy, environment, at) ==
    CASE \/ ~valid \/ RootDenied(root, policy)
         \/ \E i \in 1..Len(view) : view[i].signer # None
                                       /\ view[i].signer \notin policy.issuers
         \/ Active(view, policy, at) # {}           -> "REVOKED"
      [] OTHER ->
    CASE \E s \in policy.required : Stale(view, s, policy, at) -> "EXPIRED"
      [] OTHER ->
    CASE \/ RootHeld(root, policy) \/ environment \notin policy.environments
         \/ \E i \in 1..Len(view) : HoldsEntry(view, i, policy, at)
         \/ \E s \in policy.required : Unfit(view, s, policy, at) -> "HOLD"
      [] OTHER                                                    -> "CURRENT"

-----------------------------------------------------------------------------
(* The staple: a signed statement of one decision. *)

\* issueContinuityStaple; a history whose last entry is out of place has a
\* sequence that is not its event count, and gets none.
MayStaple(view) == Len(TipOf(view)) = Len(view)
Staple(state, view, policy, environment, at, ttl, key) ==
    [state |-> state, tip |-> TipOf(view), policy |-> policy,
     environment |-> environment, issued |-> at, until |-> at + ttl,
     signer |-> key]

\* verifyContinuityStaple's refusals; want is what the caller pins.
StapleFits(s, want, at) ==
    /\ s.signer = want.signer
    /\ s.environment = want.environment /\ s.policy = want.policy
    /\ want.tips # {} => s.tip \in want.tips
    /\ Len(s.tip) >= want.minimum
    /\ s.issued <= at + StapleSkew
EffectiveState(s, at) ==
    IF s.state = "REVOKED" \/ at < s.until THEN s.state ELSE "EXPIRED"
StapleAllows(s, want, at) ==
    /\ StapleFits(s, want, at)
    /\ at < s.until /\ EffectiveState(s, at) = "CURRENT"
=============================================================================
