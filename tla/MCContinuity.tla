---------------------------- MODULE MCContinuity ----------------------------
(* One delivery comes in as a revert that k1 records or as an incident that *)
(* k2 records; k2 appends a repair of it by hand.                           *)
EXTENDS ContinuityInv, TLC

Draft(id, issuer, kind, fresh, supersedes) ==
    [id |-> id, source |-> "verification", issuer |-> issuer,
     delivery |-> None, kind |-> kind, disposition |-> "affirm",
     target |-> TRUE, fresh |-> fresh, supersedes |-> supersedes,
     observed |-> 1, effective |-> 1]
MCAppends ==
    {[draft |-> Draft("fix", "k2", "remediation_verified", 2, "dl1"), key |-> "k2"]}
Payload(shape, at) ==
    [shape |-> shape, hotfix |-> FALSE, exact |-> TRUE, linked |-> TRUE, at |-> at]
MCImports ==
    {[delivery |-> "dl1", payload |-> Payload("push", 1), key |-> "k1"],
     [delivery |-> "dl1", payload |-> Payload("issue", 1), key |-> "k2"]}
MCRoots == {[verdict |-> "PASS", signer |-> "k1"]}
MCPolicies ==
    {[deny |-> {"incident_linked"}, repair |-> TRUE, issuers |-> {"k1", "k2"},
      roots |-> {"k1"}, signedRoot |-> TRUE, signedEvents |-> TRUE,
      required |-> {}, age |-> [s \in {} |-> 0], skew |-> 1,
      environments |-> {"prod"}]}
MCPins == {{}}
\* Before there is a staple no event of this instance tells the times apart.
ClockMatters == now = 1 \/ staples # {}
Symmetric == Permutations(Procs)
=============================================================================
