---------------------------- MODULE AuthorityPlan ----------------------------
(***************************************************************************)
(* The authority plan of a change: what the head declares beyond what the  *)
(* base declares, judged atom by atom and then by the policy that the base *)
(* holds.  B and H stand for what base and head declare.                   *)
(***************************************************************************)
EXTENDS AuthorityAtoms, Integers

CONSTANTS Changes,           \* pairs of revisions: functions from paths to documents
          AuthorityPolicies  \* policies: the deltas that were approved, whether unknown changes pass

Kind(key) == key[2]

\* Grants are declared or not, switches allow or deny.
Secrets  == {"credential", "env-ref"}
Names    == {"oauth-resource", "oauth-scope", "directory", "excluded", "host", "unix-socket", "root"}
Grants   == Secrets \cup Names \cup {"hook", "guard-hook"}
Entries  == {"tool", "mcp-server", "plugin", "all-mcp", "network", "keep-secrets", "disable-bypass"}
Controls == {"auto-allow", "escape", "weaker-nested", "all-sockets", "local-binding"}
Switches == Entries \cup Controls \cup {"connect"}
Guards   == {"sandbox-enabled", "fail-closed"}
Unread   == {"opaque", "sandbox-opaque"}

\* Atoms whose semanticKey has the prefix of their server, and atoms that count
\* while the sandbox is on.
OfServer  == {"connect", "launch", "auth", "execution", "oauth-resource", "oauth-scope", "tool",
              "approval", "tool-approval"}
InSandbox == Controls \cup {"fail-closed", "excluded", "host", "unix-socket", "sandbox-opaque"}

Mutable == {"latest"}
Asks    == {"untrusted", "on-request", "granular"}
Automated == {"auto_review", "guardian_subagent"}

\* The modes that are supported.
Supported(kind) ==
  CASE kind = "auth"                          -> {"oauth", "chatgpt"}
    [] kind = "execution"                     -> {"local", "remote"}
    [] kind \in {"approval", "tool-approval"} -> {"prompt", "auto", "writes", "approve"}
    [] kind = "default-mode"                  -> {"plan", "dontAsk", "default", "acceptEdits", "auto", "bypassPermissions"}
    [] kind = "sandbox-mode"                  -> {"read-only", "workspace-write", "danger-full-access"}
    [] kind = "approval-policy"               -> Asks \cup {"never"}
    [] kind = "reviewer"                      -> {"user"} \cup Automated
    [] kind = "inherit"                       -> {"none", "core", "all"}
    [] OTHER                                  -> {}
ModeKinds == {"auth", "execution", "approval", "tool-approval", "default-mode", "sandbox-mode",
          "approval-policy", "reviewer", "inherit"}

\* Whether an atom's decision is UNKNOWN.
Undecided(kind, value) ==
  \/ kind \in Unread
  \/ kind = "model" /\ value \in Mutable
  \/ kind \in ModeKinds /\ value \notin Supported(kind)

-----------------------------------------------------------------------------
(* One atom: added, removed and changed.  "UNSURE" is HOLD_UNKNOWN, the     *)
(* holding rule AVP001.                                                     *)

AddedMode(kind, value) ==
  CASE kind = "auth"      -> IF value \in Supported(kind) THEN "BLOCK" ELSE "HOLD"
    [] kind = "execution" -> (CASE value = "remote" -> "BLOCK" [] value = "local" -> "ALLOW" [] OTHER -> "UNSURE")
    [] kind \in {"approval", "tool-approval"} ->
         (CASE value = "prompt" -> "ALLOW" [] value \in Supported(kind) \ {"prompt"} -> "BLOCK" [] OTHER -> "HOLD")
    [] kind = "default-mode" ->
         (CASE value = "bypassPermissions" -> "BLOCK"
            [] value \in Supported(kind) \ {"bypassPermissions"} -> "UNSURE" [] OTHER -> "HOLD")
    [] kind = "sandbox-mode" ->
         (CASE value = "read-only" -> "ALLOW" [] value \in Supported(kind) \ {"read-only"} -> "BLOCK" [] OTHER -> "HOLD")
    [] kind = "approval-policy" ->
         (CASE value = "never" -> "BLOCK" [] value = "unknown" -> "UNSURE" [] OTHER -> "ALLOW")
    [] kind = "reviewer" ->
         (CASE value = "user" -> "ALLOW" [] value \in Automated -> "BLOCK" [] OTHER -> "UNSURE")
    [] kind = "inherit" ->
         (CASE value = "all" -> "BLOCK" [] value = "core" -> "HOLD" [] OTHER -> "ALLOW")

WhenAdded(kind, value) ==
  CASE kind \in Grants   -> "BLOCK"
    [] kind \in Switches -> IF value = "ALLOW" THEN "BLOCK" ELSE "ALLOW"
    [] kind = "launch"   -> IF value.decision = "ALLOW" THEN "BLOCK" ELSE "ALLOW"
    [] kind \in Guards   -> IF value = "on" THEN "ALLOW" ELSE "BLOCK"
    [] kind = "rule"     -> IF value = "ALLOW" THEN "BLOCK" ELSE "ALLOW"
    [] kind = "model"    -> IF value \in Mutable THEN "HOLD" ELSE "ALLOW"
    [] kind \in ModeKinds    -> AddedMode(kind, value)
    [] OTHER             -> "HOLD"

\* Mutated form of WhenRemoved: an entry that denied is taken for one that granted.
RemovedEntryAllowed(kind, value) ==
  CASE kind = "guard-hook" -> "BLOCK"
    [] kind \in (Grants \ {"guard-hook"}) \cup Switches \cup {"launch"} -> "ALLOW"
    [] kind \in Guards     -> IF value = "on" THEN "BLOCK" ELSE "ALLOW"
    [] kind = "rule"       -> (CASE value = "ALLOW" -> "ALLOW" [] value = "ASK" -> "HOLD" [] OTHER -> "BLOCK")
    [] kind \in ModeKinds \cup {"model"} -> "UNSURE"
    [] OTHER               -> "HOLD"

WhenRemoved(kind, value) ==
  CASE kind = "guard-hook" -> "BLOCK"
    [] kind \in (Grants \ {"guard-hook"}) \cup Controls \cup {"connect", "launch"} -> "ALLOW"
    [] kind \in Entries    -> IF value = "ALLOW" THEN "ALLOW" ELSE "BLOCK"
    [] kind \in Guards     -> IF value = "on" THEN "BLOCK" ELSE "ALLOW"
    [] kind = "rule"       -> (CASE value = "ALLOW" -> "ALLOW" [] value = "ASK" -> "HOLD" [] OTHER -> "BLOCK")
    [] kind \in ModeKinds \cup {"model"} -> "UNSURE"
    [] OTHER               -> "HOLD"

\* orderedRelation and partialRelation: each mode and those just above it.
\* (That of "execution" looks for a constraint its atoms do not have.)
Steps(kind) ==
  CASE kind \in {"approval", "tool-approval"} ->
         {<<"prompt", "auto">>, <<"prompt", "writes">>, <<"auto", "approve">>, <<"writes", "approve">>}
    [] kind = "default-mode" ->
         {<<"plan", "default">>, <<"dontAsk", "default">>, <<"default", "acceptEdits">>, <<"default", "auto">>,
          <<"acceptEdits", "bypassPermissions">>, <<"auto", "bypassPermissions">>}
    [] kind = "sandbox-mode" -> {<<"read-only", "workspace-write">>, <<"workspace-write", "danger-full-access">>}
    [] kind = "inherit" -> {<<"none", "core">>, <<"core", "all">>}
    [] kind = "approval-policy" -> {<<mode, "never">> : mode \in Asks}
    [] kind = "reviewer" -> {<<"user", mode>> : mode \in Automated}
    [] OTHER -> {}

\* A mode is above another when steps lead up to it: three at most.
Above(kind, high, low) ==
  LET up == Steps(kind) IN
  \/ <<low, high>> \in up
  \/ \E m \in Supported(kind) : <<low, m>> \in up /\ <<m, high>> \in up
  \/ \E m, n \in Supported(kind) : <<low, m>> \in up /\ <<m, n>> \in up /\ <<n, high>> \in up

\* The `compare' of the atoms, for values that differ.
Height(decision) == CASE decision = "ALLOW" -> 2 [] decision = "ASK" -> 1 [] OTHER -> 0
Relation(kind, old, new) ==
  CASE kind = "launch" -> "expansion"
    [] kind \in Switches \cup {"rule"} -> IF Height(new) > Height(old) THEN "expansion" ELSE "contraction"
    [] kind \in Guards -> IF new # "on" THEN "expansion" ELSE "contraction"
    [] kind = "model" -> (CASE new \in Mutable /\ old \notin Mutable -> "expansion"
                            [] old \in Mutable /\ new \notin Mutable -> "contraction"
                            [] OTHER -> "incomparable")
    [] kind \in ModeKinds ->
         IF kind = "reviewer" /\ ({old, new} \subseteq Automated \/ {old, new} \cap Supported(kind) = {}) THEN "equal"
         ELSE IF Above(kind, new, old) THEN "expansion"
         ELSE IF Above(kind, old, new) THEN "contraction" ELSE "incomparable"
    [] OTHER -> "incomparable"

\* recognizedExpansionFromUnknown: a setting that was not understood becomes one
\* that is known to allow more than a person's approval would.
FromUnknown(kind, old, new) ==
  /\ Undecided(kind, old) /\ ~Undecided(kind, new)
  /\ \/ WhenAdded(kind, new) = "BLOCK"
     \/ kind \in {"approval", "tool-approval"} /\ new # "prompt"
     \/ kind = "default-mode" /\ new \notin {"plan", "dontAsk", "default"}

\* dispositionForRelation.
WhenChanged(kind, old, new) ==
  LET relation == Relation(kind, old, new) IN
  CASE relation = "expansion"    -> IF kind = "model" THEN "HOLD" ELSE "BLOCK"
    [] relation = "incomparable" -> IF FromUnknown(kind, old, new) THEN "BLOCK" ELSE "HOLD"
    [] OTHER                     -> "ALLOW"

-----------------------------------------------------------------------------
(* The change: one delta for each key whose declaration changed.             *)

\* comparisonToken, and what publicAtom shows of a value.
Token(kind, value) == IF kind = "launch" THEN <<value.shown, value.hidden>> ELSE value
Public(kind, value) ==
  CASE kind = "launch"                            -> <<value.decision, value.shown>>
    [] kind = "connect"                           -> <<value[1], value[2].shown>>
    [] kind \in {"hook", "guard-hook"}            -> value.shown
    [] kind \in {"credential"} \cup Unread        -> "redacted"
    [] OTHER                                      -> value

\* Whether the sandbox of a key's document, or its server, is on.
SandboxOn(P, key) ==
  LET sandbox == <<key[1], "sandbox-enabled", "agent", "">> IN sandbox \in DOMAIN P /\ P[sandbox] = "on"
Server(key) == <<key[1], "connect", key[3], "">>
ServerOn(P, key) == Server(key) \in DOMAIN P /\ P[Server(key)] = "ALLOW"

\* conditionActiveAcrossRevision.
Active(B, H, key) ==
  Kind(key) \in InSandbox =>
    SandboxOn(H, key) /\ (SandboxOn(B, key) \/ Kind(key) = "sandbox-opaque")

\* A section that stays as it was comes into force with the sandbox.
Wakes(B, H, key) == Kind(key) = "sandbox-opaque" /\ SandboxOn(H, key) /\ ~SandboxOn(B, key)

Differs(B, H, key) ==
  key \in DOMAIN B /\ key \in DOMAIN H =>
    Token(Kind(key), B[key]) # Token(Kind(key), H[key]) \/ Wakes(B, H, key)

RemovedWithServer(B, H, key) ==
  Kind(key) \in OfServer /\ ServerOn(B, key) /\ Server(key) \notin DOMAIN H

\* The disposition of a delta before the policy.
Says(B, H, key) ==
  IF ~Active(B, H, key) THEN "ALLOW"
  ELSE IF key \notin DOMAIN B THEN WhenAdded(Kind(key), H[key])
  ELSE IF key \notin DOMAIN H
       THEN IF RemovedWithServer(B, H, key) THEN "ALLOW" ELSE WhenRemoved(Kind(key), B[key])
  ELSE IF Token(Kind(key), B[key]) = Token(Kind(key), H[key]) THEN WhenAdded(Kind(key), H[key])
  ELSE WhenChanged(Kind(key), B[key], H[key])

\* What a delta is about: a key and its value before and after.  A connection
\* is the server's identity too.
Side(P, key) ==
  IF key \notin DOMAIN P THEN {}
  ELSE {IF Kind(key) = "connect" THEN <<P[key], P[<<key[1], "launch", key[3], "">>]>> ELSE P[key]}
Delta(B, H, key) == <<key, Side(B, key), Side(H, key)>>

\* approvalKey: what is public of the atom before and after.
Face(delta, side) == {Public(Kind(delta[1]), value) : value \in delta[side]}
ApprovalKey(delta) == <<delta[1], Face(delta, 2), Face(delta, 3)>>

\* A delta that was approved has the same approvalKey.
KeyApproved(B, H, key, policy) ==
  \E delta \in policy.approved : ApprovalKey(delta) = ApprovalKey(Delta(B, H, key))

\* unknownSetting: no other kind of atom than a model's is ever UNSURE but not unknown.
UndecidedIn(P, key) == key \in DOMAIN P /\ Undecided(Kind(key), P[key])
UnknownSetting(B, H, key) ==
  /\ Kind(key) # "model"
  /\ UndecidedIn(B, key) \/ UndecidedIn(H, key) \/ Says(B, H, key) = "UNSURE"

\* applyAuthorityPlanPolicy.
Disposition(B, H, key, policy) ==
  LET says == Says(B, H, key) IN
  IF \/ KeyApproved(B, H, key, policy)
     \/ says \in {"HOLD", "UNSURE"} /\ policy.allowUnknown /\ UnknownSetting(B, H, key)
  THEN "ALLOW" ELSE IF says = "UNSURE" THEN "HOLD" ELSE says

\* buildAuthorityPlan, gaps: some document of the base or of the head is not known.
PlanStatus(B, H, gaps, policy) ==
  LET dispositions == {Disposition(B, H, key, policy) : key \in {k \in DOMAIN B \cup DOMAIN H : Differs(B, H, k)}}
  IN IF "BLOCK" \in dispositions THEN "BLOCK"
     ELSE IF "HOLD" \in dispositions \/ (gaps /\ ~policy.allowUnknown) THEN "HOLD" ELSE "PASS"

-----------------------------------------------------------------------------
(* What a declaration is worth: the powers it gives the agent, as           *)
(* docs/AUTHORITY_PLAN.md has them blocked ("What blocks", "Base-owned       *)
(* exceptions").  The plan is judged against this, and has no part in it.   *)

\* A mode that is supported, by what the agent may then do of its own accord.
ModeWorth(kind, mode) ==
  CASE mode \in {"prompt", "read-only", "user", "none", "local"} -> {}
    [] mode = "approve"            -> {"auto", "writes", "approve"}
    [] mode = "default"            -> {"plan", "dontAsk", "default"}
    [] mode = "acceptEdits"        -> {"plan", "dontAsk", "default", "acceptEdits"}
    [] mode = "auto"               -> IF kind = "default-mode" THEN {"plan", "dontAsk", "default", "auto"} ELSE {"auto"}
    [] mode = "bypassPermissions"  -> Supported(kind)
    [] mode = "danger-full-access" -> {"workspace-write", "danger-full-access"}
    [] mode = "never"              -> Asks \cup {"never"}
    [] mode \in Automated          -> {"automated"}
    [] mode = "all"                -> {"core", "all"}
    [] OTHER                       -> {mode}

\* A restriction that is declared takes away what holds while nothing is said.
\* Nobody knows what a mode gives that is not recognized.
Worth(kind, value) ==
  CASE kind \in Switches -> IF value = "ALLOW" THEN {"unsaid", "granted"} ELSE {}
    [] kind = "rule"     -> (CASE value = "ALLOW" -> {"unsaid", "granted"} [] value = "ASK" -> {"unsaid"} [] OTHER -> {})
    [] kind \in Guards   -> IF value = "on" THEN {} ELSE {"unsaid", "granted"}
    [] kind = "model"    -> IF value \in Mutable THEN {"any model"} ELSE {}
    [] kind = "launch"   -> {Token(kind, value)}
    [] kind \in {"hook", "guard-hook"} -> {<<value>>}
    [] kind \in ModeKinds -> IF value \in Supported(kind) THEN ModeWorth(kind, value) ELSE {"unrecognized", value}
    [] OTHER             -> {value}

\* What holds while nothing is said.
Unsaid(kind) ==
  CASE kind = "approval-policy" -> Asks \cup {"unsaid"}
    [] kind \in (ModeKinds \ {"approval-policy"}) \cup Entries \cup Guards \cup Unread \cup {"rule"} -> {"unsaid"}
    [] kind = "guard-hook"      -> {<<>>}
    [] OTHER                    -> {}
WorthIn(P, key) == IF key \in DOMAIN P THEN Worth(Kind(key), P[key]) ELSE Unsaid(Kind(key))

\* With the last tool of a server's list the list is gone: every tool is offered.
Unlisted(B, H, key) ==
  /\ Kind(key) = "tool" /\ key \in DOMAIN B /\ B[key] = "ALLOW"
  /\ ~\E k \in DOMAIN H : <<k[1], k[2], k[3]>> = <<key[1], "tool", key[3]>> /\ H[k] = "ALLOW"

\* The change gives the agent a power, where server and sandbox let it count.
Loosened(B, H, key) ==
  /\ Kind(key) \in OfServer  => ServerOn(H, key)
  /\ Kind(key) \in InSandbox => SandboxOn(B, key) /\ SandboxOn(H, key)
  /\ ~(WorthIn(H, key) \subseteq WorthIn(B, key)) \/ Unlisted(B, H, key)

\* Modes that nobody can take for unknown.
Bold == {"remote", "auto", "writes", "approve", "acceptEdits", "bypassPermissions", "workspace-write",
         "danger-full-access", "never", "all", "oauth", "chatgpt"} \cup Automated
NotBold(H, key) == key \in DOMAIN H => H[key] \notin Bold \cap Supported(Kind(key))

\* What the adapter does not understand: sections that are not normalized, and
\* modes that are not recognized on one side, unless the agent gets a bold one.
NotUnderstood(B, H, key) ==
  \/ Kind(key) \in Unread
  \/ Kind(key) \in ModeKinds /\ (UndecidedIn(B, key) \/ UndecidedIn(H, key)) /\ NotBold(H, key)

\* What the base's policy lets pass, by docs/AUTHORITY_PLAN.md: exactly the
\* deltas it approves, and what is not understood under allowUnknownChanges.
Excused(B, H, key, policy) ==
  \/ Delta(B, H, key) \in policy.approved
  \/ policy.allowUnknown /\ NotUnderstood(B, H, key)

\* What the code lets pass although that document has it blocked:
\*   - a delta that shows the same as one that was approved;
\*   - the last tool of a list taken out of it;
\*   - a first approval_policy or shell inheritance that is not recognized, and
\*     one reviewer that is not recognized in another's place;
\*   - under allowUnknownChanges, a mode that is understood, but declared for the
\*     first time or no more, unless it is bold.  (Of the default modes only the
\*     boldest blocks when it is new.)
Overlooked(B, H, key, policy) ==
  \/ KeyApproved(B, H, key, policy)
  \/ Unlisted(B, H, key)
  \/ /\ key \in DOMAIN H /\ UndecidedIn(H, key)
     /\ \/ key \notin DOMAIN B /\ Kind(key) = "inherit"
        \/ key \notin DOMAIN B /\ Kind(key) = "approval-policy" /\ H[key] # "unknown"
        \/ Kind(key) = "reviewer" /\ UndecidedIn(B, key)
  \/ /\ policy.allowUnknown /\ Kind(key) \in ModeKinds
     /\ key \notin DOMAIN B \/ key \notin DOMAIN H
     /\ NotBold(H, key) \/ (Kind(key) = "default-mode" /\ H[key] # "bypassPermissions")

\* A power given that the base's policy does not let pass, and that is not one
\* of those overlooked.
Widened(B, H, policy) ==
  \E key \in DOMAIN B \cup DOMAIN H :
    Loosened(B, H, key) /\ ~Excused(B, H, key, policy) /\ ~Overlooked(B, H, key, policy)

-----------------------------------------------------------------------------
\* What a plan comes to.
Outcome(from, to, policy) ==
  LET B == Declared(from)
      H == Declared(to)
  IN [status  |-> PlanStatus(B, H, Gaps(from) \cup Gaps(to) # {}, policy),
      widened |-> Widened(B, H, policy)]
PlanOutcomes == {Outcome(change[1], change[2], policy) : change \in Changes, policy \in AuthorityPolicies}
=============================================================================
