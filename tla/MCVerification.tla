---------------------------- MODULE MCVerification ----------------------------
(* Verification on a small instance: one developer, one gate, three commits. *)
EXTENDS VerificationInv

MCProfiles ==
  { [differential |-> FALSE, overlay |-> TRUE, review |-> "none", setup |-> TRUE, integrity |-> "calibrated", strict |-> FALSE],
    [differential |-> TRUE, overlay |-> TRUE, review |-> "none", setup |-> TRUE, integrity |-> "advisory", strict |-> FALSE],
    [differential |-> TRUE, overlay |-> FALSE, review |-> "none", setup |-> FALSE, integrity |-> "advisory", strict |-> FALSE],
    [differential |-> FALSE, overlay |-> TRUE, review |-> "test", setup |-> TRUE, integrity |-> "blocking", strict |-> TRUE] }

-----------------------------------------------------------------------------
(* Documents of the authority configuration, each a small change of a plain  *)
(* one, and with them the revisions: one document, and the server's two.     *)

PlainServer ==
  [supported |-> TRUE, enabled |-> TRUE, program |-> "node", arguments |-> "a", env |-> <<>>, refs |-> <<>>,
   auth |-> Unset, execution |-> Unset, resource |-> Unset, scopes |-> {}, enabledTools |-> {},
   disabledTools |-> {}, approval |-> Unset, approvals |-> <<>>, other |-> Unset]
MCServers ==
  { [PlainServer EXCEPT !.supported = FALSE, !.other = "x"], [PlainServer EXCEPT !.enabled = FALSE],
    [PlainServer EXCEPT !.arguments = "b"], [PlainServer EXCEPT !.enabled = FALSE, !.program = "sh"],
    [PlainServer EXCEPT !.env = [token |-> "x"]], [PlainServer EXCEPT !.refs = [token |-> "local"]],
    [PlainServer EXCEPT !.resource = "host"], [PlainServer EXCEPT !.scopes = {"repo"}],
    [PlainServer EXCEPT !.enabledTools = {"t"}], [PlainServer EXCEPT !.disabledTools = {"t"}],
    [PlainServer EXCEPT !.enabledTools = {"t"}, !.disabledTools = {"t"}],
    [PlainServer EXCEPT !.enabled = FALSE, !.disabledTools = {"t"}],
    [PlainServer EXCEPT !.approvals = [t |-> "auto"]], [PlainServer EXCEPT !.other = "x"] }
  \cup {[PlainServer EXCEPT !.approval = mode] : mode \in {"prompt", "auto", "writes", "approve", "odd"}}
  \cup {[PlainServer EXCEPT !.auth = mode] : mode \in {"oauth", "chatgpt", "odd"}}
  \cup {[PlainServer EXCEPT !.execution = mode] : mode \in {"local", "remote", "odd"}}

PlainMcp == [platform |-> "mcp", servers |-> <<>>, second |-> Unset, root |-> Unset]
MCMcps ==
  {PlainMcp, [PlainMcp EXCEPT !.second = "x"], [PlainMcp EXCEPT !.root = "x"]}
    \cup {[PlainMcp EXCEPT !.servers = [s |-> server]] : server \in {PlainServer} \cup MCServers}

PlainClaude ==
  [platform |-> "claude-code", allow |-> {}, ask |-> {}, deny |-> {}, mode |-> Unset, bypass |-> Unset,
   directories |-> {}, sandbox |-> {}, allMcp |-> Unset, enabledServers |-> {}, disabledServers |-> {},
   enabledPlugins |-> {}, disabledPlugins |-> {}, env |-> <<>>, servers |-> <<>>, hooks |-> <<>>,
   model |-> Unset, managed |-> Unset]
PlainSandbox ==
  [enabled |-> TRUE, failClosed |-> Unset, autoAllow |-> "no", escape |-> "no", weakerNested |-> Unset,
   excluded |-> {}, hosts |-> {}, sockets |-> {}, allSockets |-> Unset, localBinding |-> Unset, other |-> Unset]
MCSandboxes ==
  { PlainSandbox, [PlainSandbox EXCEPT !.enabled = FALSE],
    [PlainSandbox EXCEPT !.failClosed = "on"], [PlainSandbox EXCEPT !.failClosed = "off"],
    [PlainSandbox EXCEPT !.escape = Unset], [PlainSandbox EXCEPT !.escape = "odd"],
    [PlainSandbox EXCEPT !.weakerNested = "yes"], [PlainSandbox EXCEPT !.excluded = {"git"}],
    [PlainSandbox EXCEPT !.hosts = {"h"}], [PlainSandbox EXCEPT !.sockets = {"s"}],
    [PlainSandbox EXCEPT !.allSockets = "yes"], [PlainSandbox EXCEPT !.localBinding = "yes"],
    [PlainSandbox EXCEPT !.enabled = FALSE, !.excluded = {"git"}, !.other = "x"],
    [PlainSandbox EXCEPT !.excluded = {"git"}, !.other = "x"] }
Hook(command) == [shown |-> "node", hidden |-> command]
MCClaudes ==
  { [PlainClaude EXCEPT !.allow = {"Bash"}], [PlainClaude EXCEPT !.ask = {"Bash"}],
    [PlainClaude EXCEPT !.deny = {"Bash"}], [PlainClaude EXCEPT !.allow = {"Bash"}, !.deny = {"Bash"}],
    [PlainClaude EXCEPT !.bypass = "disable"], [PlainClaude EXCEPT !.bypass = "enable"],
    [PlainClaude EXCEPT !.directories = {"/"}], [PlainClaude EXCEPT !.allMcp = "yes"],
    [PlainClaude EXCEPT !.allMcp = "no"], [PlainClaude EXCEPT !.enabledServers = {"s"}],
    [PlainClaude EXCEPT !.disabledServers = {"s"}], [PlainClaude EXCEPT !.enabledPlugins = {"p"}],
    [PlainClaude EXCEPT !.disabledPlugins = {"p"}], [PlainClaude EXCEPT !.env = [token |-> "x"]],
    [PlainClaude EXCEPT !.env = [token |-> "y"]], [PlainClaude EXCEPT !.managed = "x"],
    [PlainClaude EXCEPT !.model = "pinned"], [PlainClaude EXCEPT !.model = "latest"] }
  \cup {[PlainClaude EXCEPT !.mode = mode] :
          mode \in {Unset, "plan", "dontAsk", "acceptEdits", "auto", "bypassPermissions", "odd"}}
  \cup {[PlainClaude EXCEPT !.sandbox = {sandbox}] : sandbox \in MCSandboxes}
  \cup {[PlainClaude EXCEPT !.hooks = [place \in {<<event, "0">>} |-> Hook(command)]] :
          event \in {"PreToolUse", "Stop"}, command \in {"a", "b"}}

PlainCodex ==
  [platform |-> "codex", mode |-> Unset, network |-> FALSE, approval |-> Unset, reviewer |-> Unset,
   roots |-> {}, shell |-> {}, servers |-> <<>>, model |-> Unset, features |-> Unset]
PlainShell == [inherit |-> Unset, keepSecrets |-> Unset, set |-> <<>>]
MCCodexes ==
  { PlainCodex, [PlainCodex EXCEPT !.network = TRUE], [PlainCodex EXCEPT !.roots = {"/"}],
    [PlainCodex EXCEPT !.features = "x"], [PlainCodex EXCEPT !.shell = {[PlainShell EXCEPT !.keepSecrets = "no"]}],
    [PlainCodex EXCEPT !.shell = {[PlainShell EXCEPT !.keepSecrets = "yes"]}],
    [PlainCodex EXCEPT !.servers = [s |-> PlainServer]] }
  \cup {[PlainCodex EXCEPT !.mode = mode] : mode \in {"workspace-write", "danger-full-access", "odd"}}
  \cup {[PlainCodex EXCEPT !.approval = mode] : mode \in {"untrusted", "on-request", "never", "odd"}}
  \cup {[PlainCodex EXCEPT !.reviewer = mode] : mode \in {"auto_review", "guardian_subagent", "odd", "odder"}}
  \cup {[PlainCodex EXCEPT !.shell = {[PlainShell EXCEPT !.inherit = mode]}] :
          mode \in {"none", "core", "all", "odd"}}

\* A revision declares one document at its path, none, or one that cannot be read.
Declaring(path, docs) ==
  {<<>>} \cup {[p \in {path} |-> doc] : doc \in docs \cup {[platform |-> "unreadable"]}}
MCChanges ==
  (Declaring("mcp.json", MCMcps) \X Declaring("mcp.json", MCMcps))
    \cup (Declaring("settings.json", MCClaudes) \X Declaring("settings.json", MCClaudes))
    \cup (Declaring("config.toml", MCCodexes) \X Declaring("config.toml", MCCodexes))

\* The base's policy approves nothing, or deltas of a plan that was looked at: a
\* plain server is added - that the agent connects to it, and how it is launched
\* - or a hook.
Looked(path, doc, kind, owner, name) ==
  Delta(<<>>, Declared([p \in {path} |-> doc]), <<path, kind, owner, name>>)
LookedServer(kind) == Looked("mcp.json", [PlainMcp EXCEPT !.servers = [s |-> PlainServer]], kind, "s", "")
LookedHook ==
  Looked("settings.json", [PlainClaude EXCEPT !.hooks = [place \in {<<"Stop", "0">>} |-> Hook("a")]],
         "hook", "Stop", "0")
MCAuthorityPolicies ==
  [allowUnknown : BOOLEAN,
   approved : {{}, {LookedServer("connect")}, {LookedServer("connect"), LookedServer("launch")}, {LookedHook}}]

\* Nothing more is looked at once no other run can start, and a maintainer
\* compares a branch that has a commit of its own.
Relevant ==
  /\ run = NoRun => runs = 0 \/ \E r \in issued : r.status = "PASS"
  /\ run # NoRun /\ run.mode = "maintainer" => run.head > run.base
=============================================================================
