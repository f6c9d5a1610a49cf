---------------------------- MODULE AuthorityAtoms ----------------------------
(***************************************************************************)
(* What the authority configuration of a revision declares: from the       *)
(* documents that Git holds for it to a function from keys to values, one  *)
(* for each authority atom.                                                *)
(*                                                                         *)
(* A document is the record of the settings it declares, "unset" where one *)
(* is not declared.  A key is <<path, kind, owner, name>>: the semanticKey *)
(* of the code, with the MCP server as the owner of what belongs to it.    *)
(* The value of a switch or a rule is the decision it comes to; that of a  *)
(* launch identity or a hook is a record, of which the public atom shows   *)
(* the field `shown' only.                                                 *)
(***************************************************************************)
EXTENDS FiniteSets

Unset == "unset"

Atom(path, kind, owner, name, value) == [key |-> <<path, kind, owner, name>>, value |-> value]

\* A setting that a document may leave out, and a list of names.
Setting(path, kind, owner, value) ==
  IF value = Unset THEN {} ELSE {Atom(path, kind, owner, "", value)}
Each(path, kind, owner, names, value) == {Atom(path, kind, owner, name, value) : name \in names}

\* Two lists of one kind: atoms are looked up by key, and the last one counts.
Listed(path, kind, owner, allowed, denied) ==
  Each(path, kind, owner, allowed \ denied, "ALLOW") \cup Each(path, kind, owner, denied, "DENY")

Switch(on) == IF on THEN "ALLOW" ELSE "DENY"
\* A switch that a document may set to "yes" or "no".
OptionalSwitch(path, kind, value) ==
  Setting(path, kind, "agent", IF value = Unset THEN Unset ELSE Switch(value = "yes"))

\* A section that cannot be normalized: what it says is kept as it is.
Opaque(path, owner, locator, value) ==
  IF value = Unset THEN {} ELSE {Atom(path, "opaque", owner, locator, value)}

\* addEnvironmentAtoms: every value of an environment or of a set of headers.
Environment(path, owner, env) ==
  {Atom(path, "credential", owner, name, env[name]) : name \in DOMAIN env}

-----------------------------------------------------------------------------
(* addMcpServerAtoms.                                                        *)

\* addMcpApprovalAtom, for the server and for single tools.
Approvals(path, owner, server) ==
  Setting(path, "approval", owner, server.approval)
    \cup {Atom(path, "tool-approval", owner, tool, server.approvals[tool]) :
            tool \in DOMAIN server.approvals}

\* The identity a server is launched or reached by.
Launch(server) ==
  [decision |-> Switch(server.enabled), shown |-> server.program, hidden |-> server.arguments]

\* The sections of headers and the bearer variable are part of `env'; `other'
\* stands for the fields that are not recognized, or for the whole of an entry
\* of an unsupported shape.
ServerAtoms(path, owner, server) ==
  IF ~server.supported THEN Opaque(path, owner, "entry", server.other) ELSE
  {Atom(path, "connect", owner, "", Switch(server.enabled)),
   Atom(path, "launch", owner, "", Launch(server))}
    \cup Environment(path, owner, server.env)
    \cup {Atom(path, "env-ref", owner, name, server.refs[name]) : name \in DOMAIN server.refs}
    \cup Setting(path, "auth", owner, server.auth)
    \cup Setting(path, "execution", owner, server.execution)
    \cup (IF server.resource = Unset THEN {} ELSE {Atom(path, "oauth-resource", owner, "", "ALLOW")})
    \cup Each(path, "oauth-scope", owner, server.scopes, "ALLOW")
    \cup Listed(path, "tool", owner, server.enabledTools, server.disabledTools)
    \cup Approvals(path, owner, server)
    \cup Opaque(path, owner, "fields", server.other)

Servers(path, servers) == UNION {ServerAtoms(path, owner, servers[owner]) : owner \in DOMAIN servers}

\* extractMcp.  A second container of servers is ambiguous and is kept whole.
McpAtoms(path, doc) ==
  Servers(path, doc.servers) \cup Opaque(path, "agent", "servers", doc.second)
    \cup Opaque(path, "agent", "root", doc.root)

-----------------------------------------------------------------------------
(* extractClaude.                                                            *)

\* addPermissionAtoms, once for each list; the last one that has a rule counts.
PermissionRules(path, doc) ==
  Listed(path, "rule", "agent", doc.allow \ doc.ask, doc.deny)
    \cup Each(path, "rule", "agent", doc.ask \ doc.deny, "ASK")

\* addBooleanExpansionControl: declared or not, there is an atom.
Control(path, kind, value, default) ==
  {Atom(path, kind, "agent", "", Switch(IF value \in {"yes", "no"} THEN value = "yes" ELSE default))}
    \cup (IF value \in {"yes", "no", Unset} THEN {}
          ELSE {Atom(path, "sandbox-opaque", "agent", kind, value)})

\* A sandbox that is a record; a document has at most one.  `other' stands for its settings and those of its
\* network that are not ordered, and for lists of a shape that is not supported.
Sandbox(path, sandbox) ==
  {Atom(path, "sandbox-enabled", "agent", "", IF sandbox.enabled THEN "on" ELSE "off")}
    \cup Setting(path, "fail-closed", "agent", sandbox.failClosed)
    \cup Control(path, "auto-allow", sandbox.autoAllow, TRUE)
    \cup Control(path, "escape", sandbox.escape, TRUE)
    \cup Control(path, "weaker-nested", sandbox.weakerNested, FALSE)
    \cup Each(path, "excluded", "agent", sandbox.excluded, "ALLOW")
    \cup Each(path, "host", "agent", sandbox.hosts, "ALLOW")
    \cup Each(path, "unix-socket", "agent", sandbox.sockets, "ALLOW")
    \cup Control(path, "all-sockets", sandbox.allSockets, FALSE)
    \cup Control(path, "local-binding", sandbox.localBinding, FALSE)
    \cup (IF sandbox.other = Unset THEN {}
          ELSE {Atom(path, "sandbox-opaque", "agent", "other", sandbox.other)})

\* addClaudeHooks: hooks are known by their event and their place.
SecurityEvents == {"PreToolUse", "PermissionRequest"}
Hooks(path, hooks) ==
  {Atom(path, IF place[1] \in SecurityEvents THEN "guard-hook" ELSE "hook", place[1], place[2], hooks[place]) :
     place \in DOMAIN hooks}

\* `managed' stands for the sections that are not normalized, a sandbox that is
\* no record included.
ClaudeAtoms(path, doc) ==
  PermissionRules(path, doc)
    \cup {Atom(path, "default-mode", "agent", "", IF doc.mode = Unset THEN "default" ELSE doc.mode)}
    \cup (IF doc.bypass = Unset THEN {}
          ELSE {Atom(path, "disable-bypass", "agent", "", Switch(doc.bypass # "disable"))})
    \cup Each(path, "directory", "agent", doc.directories, "ALLOW")
    \cup (UNION {Sandbox(path, sandbox) : sandbox \in doc.sandbox})
    \cup OptionalSwitch(path, "all-mcp", doc.allMcp)
    \cup Listed(path, "mcp-server", "agent", doc.enabledServers, doc.disabledServers)
    \cup Listed(path, "plugin", "agent", doc.enabledPlugins, doc.disabledPlugins)
    \cup Environment(path, "session", doc.env)
    \cup Servers(path, doc.servers)
    \cup Hooks(path, doc.hooks)
    \cup Setting(path, "model", "agent", doc.model)
    \cup Opaque(path, "agent", "managed", doc.managed)

-----------------------------------------------------------------------------
(* extractCodex.                                                             *)

\* shell_environment_policy, when there is one.
ShellEnvironment(path, shell) ==
  {Atom(path, "inherit", "agent", "", IF shell.inherit = Unset THEN "core" ELSE shell.inherit)}
    \cup OptionalSwitch(path, "keep-secrets", shell.keepSecrets)
    \cup Environment(path, "shell", shell.set)

CodexAtoms(path, doc) ==
  {Atom(path, "sandbox-mode", "agent", "", IF doc.mode = Unset THEN "read-only" ELSE doc.mode),
   Atom(path, "network", "agent", "", Switch(doc.network)),
   Atom(path, "approval-policy", "agent", "", IF doc.approval = Unset THEN "unknown" ELSE doc.approval),
   Atom(path, "reviewer", "agent", "", IF doc.reviewer = Unset THEN "user" ELSE doc.reviewer)}
    \cup Each(path, "root", "agent", doc.roots, "ALLOW")
    \cup (UNION {ShellEnvironment(path, shell) : shell \in doc.shell})
    \cup Servers(path, doc.servers)
    \cup Setting(path, "model", "agent", doc.model)
    \cup Opaque(path, "agent", "features", doc.features)

-----------------------------------------------------------------------------
(* discoverInternal.                                                         *)

\* A revision maps paths to documents.  One that is too large, does not parse
\* or whose root is no object is a gap, and declares nothing that is known.
Gaps(revision) == {path \in DOMAIN revision : revision[path].platform = "unreadable"}
Atoms(path, doc) ==
  CASE doc.platform = "mcp"         -> McpAtoms(path, doc)
    [] doc.platform = "claude-code" -> ClaudeAtoms(path, doc)
    [] doc.platform = "codex"       -> CodexAtoms(path, doc)
    [] OTHER                        -> {}
AtomsOf(revision) == UNION {Atoms(path, revision[path]) : path \in DOMAIN revision}

\* beforeByKey and afterByKey.
Declared(revision) ==
  LET atoms == AtomsOf(revision)
  IN [key \in {a.key : a \in atoms} |-> (CHOOSE a \in atoms : a.key = key).value]
=============================================================================
