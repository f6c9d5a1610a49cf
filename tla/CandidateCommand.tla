--------------------------- MODULE CandidateCommand ---------------------------
(***************************************************************************)
(* runCandidateCommand: one command of the candidate, run by the verifier  *)
(* in a Git worktree.  A local command runs in the worktree itself.  An    *)
(* isolated one runs in a container that sees a private clone of the       *)
(* worktree's HEAD, made once per worktree and reused by later commands.   *)
(* The steps of one command are separate actions: between any two of them  *)
(* an editor, a process an earlier command left behind or the command      *)
(* itself may change the worktree.                                         *)
(***************************************************************************)
EXTENDS Verdict

CONSTANTS Dirs      \* worktrees a command may run in; "repo" is the selected one

VARIABLES isolated,  \* AGENT_VIGIL_INTERNAL_ISOLATE_CANDIDATE
          tree,      \* each worktree's HEAD and Git-visible difference from it
          box,       \* candidateSandboxes: each worktree's private clone
          container, \* the command's container exists
          stray,     \* a container was left behind by a command that has ended
          replaced,  \* which trusted binary was replaced: "docker", "runtime" or "none"
          cmd        \* the command in progress
commandVars == <<isolated, tree, box, container, stray, replaced, cmd>>

\* What differs from HEAD: nothing, the receipt file alone, an untracked file,
\* a tracked file.  overlay: the candidate's changed tests were copied in.  (What
\* else the paths of the changed tests may hold, which a clone takes over from
\* the base's worktree as it finds it, is not told apart.)
Differences == {"none", "receipt", "untracked", "tracked"}
TreeSet(commits) == [commit: commits, overlay: BOOLEAN, differs: Differences]
NoTree  == [commit |-> 0, overlay |-> FALSE, differs |-> "none"]
Clean(commit, overlay) == [commit |-> commit, overlay |-> overlay, differs |-> "none"]

\* A sandbox: none, a directory left by a failed materialization, or a clone
\* whose protected (tracked and overlaid) files are intact or not.
NoBox  == [commit |-> 0, state |-> "none"]
Debris == [commit |-> 0, state |-> "debris"]

\* saw: what the command has read - the commit and overlay, and whether some
\* tracked file differed while it ran.
NoCmd == [phase |-> "none"]
Running == cmd.phase = "run"
Nothing == [commit |-> 0, overlay |-> FALSE, altered |-> FALSE]
SawTree(t) == [commit |-> t.commit, overlay |-> t.overlay, altered |-> t.differs = "tracked"]

CommandInit ==
  /\ isolated = FALSE /\ container = FALSE /\ stray = FALSE /\ replaced = "none"
  /\ tree = [d \in Dirs |-> NoTree] /\ box = [d \in Dirs |-> NoBox] /\ cmd = NoCmd

\* network: it is a setup command; summary: its output is read as a test run's.
Begin(dir, network, summary) ==
  cmd' = [phase |-> IF isolated THEN "tools" ELSE "run", dir |-> dir, network |-> network,
          summary |-> summary, outcome |-> "error",
          saw |-> IF isolated THEN Nothing ELSE SawTree(tree[dir])]

At(phase)    == cmd.phase = phase
GoTo(phase)  == cmd' = [cmd EXCEPT !.phase = phase]
GiveUp       == cmd' = [cmd EXCEPT !.phase = "done", !.outcome = "error"]
\* A check that failed ends the command with an error, else it goes on.
Require(ok, phase) == IF ok THEN GoTo(phase) ELSE GiveUp

\* sourceStateError: the worktree differs from HEAD outside the overlay.
SourceClean(dir) == tree[dir].differs = "none"

\* trustedRuntimeIsIntact and executableIsIntact, before anything else.
CheckTools ==
  /\ At("tools") /\ Require(replaced = "none", "source")
  /\ UNCHANGED <<isolated, tree, box, container, stray, replaced>>

\* candidateSandbox: a dirty source is refused before a clone is looked up.
LookUpSandbox ==
  /\ At("source")
  /\ LET have == box[cmd.dir].state
     IN Require(SourceClean(cmd.dir) /\ have # "debris",
                IF have = "none" THEN "make" ELSE "before")
  /\ UNCHANGED <<isolated, tree, box, container, stray, replaced>>

\* mkdir, fetch and check out the commit HEAD names now, copy the overlay.  A
\* failure leaves the directory behind.
MakeSandbox ==
  /\ At("make")
  /\ \/ /\ box' = [box EXCEPT ![cmd.dir] = [commit |-> tree[cmd.dir].commit, state |-> "intact"]]
        /\ GoTo("compare")
     \/ box' = [box EXCEPT ![cmd.dir] = Debris] /\ GiveUp
  /\ UNCHANGED <<isolated, tree, container, stray, replaced>>

\* The source's HEAD is read again; a clone that lost the race is not kept in
\* the map, its directory is.
CompareSandbox ==
  /\ At("compare")
  /\ LET same == tree[cmd.dir].commit = box[cmd.dir].commit
     IN /\ Require(same, "before")
        /\ box' = IF same THEN box ELSE [box EXCEPT ![cmd.dir] = Debris]
  /\ UNCHANGED <<isolated, tree, container, stray, replaced>>

\* sandboxIntegrityError: the source still is the clone's commit and nothing
\* else, and no protected file of the clone was touched.
SandboxIntact(dir) ==
  /\ tree[dir].commit = box[dir].commit
  /\ SourceClean(dir)
  /\ box[dir].state = "intact"

StartContainer ==
  /\ At("before")
  /\ IF SandboxIntact(cmd.dir)
     THEN /\ container' = TRUE
          /\ cmd' = [cmd EXCEPT !.phase = "run",
                       !.saw = [commit  |-> box[cmd.dir].commit, overlay |-> tree[cmd.dir].overlay,
                                altered |-> box[cmd.dir].state = "touched"]]
     ELSE GiveUp /\ UNCHANGED container
  /\ UNCHANGED <<isolated, tree, box, stray, replaced>>

\* A setup command has the network and a writable mount: it may touch the
\* protected files of its clone.  Every other mount is read-only.
SetupWrites ==
  /\ Running /\ isolated /\ cmd.network /\ box[cmd.dir].state = "intact"
  /\ box' = [box EXCEPT ![cmd.dir].state = "touched"]
  /\ cmd' = [cmd EXCEPT !.saw.altered = TRUE]
  /\ UNCHANGED <<isolated, tree, container, stray, replaced>>

\* The command ends.  Behind its wrapper a time limit, a flood of output and a
\* signal are errors.  The container outlives a client that is killed, which is
\* an error, or that loses the daemon, which is an exit code like any other.
CommandEnds(outcome, lives) ==
  /\ Running /\ (lives => isolated /\ outcome \in {"error", "failed"})
  /\ cmd.summary \/ outcome \in {"error", "failed", "passed"}
  /\ cmd' = [cmd EXCEPT !.phase = IF isolated THEN "cleanup" ELSE "done", !.outcome = outcome]
  /\ container' = lives
  /\ UNCHANGED <<isolated, tree, box, stray, replaced>>

\* docker rm --force; when it fails the container must be reported absent.  A
\* replaced docker is not asked at all.
CleanUp(removed, absent) ==
  /\ At("cleanup")
  /\ removed => container
  /\ absent => ~container
  /\ LET asked == replaced # "docker"
     IN /\ stray' = (stray \/ (container /\ ~(asked /\ removed))) /\ container' = FALSE
        /\ cmd' = [cmd EXCEPT !.phase = "after",
                     !.outcome = IF asked /\ (removed \/ absent) THEN @ ELSE "error"]
  /\ UNCHANGED <<isolated, tree, box, replaced>>

\* sandboxIntegrityError again, then the runtime.
CheckAfter ==
  /\ At("after")
  /\ Require(SandboxIntact(cmd.dir) /\ replaced # "runtime", "done")
  /\ UNCHANGED <<isolated, tree, box, container, stray, replaced>>

\* A trusted binary is replaced while a command runs.
ReplaceBinary(which) ==
  /\ Running /\ isolated /\ replaced = "none"
  /\ replaced' = which
  /\ UNCHANGED <<isolated, tree, box, container, stray, cmd>>

\* Somebody other than the verifier changes a worktree: its HEAD or what
\* differs from it.  The verifier's temporary worktrees are out of reach when
\* commands are isolated.
ChangeTree(dir, commit, differs) ==
  /\ tree[dir] # NoTree
  /\ dir = "repo" \/ ~isolated
  /\ differs = "receipt" => dir = "repo"
  /\ (tree[dir].commit = commit) # (tree[dir].differs = differs)
  /\ tree' = [tree EXCEPT ![dir].commit = commit, ![dir].differs = differs]
  /\ cmd' = IF Running /\ ~isolated /\ cmd.dir = dir
               /\ SawTree(tree[dir]) # SawTree(tree'[dir])
            THEN [cmd EXCEPT !.saw.altered = TRUE] ELSE cmd
  /\ UNCHANGED <<isolated, box, container, stray, replaced>>

CommandStep ==
  \/ CheckTools \/ LookUpSandbox \/ MakeSandbox \/ CompareSandbox \/ StartContainer \/ SetupWrites
  \/ \E outcome \in Outcomes, lives \in BOOLEAN : CommandEnds(outcome, lives)
  \/ \E removed, absent \in BOOLEAN : CleanUp(removed, absent)
  \/ CheckAfter
  \/ \E which \in {"docker", "runtime"} : ReplaceBinary(which)
=============================================================================
