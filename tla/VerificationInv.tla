---------------------------- MODULE VerificationInv ----------------------------
(***************************************************************************)
(* Why what Verification claims holds: what is true of a run between any   *)
(* two of its steps.                                                       *)
(***************************************************************************)
EXTENDS Verification

Phases == {"tools", "source", "make", "compare", "before", "run", "cleanup", "after", "done"}
SawSet == [commit : Nat, overlay : BOOLEAN, altered : BOOLEAN]
CmdSet == [phase : Phases, dir : Dirs, network : BOOLEAN, summary : BOOLEAN,
           outcome : Outcomes, saw : SawSet]
Observations == [stage : CommandStages, outcome : Outcomes, saw : SawSet]
ReceiptSet == [signer : {"developer", "stranger"}, intact : BOOLEAN, status : Statuses,
               base : Nat, head : Nat, policy : Policies]
Rules == {"workspace", "preserved", "harness", "tests-pass", "differential-test", "review-mode",
          "review-head", "review-worktree", "review-setup", "review", "review-test"}
Receipts == ReceiptSet \cup {NoReceipt}
RunSet == [mode : Modes, profile : Profiles, policy : Policies, head : Nat, base : Nat,
           receipt : Receipts, snapshot : BOOLEAN, undone : BOOLEAN,
           observed : SUBSET Observations, todo : SUBSET Stages, results : SUBSET CheckSet(Rules)]

TypeOK ==
  /\ isolated \in BOOLEAN /\ container \in BOOLEAN /\ stray \in BOOLEAN
  /\ replaced \in {"none", "docker", "runtime"}
  /\ tree \in [Dirs -> TreeSet(Nat)]
  /\ box \in [Dirs -> [commit : Nat, state : {"none", "debris", "intact", "touched"}]]
  /\ cmd \in CmdSet \cup {NoCmd}
  /\ log \in Seq([code : Codes, receipt : Receipts, parent : Nat])
  /\ tip \in Commits /\ base \in Commits
  /\ issued \subseteq ReceiptSet /\ \A r \in issued : r.head \in Commits
  /\ run \in RunSet \cup {NoRun}
  /\ run # NoRun => run.head \in Commits /\ run.base \in Commits

-----------------------------------------------------------------------------
\* What no report passes with.
Denied(results) ==
  \E c \in results : c.verdict = "contradicted" \/ (c.verdict = "unverifiable" /\ c.blocks)

Observed(stage, outcomes) == \E o \in run.observed : o.stage = stage /\ o.outcome \in outcomes

\* A stage is observed once, and only a stage that is over.
PlanTrue ==
  run # NoRun =>
    /\ report = NoReport
    /\ \A o \in run.observed : o.stage \notin run.todo
    /\ \A o, p \in run.observed : o.stage = p.stage => o = p
    /\ run.mode # "verify" => run.policy = "trusted"
    /\ "test" \in run.todo => "preserved" \in run.todo
    /\ "head-setup" \in run.todo => "base-setup" \in run.todo
    /\ "head-test" \in run.todo => "base-test" \in run.todo
    /\ "base-test" \in run.todo => "head-test" \in run.todo \/ Observed("head-test", Outcomes)

\* The command in progress is the current stage's, and only while it runs, or
\* until it is cleaned up, may its container exist.
CommandTrue ==
  /\ container => cmd.phase \in {"run", "cleanup"}
  /\ cmd # NoCmd =>
       \E s \in CommandStages :
         Current(s) /\ cmd.dir = DirOf(s) /\ cmd.network = (s \in SetupStages)

\* The command has read its worktree or its clone of it.
HasRead ==
  /\ cmd # NoCmd /\ ~cmd.network
  /\ cmd.phase \in {"run", "cleanup", "after"} \/ (cmd.phase = "done" /\ cmd.outcome # "error")

\* A test reads the head's content, or the worktree no longer is the head's and
\* stays different until it is looked at, or somebody took it back.
HeadContent == [commit |-> run.head, overlay |-> FALSE, altered |-> FALSE]
ReadTrue ==
  /\ ~tree["repo"].overlay /\ ~tree["candidate"].overlay
  /\ HasRead /\ cmd.dir \in {"repo", "candidate"} =>
       cmd.saw = HeadContent \/ run.undone \/ ~Exactly(tree[cmd.dir])
  /\ run # NoRun => \A o \in run.observed :
       o.outcome = "passed" /\ o.saw # HeadContent /\ ~run.undone /\ ~Denied(run.results) =>
         /\ o.stage = "test" => "preserved" \in run.todo /\ ~Exactly(tree["repo"])
         /\ o.stage \notin {"review", "review-test"}

\* The check of the candidate's tests is there once their stage is over, and
\* verified only by a run that passed.
TestedTrue ==
  run # NoRun =>
    /\ run.mode = "verify" \/ "test" \in run.todo
         \/ (run.mode = "maintainer" /\ run.profile.review = "test")
         \/ \E c \in run.results : c.rule = "tests-pass"
    /\ \A c \in run.results :
         c.rule = "tests-pass" /\ c.verdict = "verified" =>
           Observed("test", {"passed"}) \/ Observed("review-test", {"passed"})

\* A gate's receipt is one a developer's run issued or one that says so itself.
ReceiptTrue ==
  run # NoRun /\ run.mode = "gate" =>
    \/ run.receipt \in issued
    \/ /\ run.receipt # NoReceipt
       /\ run.receipt.signer = "stranger" \/ ~run.receipt.intact \/ run.receipt.status # "PASS"

\* In isolation the two worktrees of a comparison are the head's and the base's
\* with the tests the policy wants there, and so is what the commands read.
Compared == [head |-> Clean(run.head, FALSE), base |-> Clean(run.base, run.profile.overlay)]
ComparisonTrue ==
  run # NoRun /\ isolated =>
    /\ "trees" \notin run.todo /\ run.todo \cap DiffStages # {} =>
         tree["head"] = Compared.head /\ tree["base"] = Compared.base
    /\ HasRead /\ cmd.dir \in {"head", "base"} =>
         cmd.saw = SawTree(tree[cmd.dir])
    /\ \A o \in run.observed :
         o.outcome # "error" =>
           /\ o.stage = "head-test" => o.saw = SawTree(Compared.head)
           /\ o.stage = "base-test" => o.saw = SawTree(Compared.base)
    /\ Verified("differential-test") \in run.results =>
         /\ \E o \in run.observed : o.stage = "head-test" /\ ExitedZero(o.outcome)
         /\ Observed("base-test", {"failed"})

\* A container that was left behind is the work of a command whose error denies
\* the report, at once or when the two sides of a comparison are looked at.
StrayTrue ==
  run # NoRun /\ stray =>
    \/ cmd.phase \in {"after", "done"} /\ cmd.outcome = "error"
    \/ Denied(run.results)
    \/ "base-setup" \in run.todo /\ Observed("head-setup", {"error"})
    \/ "base-test" \in run.todo /\ Observed("head-test", {"error"})

\* What the last report claims.
ReportTrue ==
  /\ report.mode = "gate" /\ report.status = "PASS" => report.head \in Commits
  /\ PassedAsCommitted /\ GatePassIsBacked /\ RegressionShown /\ NothingLeftRunning
  /\ AuthorityKept

IndInv ==
  /\ TypeOK /\ PlanTrue /\ CommandTrue /\ ReadTrue /\ TestedTrue
  /\ ReceiptTrue /\ ComparisonTrue /\ StrayTrue /\ ReportTrue
=============================================================================
