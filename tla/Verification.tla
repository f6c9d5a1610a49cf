----------------------------- MODULE Verification -----------------------------
(***************************************************************************)
(* The verifier: `vigil` on the developer's machine, which signs a         *)
(* portable receipt, and `vigil gate`, `vigil merge-group` and             *)
(* `vigil maintainer` in CI.  One run selects a base and a head, binds the *)
(* worktree to the head, runs the candidate's commands, looks at the       *)
(* worktree again and reports.  Between the runs the branch and the base   *)
(* move, and the receipt travels in the branch.                            *)
(***************************************************************************)
EXTENDS CandidateCommand, AuthorityPlan, Sequences

CONSTANTS Codes,       \* the contents a commit may have, the receipt file aside
          Policies,    \* policies a run may load; "trusted" is the base's
          Profiles,    \* what the trusted policy may ask of a CI run
          Pinned,      \* signers the trusted policy pins
          MaxCommits,  \* bound: commits before the first run; each run allows one more
          MaxRuns,     \* bound: runs of the verifier
          MaxEdits     \* bound: changes to worktrees during one run, undoing aside

ASSUME VerificationAssumption ==
  /\ {"repo", "head", "base", "candidate"} \subseteq Dirs
  /\ Codes # {} /\ "trusted" \in Policies /\ "stranger" \notin Pinned
  /\ Profiles \subseteq [differential : BOOLEAN, overlay : BOOLEAN,
                        review : {"none", "commands", "test"}, setup : BOOLEAN,
                        integrity : {"advisory", "calibrated", "blocking"}, strict : BOOLEAN]

VARIABLES log,     \* the commits: content, committed receipt, parent
          tip,     \* the branch under review
          base,    \* the target branch
          issued,  \* receipts a developer's run signed
          run,     \* the run in progress
          report,  \* the last report
          runs,    \* runs started
          edits    \* changes to worktrees in this run

verifierVars == <<log, tip, base, issued, run, report, runs, edits>>
vars == <<commandVars, verifierVars>>

NoReceipt == [head |-> 0]
NoRun     == [mode |-> "none"]
NoReport  == [mode |-> "none", status |-> "INCONCLUSIVE"]
Modes     == {"verify", "gate", "merge_group", "maintainer"}

Commits == DOMAIN log
Ancestors[c \in 0..Len(log)] == IF c = 0 THEN {} ELSE {c} \cup Ancestors[log[c].parent]

-----------------------------------------------------------------------------
(* Receipts.                                                                 *)

\* createPortableReceipt, and what may be presented in its place: a receipt of
\* an unpinned signer, a developer's whose content was changed, or one of a run
\* that did not pass.  (As a bound, these are tried while there is no genuine one.)
Receipt(signer, intact, status, from, to, policy) ==
  [signer |-> signer, intact |-> intact, status |-> status,
   base |-> from, head |-> to, policy |-> policy]
Forged ==
  { Receipt("stranger", TRUE, "PASS", base, tip, "trusted"),
    Receipt("developer", FALSE, "PASS", base, tip, "trusted"),
    Receipt("developer", TRUE, "INCONCLUSIVE", base, tip, "trusted") }
Presentable == IF issued = {} THEN Forged ELSE issued

\* Mutated form of ReceiptOnlyTail: any descendant of the receipt's head will do.
AnyTail(r, head) == r.head \in Ancestors[head]

\* The commits after the receipt's head change nothing but the receipt.
ReceiptOnlyTail(r, head) ==
  /\ r.head \in Ancestors[head]
  /\ log[r.head].code = log[head].code
  /\ log[r.head].receipt # log[head].receipt

GitBound(r, from, head) ==
  /\ r.base = from
  /\ r.head = head \/ ReceiptOnlyTail(r, head)

\* The first half of buildPortableGateReport.  (A receipt's tree and remote are
\* those of its head; the policy names the receipt's path.)
Checked(ok, rule) == {IF ok THEN Verified(rule) ELSE Contradicted(rule)}
GateChecks(r, from, head, snapshot) ==
  Checked(r.intact, "portable-signature")
    \cup (IF Pinned = {} THEN {Blocked("portable-signer")}
          ELSE Checked(r.signer \in Pinned, "portable-signer"))
    \cup {CASE r.status = "PASS" -> Verified("portable-local-verdict")
            [] r.status = "FAIL" -> Contradicted("portable-local-verdict")
            [] OTHER             -> Blocked("portable-local-verdict")}
    \cup Checked(r.policy = "trusted", "portable-policy")
    \cup Checked(~snapshot \/ log[head].receipt = r, "portable-path")
    \cup Checked(GitBound(r, from, head), "portable-git-binding")

-----------------------------------------------------------------------------
(* The plan of a run: its stages in order.                                   *)

DiffStages   == {"trees", "head-setup", "base-setup", "head-test", "base-test"}
ReviewStages == {"checkout", "review-setup", "ready", "review", "review-test"}
SetupStages  == {"setup", "head-setup", "base-setup", "review-setup"}
TestStages   == {"test", "head-test", "base-test", "review", "review-test"}
CommandStages == SetupStages \cup TestStages

\* The worktree a stage's command runs in.
DirOf(stage) ==
  CASE stage \in {"head-setup", "head-test"} -> "head"
    [] stage \in {"base-setup", "base-test"} -> "base"
    [] stage \in ReviewStages                -> "candidate"
    [] OTHER                                 -> "repo"

Stages == CommandStages \cup {"bind", "trees", "checkout", "ready", "preserved", "conclude"}
\* The order in which a run reaches its stages.
Rank(stage) ==
  CASE stage = "bind" -> 1       [] stage = "trees" -> 2         [] stage = "head-setup" -> 3
    [] stage = "base-setup" -> 4 [] stage = "head-test" -> 5     [] stage = "base-test" -> 6
    [] stage = "checkout" -> 7   [] stage = "review-setup" -> 8  [] stage = "ready" -> 9
    [] stage = "review" -> 10    [] stage = "review-test" -> 11  [] stage = "setup" -> 12
    [] stage = "test" -> 13      [] stage = "preserved" -> 14    [] stage = "conclude" -> 15

\* A candidate that changed the test harness is not run at all in isolation,
\* and neither compared nor reviewed anywhere.
Wanted(mode, profile, sealed, harness, tests) ==
  LET maintained == mode = "maintainer" /\ harness
      reviewed   == maintained /\ profile.review # "none"
  IN {"bind", "conclude"}
       \cup (IF maintained /\ profile.differential THEN DiffStages ELSE {})
       \cup (IF reviewed THEN {"checkout", "ready", "review-setup", "review"} ELSE {})
       \cup (IF reviewed /\ profile.review = "test" THEN {"review-test"} ELSE {})
       \cup (IF tests /\ ~(mode = "maintainer" /\ profile.review = "test") /\ (sealed => harness)
             THEN {"test"} \cup (IF sealed THEN {"setup"} ELSE {}) ELSE {})
       \cup (IF tests \/ mode # "maintainer" THEN {"preserved"} ELSE {})
Plan(mode, profile, sealed, harness, tests) ==
  Wanted(mode, profile, sealed, harness, tests) \ (IF profile.setup THEN {} ELSE SetupStages)

\* What the plan leaves out for a harness that is not the base's.
HarnessChecks(mode, profile, sealed, harness, tests) ==
  LET compares == mode = "maintainer" /\ (profile.differential \/ profile.review # "none")
  IN (IF compares THEN {IF harness THEN Noted("harness") ELSE Blocked("harness")} ELSE {})
       \cup (IF tests /\ ~harness /\ sealed /\ ~(mode = "maintainer" /\ profile.review = "test")
             THEN {Blocked("tests-pass")} ELSE {})

-----------------------------------------------------------------------------
Init ==
  /\ CommandInit
  /\ log = <<[code |-> CHOOSE c \in Codes : TRUE, receipt |-> NoReceipt, parent |-> 0]>>
  /\ tip = 1 /\ base = 1 /\ issued = {} /\ run = NoRun /\ report = NoReport /\ runs = 0 /\ edits = 0

Idle == run = NoRun
Add(commit) == log' = Append(log, commit) /\ Len(log) < MaxCommits + runs

\* The branch gets a commit of code, or of a developer's receipt alone.
CommitCode(code) ==
  /\ code # log[tip].code /\ Add([code |-> code, receipt |-> log[tip].receipt, parent |-> tip])
  /\ tip' = Len(log')
  /\ UNCHANGED <<commandVars, base, issued, run, report, runs, edits>>

CommitReceipt(r) ==
  /\ log[tip].receipt # r
  /\ Add([log[tip] EXCEPT !.receipt = r, !.parent = tip])
  /\ tip' = Len(log')
  /\ UNCHANGED <<commandVars, base, issued, run, report, runs, edits>>

\* Somebody else's change is merged into the target branch.
MoveBase(code) ==
  /\ code # log[base].code /\ Add([code |-> code, receipt |-> log[base].receipt, parent |-> base])
  /\ base' = Len(log')
  /\ UNCHANGED <<commandVars, tip, issued, run, report, runs, edits>>

\* A run starts with its refs and its policy resolved, in a fresh checkout or in
\* a worktree that differs from its HEAD.
Started(mode, sealed, harness, profile, policy, receipt, snapshot, differs) ==
  /\ LET tests == policy = "trusted"
     IN run' = [mode |-> mode, profile |-> profile, policy |-> policy, head |-> tip, base |-> base,
                receipt |-> receipt, snapshot |-> snapshot, undone |-> FALSE, observed |-> {},
                todo |-> Plan(mode, profile, sealed, harness, tests),
                results |-> HarnessChecks(mode, profile, sealed, harness, tests)]
  /\ isolated' = sealed
  /\ tree' = [tree EXCEPT !["repo"] = [Clean(tip, FALSE) EXCEPT !.differs = differs]]
  /\ stray' = FALSE /\ report' = NoReport /\ runs' = runs + 1
  /\ edits' = IF differs = "none" THEN 0 ELSE 1
  /\ UNCHANGED <<log, tip, base, issued, box, container, replaced, cmd>>

Ordinary(profile) == ~profile.differential /\ profile.review = "none"

\* The developer's own run: local, in the developer's worktree, under a policy
\* that need not be the base's - one without a test command for instance.
StartVerify(profile, policy, differs) ==
  /\ runs = 0 /\ Ordinary(profile)
  /\ Started("verify", FALSE, TRUE, profile, policy, NoReceipt, FALSE, differs)

\* CI's runs.  harness: the branch left the base's test harness alone; only
\* isolated runs and `vigil maintainer` ask.  As a bound, a second run is
\* one that the receipt of a developer's run that passed made possible.
StartGate(sealed, harness, profile, receipt, snapshot) ==
  /\ runs > 0 => \E r \in issued : r.status = "PASS"
  /\ Ordinary(profile) /\ (sealed \/ harness)
  /\ Started("gate", sealed, harness, profile, "trusted", receipt, snapshot, "none")
StartMergeGroup(sealed, harness, profile) ==
  /\ runs = 0 /\ Ordinary(profile) /\ (sealed \/ harness)
  /\ Started("merge_group", sealed, harness, profile, "trusted", NoReceipt, FALSE, "none")
StartMaintainer(sealed, harness, profile) ==
  /\ runs = 0 /\ ~Ordinary(profile)
  /\ Started("maintainer", sealed, harness, profile, "trusted", NoReceipt, FALSE, "none")

-----------------------------------------------------------------------------
(* The stages.                                                               *)

Current(s) == run # NoRun /\ s \in run.todo /\ \A t \in run.todo : Rank(s) <= Rank(t)
Stage(s) == Current(s) /\ cmd = NoCmd
\* The stage s is over with these checks, and these later stages are given up.
Advance(s, checks, dropped) ==
  run' = [run EXCEPT !.results = @ \cup checks, !.todo = @ \ (dropped \cup {s})]
Continue == UNCHANGED <<log, tip, base, issued, report, runs, edits>>
Still    == UNCHANGED <<isolated, box, container, stray, replaced, cmd>>

\* The receipt file is an input of a gate that judges the receipt's own head,
\* and of the run that writes it.
Ignored == IF run.mode = "verify" \/ (run.mode = "gate" /\ run.receipt.head = run.head)
           THEN {"none", "receipt"} ELSE {"none"}

\* checkWorkspaceBinding.
Bind ==
  /\ Stage("bind")
  /\ LET bound == tree["repo"].commit = run.head /\ tree["repo"].differs \in Ignored
     IN Advance("bind", {IF bound THEN Noted("workspace") ELSE Blocked("workspace")}, {})
  /\ Still /\ Continue /\ UNCHANGED tree

\* Mutated form of WorkspaceKept: files are compared with whatever HEAD is now.
WorkspaceKeptDiffOnly == tree["repo"].differs \in Ignored \cup {"untracked"}

\* checkWorkspaceMutation: HEAD, and tracked files only.
WorkspaceKept ==
  /\ tree["repo"].commit = run.head
  /\ tree["repo"].differs \in Ignored \cup {"untracked"}

Preserved ==
  /\ Stage("preserved")
  /\ Advance("preserved", {IF WorkspaceKept THEN Noted("preserved") ELSE Blocked("preserved")}, {})
  /\ Still /\ Continue /\ UNCHANGED tree

\* The worktrees of checkDifferentialTest.  Unless overlayChangedTests is false
\* the changed tests are copied over the base's, and without one it ends here.
\* made: both worktrees could be added, and overlaid if that is asked.
MakeTrees(changedTests, made) ==
  /\ Stage("trees")
  /\ LET overlay == run.profile.overlay
         able    == overlay => changedTests
     IN /\ tree' = IF able /\ made
                   THEN [tree EXCEPT !["head"] = Clean(run.head, FALSE),
                                     !["base"] = Clean(run.base, overlay)]
                   ELSE tree
        /\ CASE ~able          -> Advance("trees", {Contradicted("differential-test")}, DiffStages)
             [] able /\ ~made  -> Advance("trees", {Blocked("differential-test")}, DiffStages)
             [] able /\ made   -> Advance("trees", {}, {})
  /\ Still /\ Continue

\* The worktree of checkAutomatedReview.
Checkout ==
  /\ Stage("checkout")
  /\ tree' = [tree EXCEPT !["candidate"] = Clean(run.head, FALSE)]
  /\ Advance("checkout", {Noted("review-mode")}, {})
  /\ Still /\ Continue

\* HEAD and the tracked files of the review's worktree, looked at after the
\* setup and after every command.
ReviewMoved   == tree["candidate"].commit # run.head
ReviewTouched == tree["candidate"].differs = "tracked"

Ready ==
  /\ Stage("ready")
  /\ CASE ReviewMoved   -> Advance("ready", {Blocked("review-head")}, ReviewStages)
       [] ReviewTouched -> Advance("ready", {Contradicted("review-worktree")}, ReviewStages)
       [] OTHER         -> Advance("ready", {}, {})
  /\ Still /\ Continue /\ UNCHANGED tree

BeginCommand(s) ==
  /\ Stage(s) /\ s \in CommandStages
  /\ Begin(DirOf(s), s \in SetupStages, s \in {"test", "review-test"})
  /\ UNCHANGED <<isolated, tree, box, container, stray, replaced, run>> /\ Continue

\* The command of the current stage has ended: what it observed is kept.
Ended(s) == Current(s) /\ cmd.phase = "done"
Saw(s) == [stage |-> s, outcome |-> cmd.outcome, saw |-> cmd.saw]
OutcomeOf(s) == (CHOOSE o \in run.observed : o.stage = s).outcome
Observe(s, checks, dropped) ==
  /\ run' = [run EXCEPT !.results = @ \cup checks, !.observed = @ \cup {Saw(s)},
                        !.todo = @ \ (dropped \cup {s})]
  /\ cmd' = NoCmd
  /\ UNCHANGED <<isolated, box, container, stray, replaced>> /\ Continue

\* checkTestsPass.
SetUp ==
  /\ Ended("setup")
  /\ IF ExitedZero(cmd.outcome) THEN Observe("setup", {}, {})
     ELSE Observe("setup", {Blocked("tests-pass")}, {"test"})
  /\ UNCHANGED tree
Test ==
  /\ Ended("test") /\ Observe("test", {TestCheck(cmd.outcome)}, {})
  /\ UNCHANGED tree

\* checkDifferentialTest runs both commands before it looks at either; its
\* worktrees are removed on every way out.
Removed(dirs) == tree' = [d \in Dirs |-> IF d \in dirs THEN NoTree ELSE tree[d]]
HeadSide(s) ==
  /\ s \in {"head-setup", "head-test"} /\ Ended(s) /\ Observe(s, {}, {})
  /\ UNCHANGED tree
BaseSetUp ==
  /\ Ended("base-setup")
  /\ IF ExitedZero(cmd.outcome) /\ ExitedZero(OutcomeOf("head-setup"))
     THEN Observe("base-setup", {}, {}) /\ UNCHANGED tree
     ELSE Observe("base-setup", {Blocked("differential-test")}, DiffStages) /\ Removed({"head", "base"})
\* matched: the base's failure is the one the policy's pattern describes.
Compare(matched) ==
  /\ Ended("base-test")
  /\ LET check == DifferentialCheck(OutcomeOf("head-test"), cmd.outcome)
     IN Observe("base-test", {IF matched \/ check.verdict # "verified" THEN check
                 ELSE Contradicted("differential-test")}, {})
  /\ Removed({"head", "base"})

\* checkAutomatedReview: the test command's own check is kept before the
\* worktree is looked at.
ReviewSetUp ==
  /\ Ended("review-setup")
  /\ CASE ExitedZero(cmd.outcome) -> Observe("review-setup", {Noted("review-setup")}, {})
       [] cmd.outcome = "failed"  -> Observe("review-setup", {Contradicted("review-setup")}, ReviewStages)
       [] OTHER                   -> Observe("review-setup", {Blocked("review-setup")}, ReviewStages)
  /\ UNCHANGED tree
Review(s) ==
  /\ s \in {"review", "review-test"} /\ Ended(s)
  /\ LET tested == IF s = "review-test" THEN {TestCheck(cmd.outcome)} ELSE {}
         check == CASE ReviewMoved            -> Blocked("review-head")
                    [] ReviewTouched          -> Contradicted("review-worktree")
                    [] cmd.outcome = "error"  -> Blocked(s)
                    [] cmd.outcome = "failed" -> Contradicted(s)
                    [] OTHER                  -> Verified(s)
     IN Observe(s, tested \cup {check}, IF check.verdict = "verified" THEN {} ELSE ReviewStages)
  /\ UNCHANGED tree

-----------------------------------------------------------------------------
(* The report.                                                               *)

\* What else a mode's report rests on: the receipt, the event, the authority
\* plan, the scan of the diff, the transcript's and the event's claims.
Claims == {"none", "supported", "refuted", "doubtful"}
ClaimChecks(claim) ==
  CASE claim = "none"      -> {}
    [] claim = "supported" -> {Verified("claims")}
    [] claim = "refuted"   -> {Contradicted("claims")}
    [] claim = "doubtful"  -> {Unknown("claims")}
\* What the authority plan of the run's base and head comes to, in the modes
\* that make one.
NoPlan    == [status |-> "PASS", widened |-> FALSE]
PlansMade == IF run.mode \in {"merge_group", "maintainer"} THEN PlanOutcomes ELSE {NoPlan}
ModeChecks(plan) ==
  CASE run.mode = "verify" -> {ClaimChecks(claim) : claim \in Claims}
    [] run.mode = "gate"   -> {GateChecks(run.receipt, run.base, run.head, run.snapshot)}
    [] run.mode = "merge_group" ->
         {{Verified("merge-group-binding")}
            \cup Checked(run.base \in Ancestors[run.head], "merge-group-range")
            \cup PlanChecks(plan.status)}
    [] run.mode = "maintainer" ->
         {ClaimChecks(claim) \cup PlanChecks(plan.status) : claim \in Claims}

\* A review that ended before its test command leaves the tests unanswered.
Unreached ==
  IF run.mode = "maintainer" /\ run.profile.review = "test"
       /\ ~\E c \in run.results : c.rule = "tests-pass"
  THEN {Blocked("tests-pass")} ELSE {}

Results(plan) ==
  {run.results \cup Unreached \cup checks \cup IntegrityChecks(scan, run.profile.integrity) :
     checks \in ModeChecks(plan), scan \in Scans}

\* buildReport.  The gates are strict whatever the policy says.
Strict == run.mode \in {"gate", "merge_group"} \/ run.profile.strict
Report(results, plan) ==
  [mode |-> run.mode, strict |-> Strict, isolated |-> isolated, head |-> run.head, base |-> run.base,
   status |-> Status(results, 1, Strict), observed |-> run.observed,
   regression |-> Verified("differential-test") \in results, overlay |-> run.profile.overlay,
   undone |-> run.undone, widened |-> plan.widened]

\* The process ends: its temporary worktrees and what it remembered are gone,
\* a container that still runs is not.
Exit ==
  /\ run' = NoRun /\ cmd' = NoCmd /\ edits' = 0 /\ replaced' = "none" /\ container' = FALSE /\ stray' = (stray \/ container)
  /\ tree' = [d \in Dirs |-> NoTree] /\ box' = [d \in Dirs |-> NoBox]
  /\ UNCHANGED <<isolated, log, tip, base, runs>>

Conclude ==
  /\ Stage("conclude")
  /\ \E plan \in PlansMade : \E made \in {Report(results, plan) : results \in Results(plan)} :
       /\ report' = made
       /\ issued' = IF run.mode # "verify" THEN issued
            ELSE issued \cup {Receipt("developer", TRUE, made.status, run.base, run.head, run.policy)}
  /\ Exit

\* A trusted Git query throws, or the process dies: no report, no receipt.
Abort ==
  /\ run # NoRun
  /\ Exit /\ UNCHANGED <<report, issued>>

\* Somebody changes a worktree during the run, or takes it back to what the
\* verifier checked out.  undone: some worktree was taken back.
Exactly(t) == t.commit = run.head /\ t.differs # "tracked"
Disturb(dir, commit, differs) ==
  /\ ChangeTree(dir, commit, differs)
  /\ run' = [run EXCEPT !.undone = @ \/ (Exactly(tree'[dir]) /\ ~Exactly(tree[dir]))]
  /\ UNCHANGED <<log, tip, base, issued, report, runs>>
Change(dir, commit, differs) ==
  /\ edits < MaxEdits /\ edits' = edits + 1
  /\ Disturb(dir, commit, differs)
Restore(dir) ==
  /\ Disturb(dir, IF dir = "base" THEN run.base ELSE run.head, "none")
  /\ UNCHANGED edits

VerifierStep ==
  \/ Bind \/ Preserved \/ Checkout \/ Ready \/ SetUp \/ Test \/ BaseSetUp \/ ReviewSetUp
  \/ \E changedTests, made \in BOOLEAN : MakeTrees(changedTests, made)
  \/ \E s \in CommandStages : BeginCommand(s) \/ HeadSide(s) \/ Review(s)
  \/ \E matched \in BOOLEAN : Compare(matched)
  \/ Conclude \/ Abort

BetweenRuns ==
  \/ \E code \in Codes : CommitCode(code) \/ MoveBase(code)
  \/ \E r \in issued : CommitReceipt(r)
  \/ \E profile \in Profiles :
       \/ \E policy \in Policies, differs \in Differences : StartVerify(profile, policy, differs)
       \/ \E sealed, harness \in BOOLEAN :
            \/ \E receipt \in Presentable, snapshot \in BOOLEAN :
                 StartGate(sealed, harness, profile, receipt, snapshot)
            \/ StartMergeGroup(sealed, harness, profile)
            \/ StartMaintainer(sealed, harness, profile)

Next ==
  \/ Idle /\ runs < MaxRuns /\ BetweenRuns
  \/ VerifierStep
  \/ CommandStep /\ UNCHANGED verifierVars
  \/ run # NoRun /\ \E dir \in Dirs :
       \/ \E commit \in Commits, differs \in Differences : Change(dir, commit, differs)
       \/ Restore(dir)

Spec == Init /\ [][Next]_vars

-----------------------------------------------------------------------------
Passed(modes) == report.mode \in modes /\ report.status = "PASS"

\* A command that saw exactly a commit's tracked files, in its own worktree.
SawExactly(o, commit, overlay) ==
  o.saw = [commit |-> commit, overlay |-> overlay, altered |-> FALSE]

\* Whatever a report that passed counts as tested was run on the exact content
\* of the head the report names - unless somebody changed the worktree and
\* changed it back before it was looked at again - and outside the developer's
\* own runs a strict report passes on nothing less than a test run that passed.
PassedAsCommitted ==
  Passed(Modes) =>
    /\ \A o \in report.observed :
         o.stage \in {"test", "review", "review-test"} /\ o.outcome = "passed"
           => SawExactly(o, report.head, FALSE) \/ report.undone
    /\ report.strict /\ report.mode # "verify" =>
         \E o \in report.observed : o.stage \in {"test", "review-test"} /\ o.outcome = "passed"

\* The gate passes only what a developer's own run passed: a pinned signer's
\* receipt, under the base's policy, for this base and for a commit with the
\* same content, receipt aside.
GatePassIsBacked ==
  Passed({"gate"}) =>
    \E r \in issued :
      /\ r.signer \in Pinned /\ r.status = "PASS" /\ r.policy = "trusted"
      /\ r.base = report.base
      /\ log[r.head].code = log[report.head].code

\* In isolation a regression is shown only by a test that passed on the exact
\* head and failed on the exact base - with the head's changed tests in it,
\* unless the policy says that the base keeps its own (overlayChangedTests,
\* checkDifferentialTest; the paths of the changed tests aside, see Differences).
RegressionShown ==
  (report.mode = "maintainer" /\ report.isolated /\ report.regression) =>
    /\ \E o \in report.observed :
         o.stage = "head-test" /\ ExitedZero(o.outcome) /\ SawExactly(o, report.head, FALSE)
    /\ \E o \in report.observed :
         o.stage = "base-test" /\ o.outcome = "failed" /\ SawExactly(o, report.base, report.overlay)

\* A merge group or a maintainer's run passes no change of the authority
\* configuration that gives the agent a power the base's policy does not let
\* pass - but for what Overlooked names, where buildAuthorityPlan lets pass what
\* docs/AUTHORITY_PLAN.md has blocked.
AuthorityKept == Passed({"merge_group", "maintainer"}) => ~report.widened

\* A run that passed left no container of the candidate behind.
NothingLeftRunning == Passed(Modes) => ~stray
=============================================================================
