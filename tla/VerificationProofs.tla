-------------------------- MODULE VerificationProofs --------------------------
(***************************************************************************)
(* Whatever the profiles, the policies, the commits and the number of runs *)
(* and changes: what a report that passed says is so.                      *)
(***************************************************************************)
EXTENDS VerificationInv, TLAPS

-----------------------------------------------------------------------------
(* The plan and its order.                                                  *)

LEMMA RankInjective ==
    \A s, t \in Stages : Rank(s) \in Nat /\ (Rank(s) = Rank(t) => s = t)
  BY DEF Stages, CommandStages, SetupStages, TestStages, Rank

\* Only one stage is the current one, and no earlier one is left.
LEMMA OneCurrent ==
    ASSUME run.todo \subseteq Stages, NEW s, Current(s), NEW t \in run.todo
    PROVE  /\ s \in Stages /\ Rank(s) <= Rank(t)
           /\ Current(t) => s = t
  <1>1. s \in Stages /\ t \in Stages /\ Rank(s) <= Rank(t)
    BY DEF Current
  <1>2. ASSUME Current(t) PROVE s = t
    <2>1. Rank(t) <= Rank(s)
      BY <1>2 DEF Current
    <2> QED BY <1>1, <2>1, RankInjective
  <1> QED BY <1>1, <1>2

LEMMA OrderFacts ==
    ASSUME run.todo \subseteq Stages
    PROVE  /\ Current("preserved") => "test" \notin run.todo
           /\ Current("conclude") => "test" \notin run.todo /\ run.todo \cap DiffStages = {}
                /\ "preserved" \notin run.todo
           /\ Current("base-setup") => "head-setup" \notin run.todo
           /\ Current("base-test") => /\ "head-test" \notin run.todo
                                      /\ run.todo \cap DiffStages = {"base-test"}
           /\ \A s \in DiffStages \ {"trees"} : Current(s) => "trees" \notin run.todo
  BY DEF Current, Rank, DiffStages

LEMMA WantedFacts ==
    ASSUME NEW mode \in Modes, NEW profile \in Profiles, NEW sealed \in BOOLEAN,
           NEW harness \in BOOLEAN, NEW tests \in BOOLEAN,
           NEW todo, todo = Plan(mode, profile, sealed, harness, tests)
    PROVE  /\ todo \subseteq Stages
           /\ "test" \in todo => "preserved" \in todo
           /\ "head-setup" \in todo => "base-setup" \in todo
           /\ "head-test" \in todo => "base-test" \in todo
           /\ "base-test" \in todo => "head-test" \in todo
           /\ todo \cap DiffStages # {} => "trees" \in todo
  BY DEF Plan, Wanted, Stages, CommandStages, SetupStages, TestStages, DiffStages

LEMMA DirFacts ==
    /\ DirOf("head-setup") = "head" /\ DirOf("head-test") = "head"
    /\ DirOf("base-setup") = "base" /\ DirOf("base-test") = "base"
    /\ DirOf("setup") = "repo" /\ DirOf("test") = "repo"
    /\ DirOf("review-setup") = "candidate" /\ DirOf("review") = "candidate"
    /\ DirOf("review-test") = "candidate"
    /\ \A s \in CommandStages : DirOf(s) \in {"repo", "head", "base", "candidate"}
  <1>1. /\ DirOf("head-setup") = "head" /\ DirOf("head-test") = "head"
    BY DEF DirOf, ReviewStages
  <1>2. /\ DirOf("base-setup") = "base" /\ DirOf("base-test") = "base"
    BY DEF DirOf, ReviewStages
  <1>3. /\ DirOf("setup") = "repo" /\ DirOf("test") = "repo"
    BY DEF DirOf, ReviewStages
  <1>4. /\ DirOf("review-setup") = "candidate" /\ DirOf("review") = "candidate"
        /\ DirOf("review-test") = "candidate"
    BY DEF DirOf, ReviewStages
  <1> QED BY <1>1, <1>2, <1>3, <1>4 DEF CommandStages, SetupStages, TestStages

-----------------------------------------------------------------------------
(* Checks.                                                                   *)

LEMMA CheckFacts ==
    ASSUME NEW rule \in Rules
    PROVE  /\ Verified(rule) \in CheckSet(Rules) /\ Noted(rule) \in CheckSet(Rules)
           /\ Contradicted(rule) \in CheckSet(Rules) /\ Unknown(rule) \in CheckSet(Rules)
           /\ Blocked(rule) \in CheckSet(Rules)
           /\ Denied({Blocked(rule)}) /\ Denied({Contradicted(rule)})
           /\ Verified(rule).rule = rule /\ Noted(rule).rule = rule
           /\ Contradicted(rule).rule = rule /\ Unknown(rule).rule = rule
           /\ Blocked(rule).rule = rule
           /\ Verified(rule).verdict = "verified" /\ Noted(rule).verdict = "verified"
           /\ Contradicted(rule).verdict = "contradicted"
           /\ Unknown(rule).verdict = "unverifiable" /\ Blocked(rule).verdict = "unverifiable"
           /\ Verified(rule) # Noted(rule)
  <1>1. /\ Blocked(rule).verdict = "unverifiable" /\ Blocked(rule).blocks
        /\ Contradicted(rule).verdict = "contradicted"
    BY DEF Check, Blocked, Contradicted
  <1>2. Denied({Blocked(rule)}) /\ Denied({Contradicted(rule)})
    BY <1>1 DEF Denied
  <1>3. Verified(rule).counts /\ ~Noted(rule).counts
    BY DEF Check, Verified, Noted
  <1> QED BY <1>1, <1>2, <1>3 DEF Check, CheckSet, Verdicts, Verified, Noted, Contradicted, Unknown, Blocked

LEMMA VerdictFacts ==
    \A rule \in Rules :
      /\ Verified(rule).verdict = "verified" /\ Contradicted(rule).verdict = "contradicted"
      /\ Blocked(rule).verdict = "unverifiable"
  BY CheckFacts

LEMMA DeniedGrows ==
    ASSUME NEW few, NEW many, few \subseteq many, Denied(few)
    PROVE  Denied(many)
  BY DEF Denied

\* The check of a test run is verified only if the run passed; an error denies.
LEMMA TestCheckFacts ==
    ASSUME NEW outcome \in Outcomes
    PROVE  /\ TestCheck(outcome) \in CheckSet(Rules)
           /\ TestCheck(outcome).rule = "tests-pass"
           /\ TestCheck(outcome).verdict = "verified" => outcome = "passed"
           /\ outcome = "error" => Denied({TestCheck(outcome)})
  <1>1. \/ outcome \in {"error", "empty"} /\ TestCheck(outcome) = Blocked("tests-pass")
        \/ outcome \in {"failed", "reported"} /\ TestCheck(outcome) = Contradicted("tests-pass")
        \/ outcome = "silent" /\ TestCheck(outcome) = Unknown("tests-pass")
        \/ outcome = "passed" /\ TestCheck(outcome) = Verified("tests-pass")
    BY DEF Outcomes, TestCheck
  <1>2. "tests-pass" \in Rules
    BY DEF Rules
  <1>3. CASE outcome \in {"error", "empty"}
    <2>1. TestCheck(outcome) = Blocked("tests-pass")
      BY <1>1, <1>3
    <2> QED BY <1>2, <1>3, <2>1, CheckFacts
  <1>4. CASE outcome \notin {"error", "empty"}
    <2>1. TestCheck(outcome) \in {Contradicted("tests-pass"), Unknown("tests-pass"), Verified("tests-pass")}
      BY <1>1, <1>4
    <2>2. /\ Verified("tests-pass").verdict = "verified"
          /\ Contradicted("tests-pass").verdict = "contradicted"
          /\ Unknown("tests-pass").verdict = "unverifiable"
      BY <1>2, CheckFacts
    <2>3. TestCheck(outcome).verdict = "verified" => outcome = "passed"
      BY <1>1, <1>4, <2>2
    <2>4. TestCheck(outcome) \in CheckSet(Rules) /\ TestCheck(outcome).rule = "tests-pass"
      <3>1. /\ Verified("tests-pass") \in CheckSet(Rules) /\ Verified("tests-pass").rule = "tests-pass"
            /\ Contradicted("tests-pass") \in CheckSet(Rules) /\ Contradicted("tests-pass").rule = "tests-pass"
            /\ Unknown("tests-pass") \in CheckSet(Rules) /\ Unknown("tests-pass").rule = "tests-pass"
        BY <1>2, CheckFacts
      <3> QED BY <2>1, <3>1
    <2> QED BY <1>4, <2>3, <2>4
  <1> QED BY <1>3, <1>4

\* A comparison is verified only by a head that exited zero and a base that
\* failed; an error on either side denies.
LEMMA DifferentialFacts ==
    ASSUME NEW onHead \in Outcomes, NEW onBase \in Outcomes
    PROVE  LET check == DifferentialCheck(onHead, onBase)
           IN /\ check \in CheckSet(Rules) /\ check.rule = "differential-test"
              /\ check.verdict = "verified" =>
                   ExitedZero(onHead) /\ onBase \notin {"error", "reported", "empty", "silent", "passed"}
              /\ "error" \in {onHead, onBase} => Denied({check})
  <1> DEFINE check == DifferentialCheck(onHead, onBase)
  <1>1. \/ "error" \in {onHead, onBase} /\ check = Blocked("differential-test")
        \/ /\ "error" \notin {onHead, onBase} /\ ExitedZero(onHead) /\ ~ExitedZero(onBase)
           /\ check = Verified("differential-test")
        \/ "error" \notin {onHead, onBase} /\ check = Contradicted("differential-test")
    BY DEF DifferentialCheck
  <1>2. "error" \notin {onHead, onBase} /\ ~ExitedZero(onBase)
           => onBase \notin {"error", "reported", "empty", "silent", "passed"}
    BY DEF ExitedZero
  <1>0. "differential-test" \in Rules
    BY DEF Rules
  <1> HIDE DEF check
  <1>a. /\ Verified("differential-test") \in CheckSet(Rules)
        /\ Contradicted("differential-test") \in CheckSet(Rules)
        /\ Blocked("differential-test") \in CheckSet(Rules)
        /\ Denied({Blocked("differential-test")})
    BY <1>0, CheckFacts
  <1>b. /\ Verified("differential-test").rule = "differential-test"
        /\ Contradicted("differential-test").rule = "differential-test"
        /\ Blocked("differential-test").rule = "differential-test"
    BY <1>0, CheckFacts
  <1>c. Contradicted("differential-test").verdict # "verified" /\ Blocked("differential-test").verdict # "verified"
    BY <1>0, CheckFacts
  <1>3. /\ check \in CheckSet(Rules) /\ check.rule = "differential-test"
        /\ "error" \in {onHead, onBase} => Denied({check})
    BY <1>1, <1>a, <1>b
  <1>4. check.verdict = "verified" => ExitedZero(onHead) /\ "error" \notin {onHead, onBase} /\ ~ExitedZero(onBase)
    BY <1>1, <1>c
  <1> QED BY <1>2, <1>3, <1>4 DEF check

\* What a report that passed does not contain.
LEMMA PassFacts ==
    ASSUME NEW results, NEW strict, Status(results, 1, strict) = "PASS"
    PROVE  /\ ~Denied(results)
           /\ \A c \in results : c.verdict # "contradicted"
           /\ strict => \A c \in results : c.verdict # "unverifiable"
  BY DEF Status, Denied

-----------------------------------------------------------------------------
(* What a step of the run changes of it.                                     *)

SameRun ==
  /\ run'.mode = run.mode /\ run'.profile = run.profile /\ run'.policy = run.policy
  /\ run'.head = run.head /\ run'.base = run.base
  /\ run'.receipt = run.receipt /\ run'.snapshot = run.snapshot

LEMMA RunOrNot == (run \in RunSet => run # NoRun) /\ (cmd \in CmdSet => cmd # NoCmd /\ cmd.phase # "none")
  BY DEF RunSet, NoRun, Modes, CmdSet, NoCmd, Phases

LEMMA AdvanceEffect ==
    ASSUME run \in RunSet, NEW s, NEW checks \in SUBSET CheckSet(Rules), NEW dropped,
           Advance(s, checks, dropped)
    PROVE  /\ run' \in RunSet /\ run' # NoRun /\ SameRun
           /\ run'.observed = run.observed /\ run'.undone = run.undone
           /\ run'.results = run.results \cup checks /\ run'.todo = run.todo \ (dropped \cup {s})
  <1>1. run' = [run EXCEPT !.results = @ \cup checks, !.todo = @ \ (dropped \cup {s})]
    BY DEF Advance
  <1>2. run' \in RunSet
    BY <1>1 DEF RunSet
  <1> QED BY <1>1, <1>2, RunOrNot DEF RunSet, SameRun, NoRun, Modes

LEMMA ObserveEffect ==
    ASSUME run \in RunSet, cmd \in CmdSet, NEW s \in CommandStages,
           NEW checks \in SUBSET CheckSet(Rules), NEW dropped, Observe(s, checks, dropped)
    PROVE  /\ run' \in RunSet /\ run' # NoRun /\ SameRun
           /\ run'.observed = run.observed \cup {Saw(s)} /\ run'.undone = run.undone
           /\ run'.results = run.results \cup checks /\ run'.todo = run.todo \ (dropped \cup {s})
           /\ Saw(s) \in Observations
  <1>1. run' = [run EXCEPT !.results = @ \cup checks, !.observed = @ \cup {Saw(s)},
                           !.todo = @ \ (dropped \cup {s})]
    BY DEF Observe
  <1>2. Saw(s) \in Observations
    BY DEF Saw, Observations, CmdSet
  <1>3. run' \in RunSet
    BY <1>1, <1>2 DEF RunSet
  <1> QED BY <1>1, <1>2, <1>3, RunOrNot DEF RunSet, SameRun, NoRun, Modes

\* While a run is in progress there is no report to be wrong.
LEMMA ReportWaits ==
    ASSUME report' = NoReport
    PROVE  ReportTrue'
  <1>1. report'.mode = "none"
    BY DEF NoReport
  <1> QED BY <1>1 DEF ReportTrue, PassedAsCommitted, GatePassIsBacked, RegressionShown,
             NothingLeftRunning, AuthorityKept, Passed, Modes

\* A stage without a command is over.
LEMMA StageKeeps ==
    ASSUME IndInv, NEW s \in Stages \ CommandStages, Stage(s),
           NEW checks \in SUBSET CheckSet(Rules), NEW dropped \in {{}, DiffStages, ReviewStages},
           Advance(s, checks, dropped), Still, Continue,
           \A c \in checks : c.rule # "tests-pass" /\ c # Verified("differential-test"),
           s = "preserved" => Exactly(tree["repo"]) \/ Denied(checks),
           dropped # {} => Denied(checks),
           tree' \in [Dirs -> TreeSet(Nat)],
           tree'["repo"] = tree["repo"], ~tree'["candidate"].overlay,
           isolated /\ s = "trees" /\ dropped # DiffStages =>
               tree'["head"] = Compared.head /\ tree'["base"] = Compared.base,
           s # "trees" => tree'["head"] = tree["head"] /\ tree'["base"] = tree["base"]
    PROVE  IndInv'
  <1> USE DEF IndInv
  <1>1. run # NoRun /\ run \in RunSet /\ cmd = NoCmd /\ report = NoReport /\ run.todo \subseteq Stages
    BY DEF Stage, Current, TypeOK, PlanTrue, RunSet
  <1>2. /\ run' \in RunSet /\ run' # NoRun /\ SameRun
        /\ run'.observed = run.observed /\ run'.undone = run.undone
        /\ run'.results = run.results \cup checks /\ run'.todo = run.todo \ (dropped \cup {s})
    BY <1>1, AdvanceEffect
  <1>3. /\ isolated' = isolated /\ box' = box /\ container' = container /\ stray' = stray
        /\ replaced' = replaced /\ cmd' = NoCmd /\ log' = log /\ tip' = tip /\ base' = base
        /\ issued' = issued /\ report' = report
    BY <1>1 DEF Still, Continue
  <1>4. s \notin CommandStages /\ Current(s)
    BY DEF Stage
  <1>5. TypeOK'
    <2>1. run'.head \in Commits /\ run'.base \in Commits
      BY <1>1, <1>2 DEF TypeOK, SameRun
    <2>2. Commits' = Commits
      BY <1>3 DEF Commits
    <2> QED BY <1>2, <1>3, <2>1, <2>2 DEF TypeOK
  <1>6. PlanTrue'
    <2>1. Current("preserved") => "test" \notin run.todo
      BY <1>1, OrderFacts
    <2>2. "test" \in run'.todo => "preserved" \in run'.todo
      BY <1>1, <1>2, <1>4, <2>1 DEF PlanTrue, DiffStages, ReviewStages
    <2>3. /\ "head-setup" \in run'.todo => "base-setup" \in run'.todo
          /\ "head-test" \in run'.todo => "base-test" \in run'.todo
      BY <1>1, <1>2, <1>4 DEF PlanTrue, DiffStages, ReviewStages, CommandStages, SetupStages, TestStages
    <2>4. "base-test" \in run'.todo => "head-test" \in run'.todo \/ Observed("head-test", Outcomes)'
      BY <1>1, <1>2, <1>4 DEF PlanTrue, DiffStages, ReviewStages, CommandStages, SetupStages, TestStages, Observed
    <2> QED BY <1>1, <1>2, <1>3, <2>2, <2>3, <2>4 DEF PlanTrue, SameRun
  <1>7. CommandTrue'
    BY <1>1, <1>3 DEF CommandTrue, NoCmd
  <1>8. ReadTrue'
    <2>1. Denied(run.results) => Denied(run'.results)
      BY <1>2, DeniedGrows
    <2>2. Denied(checks) => Denied(run'.results)
      BY <1>2, DeniedGrows
    <2>3. ~HasRead'
      BY <1>3 DEF HasRead
    <2>4. Exactly(tree["repo"])' = Exactly(tree["repo"])
      BY <1>2 DEF Exactly, SameRun
    <2>5. HeadContent' = HeadContent
      BY <1>2 DEF HeadContent, SameRun
    <2>6. ~Denied(run'.results) => ("preserved" \in run.todo /\ ~Exactly(tree["repo"]) => "preserved" \in run'.todo)
      BY <1>2, <2>2 DEF DiffStages, ReviewStages
    <2> QED BY <1>1, <1>2, <2>1, <2>3, <2>4, <2>5, <2>6 DEF ReadTrue
  <1>9. TestedTrue'
    <2>1. "test" \in run.todo => "test" \in run'.todo
      BY <1>2, <1>4 DEF DiffStages, ReviewStages, CommandStages, TestStages
    <2> QED BY <1>1, <1>2, <2>1 DEF TestedTrue, SameRun, Observed
  <1>10. ReceiptTrue'
    BY <1>1, <1>2, <1>3 DEF ReceiptTrue, SameRun
  <1>11. ComparisonTrue'
    <2>1. ~HasRead'
      BY <1>3 DEF HasRead
    <2>2. Compared' = Compared
      BY <1>2 DEF Compared, SameRun
    <2>3. ASSUME isolated, "trees" \notin run'.todo, run'.todo \cap DiffStages # {}
          PROVE  tree'["head"] = Compared.head /\ tree'["base"] = Compared.base
      <3>1. CASE s = "trees"
        <4>1. dropped # DiffStages
          BY <1>2, <2>3
        <4> QED BY <2>3, <3>1, <4>1
      <3>2. CASE s # "trees"
        <4>1. "trees" \notin run.todo
          BY <1>2, <2>3, <3>2 DEF ReviewStages, DiffStages
        <4> QED BY <1>1, <1>2, <2>3, <3>2, <4>1 DEF ComparisonTrue
      <3> QED BY <3>1, <3>2
    <2>4. Verified("differential-test") \in run'.results => Verified("differential-test") \in run.results
      BY <1>2
    <2> QED BY <1>1, <1>2, <1>3, <2>1, <2>2, <2>3, <2>4 DEF ComparisonTrue, Observed
  <1>12. StrayTrue'
    <2>1. Denied(run.results) => Denied(run'.results)
      BY <1>2, DeniedGrows
    <2>2. Denied(checks) => Denied(run'.results)
      BY <1>2, DeniedGrows
    <2>3. cmd.phase = "none"
      BY <1>1 DEF NoCmd
    <2>4. dropped = {} => ("base-setup" \in run.todo => "base-setup" \in run'.todo)
                       /\ ("base-test" \in run.todo => "base-test" \in run'.todo)
      BY <1>2, <1>4 DEF CommandStages, SetupStages, TestStages
    <2> QED BY <1>1, <1>2, <1>3, <2>1, <2>2, <2>3, <2>4 DEF StrayTrue, Observed
  <1>13. ReportTrue'
    BY <1>1, <1>3, ReportWaits
  <1> QED BY <1>5, <1>6, <1>7, <1>8, <1>9, <1>10, <1>11, <1>12, <1>13

\* A stage's command has ended and what it observed is kept.
LEMMA ObserveKeeps ==
    ASSUME IndInv, NEW s \in CommandStages, Ended(s),
           NEW checks \in SUBSET CheckSet(Rules),
           NEW dropped \in {{}, DiffStages, ReviewStages, {"test"}},
           Observe(s, checks, dropped),
           dropped # {} => Denied(checks),
           s = "test" \/ dropped = {"test"} => \E c \in checks : c.rule = "tests-pass",
           \A c \in checks : c.rule = "tests-pass" /\ c.verdict = "verified" =>
               s \in {"test", "review-test"} /\ cmd.outcome = "passed",
           s \in {"review", "review-test"} => Exactly(tree["candidate"]) \/ Denied(checks),
           cmd.outcome = "error" => Denied(checks) \/ s \in {"head-setup", "head-test"},
           s = "base-setup" /\ Observed("head-setup", {"error"}) => Denied(checks),
           s = "base-test" /\ Observed("head-test", {"error"}) => Denied(checks),
           Verified("differential-test") \in checks =>
               /\ s = "base-test" /\ cmd.outcome = "failed"
               /\ \E o \in run.observed : o.stage = "head-test" /\ ExitedZero(o.outcome),
           tree' \in [Dirs -> TreeSet(Nat)],
           tree'["repo"] = tree["repo"], tree'["candidate"] = tree["candidate"],
           \/ tree'["head"] = tree["head"] /\ tree'["base"] = tree["base"]
           \/ run'.todo \cap DiffStages = {}
    PROVE  IndInv'
  <1> USE DEF IndInv
  <1> DEFINE new == Saw(s)
  <1>1. /\ run # NoRun /\ run \in RunSet /\ report = NoReport /\ run.todo \subseteq Stages
        /\ Current(s) /\ cmd.phase = "done" /\ s \in run.todo
    BY DEF Ended, Current, TypeOK, PlanTrue, RunSet
  <1>2. cmd \in CmdSet
    BY <1>1 DEF TypeOK, NoCmd
  <1>3. /\ run' \in RunSet /\ run' # NoRun /\ SameRun
        /\ run'.observed = run.observed \cup {new} /\ run'.undone = run.undone
        /\ run'.results = run.results \cup checks /\ run'.todo = run.todo \ (dropped \cup {s})
        /\ new \in Observations
    BY <1>1, <1>2, ObserveEffect
  <1>4. /\ isolated' = isolated /\ box' = box /\ container' = container /\ stray' = stray
        /\ replaced' = replaced /\ cmd' = NoCmd /\ log' = log /\ tip' = tip /\ base' = base
        /\ issued' = issued /\ report' = report
    BY <1>1 DEF Observe, Continue
  <1>5. new.stage = s /\ new.outcome = cmd.outcome /\ new.saw = cmd.saw
    BY DEF Saw
  <1> HIDE DEF new
  <1>6. cmd.dir = DirOf(s) /\ cmd.network = (s \in SetupStages)
    <2>1. PICK t \in CommandStages : Current(t) /\ cmd.dir = DirOf(t) /\ cmd.network = (t \in SetupStages)
      BY <1>2, RunOrNot DEF CommandTrue
    <2>2. t = s
      BY <1>1, <2>1, OneCurrent DEF Current
    <2> QED BY <2>1, <2>2
  <1>7. Denied(run.results) \/ Denied(checks) => Denied(run'.results)
    BY <1>3, DeniedGrows
  <1>8. TypeOK'
    <2>1. run'.head \in Commits /\ run'.base \in Commits
      BY <1>1, <1>3 DEF TypeOK, SameRun
    <2>2. Commits' = Commits
      BY <1>4 DEF Commits
    <2> QED BY <1>3, <1>4, <2>1, <2>2 DEF TypeOK
  <1>9. PlanTrue'
    <2>1. /\ Current("base-setup") => "head-setup" \notin run.todo
          /\ Current("base-test") => "head-test" \notin run.todo
      BY <1>1, OrderFacts
    <2>2. "test" \in run'.todo => "preserved" \in run'.todo
      BY <1>1, <1>3 DEF PlanTrue, DiffStages, ReviewStages, CommandStages, SetupStages, TestStages
    <2>3. /\ "head-setup" \in run'.todo => "base-setup" \in run'.todo
          /\ "head-test" \in run'.todo => "base-test" \in run'.todo
      BY <1>1, <1>3, <2>1 DEF PlanTrue, DiffStages, ReviewStages
    <2>4. "base-test" \in run'.todo => "head-test" \in run'.todo \/ Observed("head-test", Outcomes)'
      <3> SUFFICES ASSUME "base-test" \in run'.todo PROVE "head-test" \in run'.todo \/ Observed("head-test", Outcomes)'
        OBVIOUS
      <3>1. "base-test" \in run.todo /\ dropped # DiffStages
        BY <1>3 DEF DiffStages
      <3>2. CASE s = "head-test"
        BY <1>3, <1>5, <3>2 DEF Observed, Observations
      <3>3. CASE s # "head-test"
        BY <1>1, <1>3, <3>1, <3>3 DEF PlanTrue, Observed, ReviewStages
      <3> QED BY <3>2, <3>3
    <2>5. \A o \in run'.observed : o.stage \notin run'.todo
      BY <1>1, <1>3, <1>5 DEF PlanTrue
    <2>6. \A o, p \in run'.observed : o.stage = p.stage => o = p
      BY <1>1, <1>3, <1>5 DEF PlanTrue
    <2>7. run'.mode # "verify" => run'.policy = "trusted"
      BY <1>1, <1>3 DEF PlanTrue, SameRun
    <2> QED BY <1>1, <1>4, <2>2, <2>3, <2>4, <2>5, <2>6, <2>7 DEF PlanTrue
  <1>10. CommandTrue'
    BY <1>1, <1>4 DEF CommandTrue, NoCmd
  <1>11. ReadTrue'
    <2>1. ~HasRead'
      BY <1>4 DEF HasRead
    <2>2. Exactly(tree["repo"])' = Exactly(tree["repo"])
      BY <1>3 DEF Exactly, SameRun
    <2>3. HeadContent' = HeadContent
      BY <1>3 DEF HeadContent, SameRun
    <2>4. "preserved" \in run.todo => "preserved" \in run'.todo
      BY <1>3 DEF DiffStages, ReviewStages, CommandStages, SetupStages, TestStages
    <2>5. ASSUME new.outcome = "passed", new.saw # HeadContent, ~run.undone, ~Denied(run'.results)
          PROVE  /\ s = "test" => "preserved" \in run'.todo /\ ~Exactly(tree["repo"])
                 /\ s \notin {"review", "review-test"}
      <3>1. s \notin SetupStages => HasRead
        BY <1>1, <1>2, <1>5, <1>6, <2>5, RunOrNot DEF HasRead
      <3>2. CASE s = "test"
        <4>1. cmd.dir = "repo" /\ HasRead
          BY <1>6, <3>1, <3>2 DEF DirOf, ReviewStages, SetupStages
        <4>2. ~Exactly(tree["repo"])
          BY <1>5, <2>5, <4>1 DEF ReadTrue
        <4> QED BY <1>1, <2>4, <3>2, <4>2 DEF PlanTrue
      <3>3. ASSUME s \in {"review", "review-test"} PROVE FALSE
        <4>1. cmd.dir = "candidate" /\ HasRead
          BY <1>6, <3>1, <3>3 DEF DirOf, ReviewStages, SetupStages
        <4>2. ~Exactly(tree["candidate"])
          BY <1>5, <2>5, <4>1 DEF ReadTrue
        <4> QED BY <1>7, <2>5, <3>3, <4>2
      <3> QED BY <3>2, <3>3
    <2>6. \A o \in run.observed :
            o.outcome = "passed" /\ o.saw # HeadContent /\ ~run.undone /\ ~Denied(run'.results) =>
              /\ o.stage = "test" => "preserved" \in run'.todo /\ ~Exactly(tree["repo"])
              /\ o.stage \notin {"review", "review-test"}
      BY <1>1, <1>7, <2>4 DEF ReadTrue
    <2> QED BY <1>3, <1>5, <2>1, <2>2, <2>3, <2>5, <2>6 DEF ReadTrue
  <1>12. TestedTrue'
    <2>1. "test" \in run.todo => "test" \in run'.todo \/ \E c \in checks : c.rule = "tests-pass"
      BY <1>3 DEF DiffStages, ReviewStages
    <2>2. ASSUME NEW c \in checks, c.rule = "tests-pass", c.verdict = "verified"
          PROVE  Observed("test", {"passed"})' \/ Observed("review-test", {"passed"})'
      BY <1>3, <1>5, <2>2 DEF Observed
    <2>3. \A stage, outcomes : Observed(stage, outcomes) => Observed(stage, outcomes)'
      BY <1>3 DEF Observed
    <2> QED BY <1>1, <1>3, <2>1, <2>2, <2>3 DEF TestedTrue, SameRun
  <1>13. ReceiptTrue'
    BY <1>1, <1>3, <1>4 DEF ReceiptTrue, SameRun
  <1>14. ComparisonTrue'
    <2>1. ~HasRead'
      BY <1>4 DEF HasRead
    <2>2. Compared' = Compared
      BY <1>3 DEF Compared, SameRun
    <2>3. ASSUME isolated, "trees" \notin run'.todo, run'.todo \cap DiffStages # {}
          PROVE  tree'["head"] = Compared.head /\ tree'["base"] = Compared.base
      <3>1. "trees" \notin run.todo
        BY <1>3, <2>3 DEF DiffStages, ReviewStages, CommandStages, SetupStages, TestStages
      <3> QED BY <1>1, <1>3, <2>3, <3>1 DEF ComparisonTrue
    <2>4. ASSUME isolated, new.outcome # "error", s \in {"head-test", "base-test"}
          PROVE  /\ s = "head-test" => new.saw = SawTree(Compared.head)
                 /\ s = "base-test" => new.saw = SawTree(Compared.base)
      <3>1. s \in DiffStages /\ s # "trees" /\ s \notin SetupStages
        BY <2>4 DEF DiffStages, SetupStages
      <3>2. "trees" \notin run.todo /\ run.todo \cap DiffStages # {}
        BY <1>1, <3>1, OrderFacts
      <3>3. tree["head"] = Compared.head /\ tree["base"] = Compared.base
        BY <1>1, <2>4, <3>2 DEF ComparisonTrue
      <3>4. HasRead
        BY <1>1, <1>2, <1>5, <1>6, <2>4, <3>1, RunOrNot DEF HasRead
      <3>5. cmd.dir \in {"head", "base"} /\ (s = "head-test" => cmd.dir = "head") /\ (s = "base-test" => cmd.dir = "base")
        BY <1>6, <2>4, DirFacts
      <3> QED BY <1>1, <1>5, <2>4, <3>3, <3>4, <3>5 DEF ComparisonTrue
    <2>5. ASSUME isolated, Verified("differential-test") \in run'.results
          PROVE  /\ \E o \in run'.observed : o.stage = "head-test" /\ ExitedZero(o.outcome)
                 /\ Observed("base-test", {"failed"})'
      <3>1. CASE Verified("differential-test") \in run.results
        BY <1>1, <1>3, <2>5, <3>1 DEF ComparisonTrue, Observed
      <3>2. CASE Verified("differential-test") \in checks
        BY <1>3, <1>5, <3>2 DEF Observed
      <3> QED BY <1>3, <2>5, <3>1, <3>2
    <2>6. \A o \in run'.observed : isolated /\ o.outcome # "error" =>
            /\ o.stage = "head-test" => o.saw = SawTree(Compared.head)
            /\ o.stage = "base-test" => o.saw = SawTree(Compared.base)
      BY <1>1, <1>3, <1>5, <2>4 DEF ComparisonTrue
    <2> QED BY <1>4, <2>1, <2>2, <2>3, <2>5, <2>6 DEF ComparisonTrue
  <1>15. StrayTrue'
    <2> SUFFICES ASSUME stray, ~Denied(run'.results)
                 PROVE  \/ "base-setup" \in run'.todo /\ Observed("head-setup", {"error"})'
                        \/ "base-test" \in run'.todo /\ Observed("head-test", {"error"})'
      BY <1>4 DEF StrayTrue
    <2>1. dropped = {} /\ ~Denied(run.results) /\ ~Denied(checks)
      BY <1>7
    <2>2. CASE cmd.outcome = "error"
      BY <1>1, <1>3, <1>5, <2>1, <2>2 DEF PlanTrue, Observed
    <2>3. CASE "base-setup" \in run.todo /\ Observed("head-setup", {"error"})
      BY <1>3, <2>1, <2>3 DEF Observed
    <2>4. CASE "base-test" \in run.todo /\ Observed("head-test", {"error"})
      BY <1>3, <2>1, <2>4 DEF Observed
    <2> QED BY <1>1, <2>1, <2>2, <2>3, <2>4 DEF StrayTrue
  <1>16. ReportTrue'
    BY <1>1, <1>4, ReportWaits
  <1> QED BY <1>8, <1>9, <1>10, <1>11, <1>12, <1>13, <1>14, <1>15, <1>16

-----------------------------------------------------------------------------
(* A step of the command in progress.                                        *)

LEMMA CommandKeeps ==
    ASSUME IndInv, run # NoRun, UNCHANGED verifierVars, isolated' = isolated, tree' = tree,
           cmd' \in CmdSet, container' \in BOOLEAN, stray' \in BOOLEAN,
           replaced' \in {"none", "docker", "runtime"},
           box' \in [Dirs -> [commit : Nat, state : {"none", "debris", "intact", "touched"}]],
           NEW s \in CommandStages, Current(s), cmd'.dir = DirOf(s), cmd'.network = (s \in SetupStages),
           container' => cmd'.phase \in {"run", "cleanup"},
           HasRead' => \/ HasRead /\ cmd'.saw = cmd.saw /\ cmd'.dir = cmd.dir
                       \/ cmd'.saw = SawTree(tree[cmd'.dir]),
           stray' => \/ cmd'.phase \in {"after", "done"} /\ cmd'.outcome = "error"
                     \/ stray /\ ~(cmd.phase \in {"after", "done"} /\ cmd.outcome = "error")
    PROVE  IndInv'
  <1> USE DEF IndInv
  <1>1. /\ log' = log /\ tip' = tip /\ base' = base /\ issued' = issued /\ run' = run
        /\ report' = report /\ runs' = runs /\ edits' = edits
    BY DEF verifierVars
  <1>2. run \in RunSet /\ cmd' # NoCmd /\ report = NoReport
    BY RunOrNot DEF TypeOK, PlanTrue, CmdSet, NoCmd, Phases
  <1>3. TypeOK'
    BY <1>1 DEF TypeOK, Commits
  <1>4. PlanTrue'
    BY <1>1 DEF PlanTrue, Observed
  <1>5. CommandTrue'
    BY <1>1 DEF CommandTrue, Current
  <1>6. HeadContent' = HeadContent /\ \A d : Exactly(tree[d])' = Exactly(tree[d])
    BY <1>1 DEF HeadContent, Exactly
  <1>7. ReadTrue'
    <2>1. ASSUME HasRead', cmd'.dir \in {"repo", "candidate"}
          PROVE  cmd'.saw = HeadContent \/ run.undone \/ ~Exactly(tree[cmd'.dir])
      <3>1. CASE HasRead /\ cmd'.saw = cmd.saw /\ cmd'.dir = cmd.dir
        BY <2>1, <3>1 DEF ReadTrue
      <3>2. CASE cmd'.saw = SawTree(tree[cmd'.dir])
        <4>1. ~tree[cmd'.dir].overlay
          BY <2>1 DEF ReadTrue
        <4>2. tree[cmd'.dir] \in TreeSet(Nat)
          BY <2>1, VerificationAssumption DEF TypeOK
        <4>3. tree[cmd'.dir].overlay = FALSE
          BY <4>1, <4>2 DEF TreeSet
        <4>4. Exactly(tree[cmd'.dir]) => SawTree(tree[cmd'.dir]) = HeadContent
          BY <4>3 DEF Exactly, SawTree, HeadContent
        <4> QED BY <3>2, <4>4
      <3> QED BY <2>1, <3>1, <3>2
    <2> QED BY <1>1, <1>6, <2>1 DEF ReadTrue
  <1>8. TestedTrue'
    BY <1>1 DEF TestedTrue, Observed
  <1>9. ReceiptTrue'
    BY <1>1 DEF ReceiptTrue
  <1>10. ComparisonTrue'
    <2>1. Compared' = Compared
      BY <1>1 DEF Compared
    <2>2. isolated /\ HasRead' /\ cmd'.dir \in {"head", "base"} => cmd'.saw = SawTree(tree[cmd'.dir])
      BY <1>1 DEF ComparisonTrue
    <2> QED BY <1>1, <2>1, <2>2 DEF ComparisonTrue, Observed
  <1>11. StrayTrue'
    BY <1>1 DEF StrayTrue, Observed
  <1>12. ReportTrue'
    BY <1>1, <1>2, ReportWaits
  <1> QED BY <1>3, <1>4, <1>5, <1>7, <1>8, <1>9, <1>10, <1>11, <1>12

LEMMA RequireEffect ==
    ASSUME cmd \in CmdSet, NEW ok, NEW phase \in Phases, Require(ok, phase)
    PROVE  /\ cmd' \in CmdSet /\ cmd'.dir = cmd.dir /\ cmd'.network = cmd.network /\ cmd'.saw = cmd.saw
           /\ \/ cmd'.phase = phase /\ cmd'.outcome = cmd.outcome
              \/ cmd'.phase = "done" /\ cmd'.outcome = "error"
  BY DEF Require, GoTo, GiveUp, CmdSet, Phases, Outcomes

\* The same, for a step that leaves the command in its worktree.
LEMMA CommandMoves ==
    ASSUME IndInv, cmd \in CmdSet, UNCHANGED verifierVars, isolated' = isolated, tree' = tree,
           cmd' \in CmdSet, cmd'.dir = cmd.dir, cmd'.network = cmd.network,
           container' \in BOOLEAN, stray' \in BOOLEAN, replaced' \in {"none", "docker", "runtime"},
           box' \in [Dirs -> [commit : Nat, state : {"none", "debris", "intact", "touched"}]],
           container' => cmd'.phase \in {"run", "cleanup"},
           HasRead' => (HasRead /\ cmd'.saw = cmd.saw) \/ cmd'.saw = SawTree(tree[cmd.dir]),
           stray' => \/ cmd'.phase \in {"after", "done"} /\ cmd'.outcome = "error"
                     \/ stray /\ ~(cmd.phase \in {"after", "done"} /\ cmd.outcome = "error")
    PROVE  IndInv'
  <1>1. PICK s \in CommandStages : Current(s) /\ cmd.dir = DirOf(s) /\ cmd.network = (s \in SetupStages)
    BY RunOrNot DEF IndInv, CommandTrue
  <1>2. run # NoRun
    BY <1>1 DEF Current
  <1> QED BY <1>1, <1>2, CommandKeeps

\* Every step of a command keeps what is true of a run.
LEMMA CommandStepInv == IndInv /\ CommandStep /\ UNCHANGED verifierVars => IndInv'
  <1> SUFFICES ASSUME IndInv, CommandStep, UNCHANGED verifierVars PROVE IndInv'
    OBVIOUS
  <1>1. cmd.phase # "none" => cmd \in CmdSet
    BY DEF IndInv, TypeOK, NoCmd
  <1>2. container => cmd.phase \in {"run", "cleanup"}
    BY DEF IndInv, CommandTrue
  <1>3. /\ stray \in BOOLEAN /\ container \in BOOLEAN /\ replaced \in {"none", "docker", "runtime"}
        /\ isolated \in BOOLEAN
        /\ box \in [Dirs -> [commit : Nat, state : {"none", "debris", "intact", "touched"}]]
        /\ tree \in [Dirs -> TreeSet(Nat)]
    BY DEF IndInv, TypeOK
  <1>4. CASE CheckTools
    <2>1. cmd.phase = "tools" /\ UNCHANGED <<isolated, tree, box, container, stray, replaced>>
          /\ Require(replaced = "none", "source")
      BY <1>4 DEF CheckTools, At
    <2>2. /\ cmd' \in CmdSet /\ cmd'.dir = cmd.dir /\ cmd'.network = cmd.network
          /\ ~HasRead'
      BY <1>1, <2>1, RequireEffect DEF Phases, HasRead
    <2> QED BY <1>1, <1>2, <1>3, <2>1, <2>2, CommandMoves
  <1>5. CASE LookUpSandbox
    <2>1. cmd.phase = "source" /\ UNCHANGED <<isolated, tree, box, container, stray, replaced>>
          /\ \E ok \in BOOLEAN : \E phase \in {"make", "before"} : Require(ok, phase)
      BY <1>5 DEF LookUpSandbox, At
    <2>2. /\ cmd' \in CmdSet /\ cmd'.dir = cmd.dir /\ cmd'.network = cmd.network
          /\ ~HasRead'
      BY <1>1, <2>1, RequireEffect DEF Phases, HasRead
    <2> QED BY <1>1, <1>2, <1>3, <2>1, <2>2, CommandMoves
  <1>6. CASE MakeSandbox
    <2>1. cmd.phase = "make" /\ UNCHANGED <<isolated, tree, container, stray, replaced>>
      BY <1>6 DEF MakeSandbox, At
    <2>2. /\ cmd' \in CmdSet /\ cmd'.dir = cmd.dir /\ cmd'.network = cmd.network
          /\ ~HasRead'
      BY <1>1, <1>6, <2>1 DEF MakeSandbox, GoTo, GiveUp, CmdSet, Phases, Outcomes, HasRead
    <2>3. tree[cmd.dir].commit \in Nat
      BY <1>1, <1>3, <2>1 DEF CmdSet, TreeSet
    <2>4. box' \in [Dirs -> [commit : Nat, state : {"none", "debris", "intact", "touched"}]]
      BY <1>1, <1>3, <1>6, <2>1, <2>3 DEF MakeSandbox, Debris, CmdSet
    <2> QED BY <1>1, <1>2, <1>3, <2>1, <2>2, <2>4, CommandMoves
  <1>7. CASE CompareSandbox
    <2>1. /\ cmd.phase = "compare" /\ UNCHANGED <<isolated, tree, container, stray, replaced>>
          /\ \E ok \in BOOLEAN : Require(ok, "before")
      BY <1>7 DEF CompareSandbox, At
    <2>2. /\ cmd' \in CmdSet /\ cmd'.dir = cmd.dir /\ cmd'.network = cmd.network
          /\ ~HasRead'
      BY <1>1, <2>1, RequireEffect DEF Phases, HasRead
    <2>3. box' \in [Dirs -> [commit : Nat, state : {"none", "debris", "intact", "touched"}]]
      BY <1>1, <1>3, <1>7, <2>1 DEF CompareSandbox, Debris, CmdSet
    <2> QED BY <1>1, <1>2, <1>3, <2>1, <2>2, <2>3, CommandMoves
  <1>8. CASE StartContainer
    <2>1. cmd.phase = "before" /\ UNCHANGED <<isolated, tree, box, stray, replaced>>
      BY <1>8 DEF StartContainer, At
    <2>2. CASE SandboxIntact(cmd.dir)
      <3>1. /\ container' = TRUE
            /\ cmd' = [cmd EXCEPT !.phase = "run",
                         !.saw = [commit  |-> box[cmd.dir].commit, overlay |-> tree[cmd.dir].overlay,
                                  altered |-> box[cmd.dir].state = "touched"]]
        BY <1>8, <2>2 DEF StartContainer
      <3>2. /\ box[cmd.dir].commit = tree[cmd.dir].commit /\ box[cmd.dir].state # "touched"
            /\ tree[cmd.dir].differs # "tracked"
        BY <2>2 DEF SandboxIntact, SourceClean
      <3>3. cmd'.saw = SawTree(tree[cmd.dir])
        BY <1>1, <2>1, <3>1, <3>2 DEF SawTree, CmdSet
      <3>4. SawTree(tree[cmd.dir]) \in SawSet
        BY <1>1, <1>3, <2>1 DEF SawTree, SawSet, TreeSet, CmdSet
      <3>5. cmd' \in CmdSet /\ cmd'.dir = cmd.dir /\ cmd'.network = cmd.network /\ cmd'.phase = "run"
        BY <1>1, <2>1, <3>1, <3>3, <3>4 DEF CmdSet, Phases
      <3> QED BY <1>1, <1>2, <1>3, <2>1, <3>1, <3>3, <3>5, CommandMoves
    <2>3. CASE ~SandboxIntact(cmd.dir)
      <3>1. /\ cmd' \in CmdSet /\ cmd'.dir = cmd.dir /\ cmd'.network = cmd.network
            /\ ~HasRead' /\ container' = container
        BY <1>1, <1>8, <2>1, <2>3 DEF StartContainer, GiveUp, CmdSet, Phases, Outcomes, HasRead
      <3> QED BY <1>1, <1>2, <1>3, <2>1, <3>1, CommandMoves
    <2> QED BY <2>2, <2>3
  <1>9. CASE SetupWrites
    <2>1. cmd.phase = "run" /\ cmd.network /\ UNCHANGED <<isolated, tree, container, stray, replaced>>
      BY <1>9 DEF SetupWrites, Running
    <2>2. cmd' = [cmd EXCEPT !.saw.altered = TRUE]
      BY <1>9 DEF SetupWrites
    <2>3. /\ cmd' \in CmdSet /\ cmd'.dir = cmd.dir /\ cmd'.network = cmd.network
          /\ cmd'.phase = "run"
      BY <1>1, <2>1, <2>2 DEF CmdSet, SawSet
    <2>4. ~HasRead'
      BY <2>1, <2>3 DEF HasRead
    <2>5. box' \in [Dirs -> [commit : Nat, state : {"none", "debris", "intact", "touched"}]]
      BY <1>1, <1>3, <1>9, <2>1 DEF SetupWrites, CmdSet
    <2> QED BY <1>1, <1>2, <1>3, <2>1, <2>3, <2>4, <2>5, CommandMoves
  <1>10. ASSUME NEW outcome \in Outcomes, NEW lives \in BOOLEAN, CommandEnds(outcome, lives)
         PROVE  IndInv'
    <2>1. /\ cmd.phase = "run" /\ UNCHANGED <<isolated, tree, box, stray, replaced>>
          /\ lives => isolated
          /\ cmd' = [cmd EXCEPT !.phase = IF isolated THEN "cleanup" ELSE "done", !.outcome = outcome]
          /\ container' = lives
      BY <1>10 DEF CommandEnds, Running
    <2>2. /\ cmd' \in CmdSet /\ cmd'.dir = cmd.dir /\ cmd'.network = cmd.network /\ cmd'.saw = cmd.saw
          /\ isolated => cmd'.phase = "cleanup"
      BY <1>1, <2>1 DEF CmdSet, Phases
    <2>3. HasRead' => HasRead
      BY <1>1, <2>1, <2>2, RunOrNot DEF HasRead
    <2> QED BY <1>1, <1>2, <1>3, <2>1, <2>2, <2>3, CommandMoves
  <1>11. ASSUME NEW removed \in BOOLEAN, NEW absent \in BOOLEAN, CleanUp(removed, absent)
         PROVE  IndInv'
    <2> DEFINE asked == replaced # "docker"
    <2>1. /\ cmd.phase = "cleanup" /\ UNCHANGED <<isolated, tree, box, replaced>>
          /\ absent => ~container
          /\ stray' = (stray \/ (container /\ ~(asked /\ removed))) /\ container' = FALSE
          /\ cmd' = [cmd EXCEPT !.phase = "after",
                       !.outcome = IF asked /\ (removed \/ absent) THEN @ ELSE "error"]
      BY <1>11 DEF CleanUp, At
    <2> HIDE DEF asked
    <2>2. /\ cmd' \in CmdSet /\ cmd'.dir = cmd.dir /\ cmd'.network = cmd.network /\ cmd'.saw = cmd.saw
          /\ cmd'.phase = "after"
      BY <1>1, <2>1 DEF CmdSet, Phases, Outcomes
    <2>3. HasRead' => HasRead
      BY <1>1, <2>1, <2>2, RunOrNot DEF HasRead
    <2>4. container /\ ~(asked /\ removed) => cmd'.outcome = "error"
      BY <1>1, <2>1 DEF CmdSet
    <2>5. stray' => cmd'.outcome = "error" \/ stray
      BY <2>1, <2>4
    <2>6. stray' \in BOOLEAN
      BY <2>1
    <2> QED BY <1>1, <1>3, <2>1, <2>2, <2>3, <2>5, <2>6, CommandMoves
  <1>12. CASE CheckAfter
    <2>1. /\ cmd.phase = "after" /\ UNCHANGED <<isolated, tree, box, container, stray, replaced>>
          /\ \E ok \in BOOLEAN : Require(ok, "done")
      BY <1>12 DEF CheckAfter, At
    <2>2. /\ cmd' \in CmdSet /\ cmd'.dir = cmd.dir /\ cmd'.network = cmd.network /\ cmd'.saw = cmd.saw
          /\ cmd'.phase = "done" /\ (cmd'.outcome = cmd.outcome \/ cmd'.outcome = "error")
      BY <1>1, <2>1, RequireEffect DEF Phases
    <2>3. HasRead' => HasRead
      BY <1>1, <2>1, <2>2, RunOrNot DEF HasRead
    <2> QED BY <1>1, <1>2, <1>3, <2>1, <2>2, <2>3, CommandMoves
  <1>13. ASSUME NEW which \in {"docker", "runtime"}, ReplaceBinary(which)
         PROVE  IndInv'
    <2>1. cmd.phase = "run" /\ replaced' = which /\ UNCHANGED <<isolated, tree, box, container, stray, cmd>>
      BY <1>13 DEF ReplaceBinary, Running
    <2>2. HasRead' => HasRead
      BY <2>1 DEF HasRead
    <2> QED BY <1>1, <1>2, <1>3, <2>1, <2>2, CommandMoves
  <1> QED BY <1>4, <1>5, <1>6, <1>7, <1>8, <1>9, <1>10, <1>11, <1>12, <1>13 DEF CommandStep

-----------------------------------------------------------------------------
(* The stages.                                                               *)

LEMMA TreeFacts ==
    ASSUME IndInv
    PROVE  /\ tree \in [Dirs -> TreeSet(Nat)]
           /\ ~tree["repo"].overlay /\ ~tree["candidate"].overlay
           /\ run # NoRun => run.head \in Nat /\ run.base \in Nat
           /\ \A c \in Nat, o \in BOOLEAN : Clean(c, o) \in TreeSet(Nat) /\ Clean(c, o).overlay = o
           /\ NoTree \in TreeSet(Nat) /\ NoTree.overlay = FALSE
  <1>1. /\ \A c \in Nat, o \in BOOLEAN : Clean(c, o) \in TreeSet(Nat) /\ Clean(c, o).overlay = o
        /\ NoTree \in TreeSet(Nat) /\ NoTree.overlay = FALSE
    BY DEF Clean, NoTree, TreeSet, Differences
  <1>2. run # NoRun => run.head \in Nat /\ run.base \in Nat
    BY DEF IndInv, TypeOK, RunSet
  <1> QED BY <1>1, <1>2 DEF IndInv, TypeOK, ReadTrue

LEMMA StageNames ==
    /\ {"bind", "trees", "checkout", "ready", "preserved", "conclude"} \subseteq Stages \ CommandStages
    /\ \A rule \in {"workspace", "preserved", "harness", "differential-test", "review-mode",
                    "review-head", "review-worktree", "review-setup", "review", "review-test"} :
         rule \in Rules /\ rule # "tests-pass"
    /\ "tests-pass" \in Rules
  BY DEF Stages, CommandStages, SetupStages, TestStages, Rules

LEMMA PlainChecks ==
    ASSUME NEW rule \in Rules, NEW check \in {Verified(rule), Noted(rule), Contradicted(rule), Blocked(rule)}
    PROVE  /\ check \in CheckSet(Rules) /\ check.rule = rule
           /\ check \in {Contradicted(rule), Blocked(rule)} => Denied({check})
           /\ rule # "differential-test" \/ check # Verified(rule) => check # Verified("differential-test")
  <1>1. Verified("differential-test").rule = "differential-test"
    BY StageNames, CheckFacts
  <1>2. check \in CheckSet(Rules) /\ check.rule = rule
    <2>1. CASE check = Verified(rule)
      BY <2>1, CheckFacts
    <2>2. CASE check = Noted(rule)
      BY <2>2, CheckFacts
    <2>3. CASE check = Contradicted(rule)
      BY <2>3, CheckFacts
    <2>4. CASE check = Blocked(rule)
      BY <2>4, CheckFacts
    <2> QED BY <2>1, <2>2, <2>3, <2>4
  <1>3. check \in {Contradicted(rule), Blocked(rule)} => Denied({check})
    BY CheckFacts
  <1>4. CASE rule # "differential-test"
    BY <1>1, <1>2, <1>3, <1>4
  <1>5. CASE rule = "differential-test"
    BY <1>2, <1>3, <1>5
  <1> QED BY <1>4, <1>5

LEMMA StageInv ==
    ASSUME IndInv, \/ Bind \/ Preserved \/ Checkout \/ Ready
                   \/ \E changedTests, made \in BOOLEAN : MakeTrees(changedTests, made)
    PROVE  IndInv'
  <1>0. tree \in [Dirs -> TreeSet(Nat)] /\ ~tree["repo"].overlay /\ ~tree["candidate"].overlay
    BY TreeFacts
  <1>1. CASE Bind
    <2>1. PICK check \in {Noted("workspace"), Blocked("workspace")} :
            Stage("bind") /\ Advance("bind", {check}, {}) /\ Still /\ Continue /\ tree' = tree
      BY <1>1 DEF Bind
    <2>2. "workspace" \in Rules
      BY DEF Rules
    <2>3. check \in CheckSet(Rules) /\ check.rule # "tests-pass" /\ check # Verified("differential-test")
      BY <2>2, PlainChecks
    <2> QED BY <1>0, <2>1, <2>3, StageNames, StageKeeps
  <1>2. CASE Preserved
    <2>1. PICK check \in {Noted("preserved"), Blocked("preserved")} :
            /\ Stage("preserved") /\ Advance("preserved", {check}, {}) /\ Still /\ Continue /\ tree' = tree
            /\ WorkspaceKept \/ check = Blocked("preserved")
      BY <1>2 DEF Preserved
    <2>2. "preserved" \in Rules
      BY DEF Rules
    <2>3. check \in CheckSet(Rules) /\ check.rule # "tests-pass" /\ check # Verified("differential-test")
          /\ (check = Blocked("preserved") => Denied({check}))
      BY <2>2, PlainChecks
    <2>4. Exactly(tree["repo"]) \/ Denied({check})
      BY <2>1, <2>3 DEF WorkspaceKept, Exactly, Ignored
    <2> QED BY <1>0, <2>1, <2>3, <2>4, StageNames, StageKeeps
  <1>3. CASE Checkout
    <2> DEFINE check == Noted("review-mode")
    <2>1. /\ Stage("checkout") /\ Advance("checkout", {check}, {}) /\ Still /\ Continue
          /\ tree' = [tree EXCEPT !["candidate"] = Clean(run.head, FALSE)]
      BY <1>3 DEF Checkout
    <2>2. "review-mode" \in Rules
      BY DEF Rules
    <2>3. check \in CheckSet(Rules) /\ check.rule # "tests-pass" /\ check # Verified("differential-test")
      BY <2>2, PlainChecks
    <2>4. Clean(run.head, FALSE) \in TreeSet(Nat) /\ ~Clean(run.head, FALSE).overlay
      BY <2>1, TreeFacts DEF Stage, Current
    <2>5. /\ tree' \in [Dirs -> TreeSet(Nat)] /\ tree'["repo"] = tree["repo"]
          /\ ~tree'["candidate"].overlay /\ tree'["head"] = tree["head"] /\ tree'["base"] = tree["base"]
      BY <1>0, <2>1, <2>4, VerificationAssumption
    <2> HIDE DEF check
    <2>6. Stage("checkout") /\ Advance("checkout", {check}, {}) /\ Still /\ Continue
      BY <2>1
    <2> QED BY <2>3, <2>5, <2>6, StageNames, StageKeeps
  <1>4. CASE Ready
    <2>1. Stage("ready") /\ Still /\ Continue /\ tree' = tree
      BY <1>4 DEF Ready
    <2>2. CASE Advance("ready", {}, {})
      BY <1>0, <2>1, <2>2, StageNames, StageKeeps
    <2>3. ASSUME NEW check \in {Blocked("review-head"), Contradicted("review-worktree")},
                 Advance("ready", {check}, ReviewStages)
          PROVE  IndInv'
      <3>1. "review-head" \in Rules /\ "review-worktree" \in Rules
        BY DEF Rules
      <3>2. check \in CheckSet(Rules) /\ check.rule # "tests-pass" /\ check # Verified("differential-test")
            /\ Denied({check})
        <4>1. CASE check = Blocked("review-head")
          BY <3>1, <4>1, PlainChecks
        <4>2. CASE check = Contradicted("review-worktree")
          BY <3>1, <4>2, PlainChecks
        <4> QED BY <4>1, <4>2
      <3> QED BY <1>0, <2>1, <2>3, <3>2, StageNames, StageKeeps
    <2> QED BY <1>4, <2>2, <2>3 DEF Ready
  <1>5. ASSUME NEW changedTests \in BOOLEAN, NEW made \in BOOLEAN, MakeTrees(changedTests, made)
        PROVE  IndInv'
    <2> DEFINE overlay == run.profile.overlay
               able == overlay => changedTests
    <2>1. Stage("trees") /\ Still /\ Continue /\ overlay \in BOOLEAN
      <3>1. Stage("trees") /\ Still /\ Continue
        BY <1>5 DEF MakeTrees
      <3> QED BY <3>1, VerificationAssumption DEF IndInv, TypeOK, RunSet, Stage, Current
    <2>2. CASE ~able \/ ~made
      <3>1. PICK check \in {Contradicted("differential-test"), Blocked("differential-test")} :
              Advance("trees", {check}, DiffStages) /\ tree' = tree
        BY <1>5, <2>2 DEF MakeTrees
      <3>2. /\ Verified("differential-test").verdict = "verified"
            /\ Contradicted("differential-test").verdict = "contradicted"
            /\ Blocked("differential-test").verdict = "unverifiable"
        BY StageNames, CheckFacts
      <3>3. check # Verified("differential-test")
        BY <3>1, <3>2
      <3>4. check \in CheckSet(Rules) /\ check.rule # "tests-pass" /\ Denied({check})
        BY StageNames, PlainChecks
      <3> QED BY <1>0, <2>1, <3>1, <3>3, <3>4, StageNames, StageKeeps
    <2>3. CASE able /\ made
      <3>1. /\ Advance("trees", {}, {})
            /\ tree' = [tree EXCEPT !["head"] = Clean(run.head, FALSE), !["base"] = Clean(run.base, overlay)]
        BY <1>5, <2>3 DEF MakeTrees
      <3>2. Clean(run.head, FALSE) \in TreeSet(Nat) /\ Clean(run.base, overlay) \in TreeSet(Nat)
        BY <2>1, TreeFacts DEF Stage, Current
      <3>3. /\ tree' \in [Dirs -> TreeSet(Nat)] /\ tree'["repo"] = tree["repo"]
            /\ tree'["candidate"] = tree["candidate"]
            /\ tree'["head"] = Compared.head /\ tree'["base"] = Compared.base
        BY <1>0, <3>1, <3>2, VerificationAssumption DEF Compared
      <3>4. Advance("trees", {}, {})
        BY <3>1
      <3> QED BY <1>0, <2>1, <3>3, <3>4, StageNames, StageKeeps
    <2> QED BY <2>2, <2>3
  <1> QED BY <1>1, <1>2, <1>3, <1>4, <1>5

LEMMA BeginInv ==
    ASSUME IndInv, NEW s \in CommandStages, BeginCommand(s)
    PROVE  IndInv'
  <1>1. /\ Current(s) /\ cmd = NoCmd /\ run # NoRun
        /\ UNCHANGED <<isolated, tree, box, container, stray, replaced, run>> /\ Continue
    BY DEF BeginCommand, Stage, Current
  <1>2. cmd' = [phase |-> IF isolated THEN "tools" ELSE "run", dir |-> DirOf(s), network |-> s \in SetupStages,
                summary |-> s \in {"test", "review-test"}, outcome |-> "error",
                saw |-> IF isolated THEN Nothing ELSE SawTree(tree[DirOf(s)])]
    BY DEF BeginCommand, Begin
  <1>3. DirOf(s) \in Dirs
    BY DirFacts, VerificationAssumption
  <1>4. Nothing \in SawSet /\ SawTree(tree[DirOf(s)]) \in SawSet
    BY <1>3, TreeFacts DEF Nothing, SawTree, SawSet, TreeSet
  <1>5. cmd' \in CmdSet
    BY <1>2, <1>3, <1>4 DEF CmdSet, Phases, Outcomes
  <1>6. cmd'.dir = DirOf(s) /\ cmd'.network = (s \in SetupStages)
        /\ (HasRead' => cmd'.saw = SawTree(tree[DirOf(s)]))
    BY <1>2 DEF HasRead
  <1>7. ~container /\ cmd.phase = "none"
    BY <1>1 DEF IndInv, CommandTrue, NoCmd
  <1>8. /\ stray \in BOOLEAN /\ container \in BOOLEAN /\ replaced \in {"none", "docker", "runtime"}
        /\ box \in [Dirs -> [commit : Nat, state : {"none", "debris", "intact", "touched"}]]
    BY DEF IndInv, TypeOK
  <1>9. UNCHANGED verifierVars
    BY <1>1 DEF Continue, verifierVars
  <1> QED BY <1>1, <1>5, <1>6, <1>7, <1>8, <1>9, CommandKeeps

-----------------------------------------------------------------------------
(* What the ended commands say.                                              *)

LEMMA EndedFacts ==
    ASSUME IndInv, NEW s, Ended(s)
    PROVE  /\ run # NoRun /\ run \in RunSet /\ cmd \in CmdSet /\ cmd.outcome \in Outcomes
           /\ run.todo \subseteq Stages /\ Current(s)
           /\ tree \in [Dirs -> TreeSet(Nat)]
  <1>1. cmd.phase = "done" /\ run # NoRun /\ Current(s)
    BY DEF Ended, Current
  <1>2. cmd \in CmdSet /\ run \in RunSet
    BY <1>1 DEF IndInv, TypeOK, NoCmd
  <1> QED BY <1>1, <1>2, TreeFacts DEF CmdSet, RunSet

\* A side of a comparison was observed once, so that what is looked up is it.
LEMMA OutcomeFacts ==
    ASSUME IndInv, run # NoRun, NEW o \in run.observed
    PROVE  OutcomeOf(o.stage) = o.outcome /\ o.outcome \in Outcomes
  <1>1. o \in Observations
    BY DEF IndInv, TypeOK, RunSet
  <1>2. \A p \in run.observed : p.stage = o.stage => p = o
    BY DEF IndInv, PlanTrue
  <1>3. (CHOOSE p \in run.observed : p.stage = o.stage) = o
    BY <1>2
  <1> QED BY <1>1, <1>3 DEF OutcomeOf, Observations

\* Both worktrees of a comparison are removed.
LEMMA RemovedFacts ==
    ASSUME IndInv, Removed({"head", "base"})
    PROVE  /\ tree' \in [Dirs -> TreeSet(Nat)]
           /\ tree'["repo"] = tree["repo"] /\ tree'["candidate"] = tree["candidate"]
  BY TreeFacts, VerificationAssumption DEF Removed

LEMMA ComparisonChecks ==
    /\ Blocked("differential-test") # Verified("differential-test")
    /\ Contradicted("differential-test") # Verified("differential-test")
    /\ Verified("differential-test").verdict = "verified"
    /\ \A check \in {Blocked("differential-test"), Contradicted("differential-test")} :
         /\ check \in CheckSet(Rules) /\ check.rule = "differential-test" /\ check.rule # "tests-pass"
         /\ Denied({check})
  <1>1. /\ Verified("differential-test").verdict = "verified"
        /\ Contradicted("differential-test").verdict = "contradicted"
        /\ Blocked("differential-test").verdict = "unverifiable"
    BY StageNames, CheckFacts
  <1>2. "differential-test" \in Rules /\ "differential-test" # "tests-pass"
    BY StageNames
  <1>3. ASSUME NEW check \in {Blocked("differential-test"), Contradicted("differential-test")}
        PROVE  /\ check \in CheckSet(Rules) /\ check.rule = "differential-test"
               /\ Denied({check})
    BY <1>2, PlainChecks
  <1> QED BY <1>1, <1>2, <1>3

\* The stages that s leaves are none of a comparison's.
LEMMA ComparisonOver ==
    ASSUME IndInv, NEW s \in CommandStages, Ended(s), NEW checks \in SUBSET CheckSet(Rules), NEW dropped,
           Observe(s, checks, dropped), run.todo \cap DiffStages \subseteq dropped \cup {s}
    PROVE  run'.todo \cap DiffStages = {}
  <1>1. run \in RunSet /\ cmd \in CmdSet
    BY EndedFacts
  <1>2. run'.todo = run.todo \ (dropped \cup {s})
    BY <1>1, ObserveEffect
  <1> QED BY <1>2

LEMMA LocalInv ==
    ASSUME IndInv, SetUp \/ Test \/ \E s \in CommandStages : HeadSide(s)
    PROVE  IndInv'
  <1>0. {"setup", "test", "head-setup", "head-test"} \subseteq CommandStages
    BY DEF CommandStages, SetupStages, TestStages
  <1>1. Blocked("tests-pass") \in CheckSet(Rules) /\ Blocked("tests-pass").rule = "tests-pass"
        /\ Denied({Blocked("tests-pass")}) /\ Blocked("tests-pass").verdict = "unverifiable"
        /\ Blocked("tests-pass") # Verified("differential-test")
    <2>1. Verified("differential-test").verdict = "verified"
      BY StageNames, CheckFacts
    <2> QED BY <2>1, StageNames, CheckFacts
  <1>2. CASE SetUp
    <2>1. Ended("setup") /\ tree' = tree
      BY <1>2 DEF SetUp
    <2>2. CASE ExitedZero(cmd.outcome)
      <3>1. Observe("setup", {}, {}) /\ cmd.outcome # "error"
        BY <1>2, <2>2 DEF SetUp, ExitedZero
      <3> QED BY <1>0, <2>1, <3>1, EndedFacts, ObserveKeeps
    <2>3. CASE ~ExitedZero(cmd.outcome)
      <3>1. Observe("setup", {Blocked("tests-pass")}, {"test"})
        BY <1>2, <2>3 DEF SetUp
      <3> QED BY <1>0, <1>1, <2>1, <3>1, EndedFacts, ObserveKeeps
    <2> QED BY <2>2, <2>3
  <1>3. CASE Test
    <2> DEFINE check == TestCheck(cmd.outcome)
    <2>1. Ended("test") /\ tree' = tree /\ Observe("test", {check}, {})
      BY <1>3 DEF Test
    <2>2. /\ check \in CheckSet(Rules) /\ check.rule = "tests-pass"
          /\ check.verdict = "verified" => cmd.outcome = "passed"
          /\ cmd.outcome = "error" => Denied({check})
      BY <2>1, EndedFacts, TestCheckFacts
    <2>3. check # Verified("differential-test")
      <3>1. Verified("differential-test").rule = "differential-test"
        BY StageNames, CheckFacts
      <3> QED BY <2>2, <3>1
    <2> HIDE DEF check
    <2> QED BY <1>0, <2>1, <2>2, <2>3, EndedFacts, ObserveKeeps
  <1>4. ASSUME NEW s \in {"head-setup", "head-test"}, HeadSide(s) PROVE IndInv'
    <2>1. Ended(s) /\ tree' = tree /\ Observe(s, {}, {})
      BY <1>4 DEF HeadSide
    <2> QED BY <1>0, <2>1, EndedFacts, ObserveKeeps
  <1> QED BY <1>2, <1>3, <1>4 DEF HeadSide

LEMMA BaseSetUpInv ==
    ASSUME IndInv, BaseSetUp
    PROVE  IndInv'
  <1>0. "base-setup" \in CommandStages
    BY DEF CommandStages, SetupStages, TestStages
  <1>1. Ended("base-setup")
    BY DEF BaseSetUp
  <1>2. CASE ExitedZero(cmd.outcome) /\ ExitedZero(OutcomeOf("head-setup"))
    <2>1. Observe("base-setup", {}, {}) /\ tree' = tree
      BY <1>2 DEF BaseSetUp
    <2>2. cmd.outcome # "error" /\ ~Observed("head-setup", {"error"})
      <3>1. ~ExitedZero("error")
        BY DEF ExitedZero
      <3> QED BY <1>1, <1>2, <3>1, EndedFacts, OutcomeFacts DEF Observed
    <2> QED BY <1>0, <1>1, <2>1, <2>2, EndedFacts, ObserveKeeps
  <1>3. CASE ~(ExitedZero(cmd.outcome) /\ ExitedZero(OutcomeOf("head-setup")))
    <2>1. Observe("base-setup", {Blocked("differential-test")}, DiffStages) /\ Removed({"head", "base"})
      BY <1>3 DEF BaseSetUp
    <2>2. {Blocked("differential-test")} \in SUBSET CheckSet(Rules)
          /\ \A c \in {Blocked("differential-test")} :
               c.rule # "tests-pass" /\ c # Verified("differential-test") /\ Denied({c})
      BY ComparisonChecks
    <2>3. Observe("base-setup", {Blocked("differential-test")}, DiffStages)
      BY <2>1
    <2>4. run'.todo \cap DiffStages = {}
      BY <1>0, <1>1, <2>2, <2>3, ComparisonOver
    <2>5. /\ tree' \in [Dirs -> TreeSet(Nat)]
          /\ tree'["repo"] = tree["repo"] /\ tree'["candidate"] = tree["candidate"]
      BY <2>1, RemovedFacts
    <2>6. Denied({Blocked("differential-test")})
      BY <2>2
    <2>7. "base-setup" \notin {"test", "review-test", "review", "base-test"} /\ DiffStages # {"test"}
      BY DEF DiffStages
    <2> QED BY <1>0, <1>1, <2>2, <2>3, <2>4, <2>5, <2>6, <2>7, ObserveKeeps
  <1> QED BY <1>2, <1>3

LEMMA CompareInv ==
    ASSUME IndInv, NEW matched \in BOOLEAN, Compare(matched)
    PROVE  IndInv'
  <1> DEFINE found == DifferentialCheck(OutcomeOf("head-test"), cmd.outcome)
             check == IF matched \/ found.verdict # "verified" THEN found ELSE Contradicted("differential-test")
  <1>0. "base-test" \in CommandStages /\ "head-test" # "error"
    BY DEF CommandStages, SetupStages, TestStages
  <1>1. Ended("base-test") /\ Observe("base-test", {check}, {}) /\ Removed({"head", "base"})
    BY DEF Compare
  <1>2. run # NoRun /\ "head-test" \notin run.todo /\ run.todo \cap DiffStages = {"base-test"}
        /\ "base-test" \in run.todo /\ cmd.outcome \in Outcomes
    BY <1>1, EndedFacts, OrderFacts DEF Current
  <1>3. PICK o \in run.observed : o.stage = "head-test"
    BY <1>2 DEF IndInv, PlanTrue, Observed
  <1>4. OutcomeOf("head-test") = o.outcome /\ o.outcome \in Outcomes
    BY <1>2, <1>3, OutcomeFacts
  <1>5. /\ found \in CheckSet(Rules) /\ found.rule = "differential-test"
        /\ found.verdict = "verified" =>
             ExitedZero(o.outcome) /\ cmd.outcome \notin {"error", "reported", "empty", "silent", "passed"}
        /\ "error" \in {o.outcome, cmd.outcome} => Denied({found})
    BY <1>2, <1>4, DifferentialFacts
  <1>6. /\ Verified("differential-test").verdict = "verified"
        /\ Contradicted("differential-test").verdict = "contradicted"
        /\ Contradicted("differential-test") \in CheckSet(Rules)
        /\ Contradicted("differential-test").rule = "differential-test"
        /\ Denied({Contradicted("differential-test")})
    BY StageNames, CheckFacts
  <1> HIDE DEF found
  <1>7. /\ check \in CheckSet(Rules) /\ check.rule = "differential-test"
        /\ "error" \in {o.outcome, cmd.outcome} => Denied({check})
    BY <1>5, <1>6
  <1>8. check = Verified("differential-test") => ExitedZero(o.outcome) /\ cmd.outcome = "failed"
    BY <1>2, <1>5, <1>6 DEF Outcomes
  <1> HIDE DEF check
  <1>9. run'.todo \cap DiffStages = {}
    BY <1>0, <1>1, <1>2, <1>7, ComparisonOver
  <1>10. Observed("head-test", {"error"}) => Denied({check})
    <2>1. \A p \in run.observed : p.stage = "head-test" => p = o
      BY <1>2, <1>3 DEF IndInv, PlanTrue
    <2> QED BY <1>7, <2>1 DEF Observed
  <1>11. /\ tree' \in [Dirs -> TreeSet(Nat)]
         /\ tree'["repo"] = tree["repo"] /\ tree'["candidate"] = tree["candidate"]
    BY <1>1, RemovedFacts
  <1>12. Verified("differential-test") \in {check} =>
           /\ cmd.outcome = "failed"
           /\ \E p \in run.observed : p.stage = "head-test" /\ ExitedZero(p.outcome)
    BY <1>3, <1>8
  <1>13. Ended("base-test") /\ Observe("base-test", {check}, {})
    BY <1>1
  <1> QED BY <1>0, <1>7, <1>9, <1>10, <1>11, <1>12, <1>13, ObserveKeeps

LEMMA ReviewInv ==
    ASSUME IndInv, ReviewSetUp \/ \E s \in CommandStages : Review(s)
    PROVE  IndInv'
  <1>0. /\ {"review-setup", "review", "review-test"} \subseteq CommandStages
        /\ {"review-setup", "review", "review-test", "review-head", "review-worktree"}
             \subseteq Rules \ {"tests-pass", "differential-test"}
    BY DEF CommandStages, SetupStages, TestStages, Rules
  <1>1. CASE ReviewSetUp
    <2>1. Ended("review-setup") /\ tree' = tree
      BY <1>1 DEF ReviewSetUp
    <2>2. CASE ExitedZero(cmd.outcome)
      <3>1. Observe("review-setup", {Noted("review-setup")}, {}) /\ cmd.outcome # "error"
        BY <1>1, <2>2 DEF ReviewSetUp, ExitedZero
      <3>2. /\ Noted("review-setup") \in CheckSet(Rules) /\ Noted("review-setup").rule # "tests-pass"
            /\ Noted("review-setup") # Verified("differential-test")
        BY <1>0, PlainChecks
      <3> QED BY <1>0, <2>1, <3>1, <3>2, EndedFacts, ObserveKeeps
    <2>3. CASE ~ExitedZero(cmd.outcome)
      <3>1. PICK check \in {Contradicted("review-setup"), Blocked("review-setup")} :
              Observe("review-setup", {check}, ReviewStages)
        BY <1>1, <2>3 DEF ReviewSetUp
      <3>2. /\ check \in CheckSet(Rules) /\ check.rule # "tests-pass" /\ Denied({check})
            /\ check # Verified("differential-test")
        BY <1>0, PlainChecks
      <3>3. ReviewStages # {"test"} /\ "review-setup" \notin {"test", "review", "review-test", "base-setup", "base-test"}
        BY DEF ReviewStages
      <3> QED BY <1>0, <2>1, <3>1, <3>2, <3>3, EndedFacts, ObserveKeeps
    <2> QED BY <2>2, <2>3
  <1>2. ASSUME NEW s \in {"review", "review-test"}, Review(s)
        PROVE  IndInv'
    <2> DEFINE tested == IF s = "review-test" THEN {TestCheck(cmd.outcome)} ELSE {}
               check == CASE ReviewMoved            -> Blocked("review-head")
                          [] ReviewTouched          -> Contradicted("review-worktree")
                          [] cmd.outcome = "error"  -> Blocked(s)
                          [] cmd.outcome = "failed" -> Contradicted(s)
                          [] OTHER                  -> Verified(s)
               dropped == IF check.verdict = "verified" THEN {} ELSE ReviewStages
    <2>1. Ended(s) /\ tree' = tree /\ Observe(s, tested \cup {check}, dropped)
      BY <1>2 DEF Review
    <2>2. \/ check = Blocked("review-head") \/ check = Contradicted("review-worktree")
          \/ check = Blocked(s) \/ check = Contradicted(s)
          \/ check = Verified(s) /\ cmd.outcome # "error" /\ ~ReviewMoved /\ ~ReviewTouched
      OBVIOUS
    <2> HIDE DEF check
    <2>3. /\ Blocked("review-head").verdict = "unverifiable" /\ Blocked(s).verdict = "unverifiable"
          /\ Contradicted("review-worktree").verdict = "contradicted" /\ Contradicted(s).verdict = "contradicted"
          /\ Verified(s).verdict = "verified"
      BY <1>0, VerdictFacts
    <2>4. PICK rule \in {"review-head", "review-worktree", s} :
            check \in {Blocked(rule), Contradicted(rule), Verified(rule)}
      BY <2>2
    <2>5. /\ check \in CheckSet(Rules) /\ check.rule # "tests-pass"
          /\ check # Verified("differential-test")
      <3>1. rule \in Rules /\ rule # "tests-pass" /\ rule # "differential-test"
        BY <1>0
      <3> QED BY <2>4, <3>1, PlainChecks
    <2>6. /\ check.verdict = "verified" => check = Verified(s)
          /\ check = Verified(s) => cmd.outcome # "error" /\ ~ReviewMoved /\ ~ReviewTouched
          /\ check # Verified(s) => Denied({check})
      <3>1. CASE check = Blocked("review-head")
        BY <1>0, <2>3, <3>1, PlainChecks
      <3>2. CASE check = Contradicted("review-worktree")
        BY <1>0, <2>3, <3>2, PlainChecks
      <3>3. CASE check \in {Blocked(s), Contradicted(s)}
        BY <1>0, <2>3, <3>3, PlainChecks
      <3>4. CASE check = Verified(s) /\ cmd.outcome # "error" /\ ~ReviewMoved /\ ~ReviewTouched
        BY <3>4
      <3> QED BY <2>2, <3>1, <3>2, <3>3, <3>4
    <2>7. dropped \in {{}, ReviewStages} /\ (dropped # {} => check # Verified(s))
      BY <2>3, <2>6
    <2>8. /\ TestCheck(cmd.outcome) \in CheckSet(Rules) /\ TestCheck(cmd.outcome).rule = "tests-pass"
          /\ TestCheck(cmd.outcome).verdict = "verified" => cmd.outcome = "passed"
          /\ TestCheck(cmd.outcome) # Verified("differential-test")
      <3>1. Verified("differential-test").rule = "differential-test"
        BY StageNames, CheckFacts
      <3> QED BY <2>1, <3>1, EndedFacts, TestCheckFacts
    <2> DEFINE checks == tested \cup {check}
    <2>9. /\ checks \in SUBSET CheckSet(Rules) /\ Verified("differential-test") \notin checks
          /\ \A c \in checks : c.rule = "tests-pass" /\ c.verdict = "verified" =>
               s \in {"test", "review-test"} /\ cmd.outcome = "passed"
      BY <2>5, <2>8
    <2>10. check # Verified(s) => Denied(checks)
      BY <2>6, DeniedGrows
    <2>11. Exactly(tree["candidate"]) \/ Denied(checks)
      BY <2>6, <2>10 DEF ReviewMoved, ReviewTouched, Exactly
    <2>12. cmd.outcome = "error" => Denied(checks)
      BY <2>6, <2>10
    <2>13. ReviewStages # {"test"} /\ s \notin {"test", "base-setup", "base-test"} /\ s \in CommandStages
      BY <1>0 DEF ReviewStages
    <2>14. dropped # {} => Denied(checks)
      BY <2>7, <2>10
    <2>15. Ended(s) /\ tree' = tree /\ Observe(s, checks, dropped)
      BY <2>1
    <2>16. tree' \in [Dirs -> TreeSet(Nat)]
      BY <2>1, TreeFacts
    <2> HIDE DEF checks, dropped
    <2> QED BY <2>7, <2>9, <2>11, <2>12, <2>13, <2>14, <2>15, <2>16, ObserveKeeps
  <1> QED BY <1>1, <1>2 DEF Review

-----------------------------------------------------------------------------
(* Somebody changes a worktree.                                              *)

LEMMA DisturbInv ==
    ASSUME IndInv, run # NoRun, NEW dir \in Dirs, NEW commit \in Nat, NEW differs \in Differences,
           Disturb(dir, commit, differs)
    PROVE  IndInv'
  <1> USE DEF IndInv
  <1>1. /\ tree[dir] # NoTree /\ (dir = "repo" \/ ~isolated)
        /\ tree' = [tree EXCEPT ![dir].commit = commit, ![dir].differs = differs]
        /\ cmd' = IF Running /\ ~isolated /\ cmd.dir = dir /\ SawTree(tree[dir]) # SawTree(tree'[dir])
                  THEN [cmd EXCEPT !.saw.altered = TRUE] ELSE cmd
        /\ UNCHANGED <<isolated, box, container, stray, replaced>>
        /\ run' = [run EXCEPT !.undone = @ \/ (Exactly(tree'[dir]) /\ ~Exactly(tree[dir]))]
        /\ UNCHANGED <<log, tip, base, issued, report, runs>>
    BY DEF Disturb, ChangeTree
  <1>2. /\ tree \in [Dirs -> TreeSet(Nat)] /\ run \in RunSet /\ report = NoReport
    BY DEF TypeOK, PlanTrue
  <1>3. run' \in RunSet /\ run' # NoRun
    <2>1. run' \in RunSet
      BY <1>1, <1>2 DEF RunSet
    <2> QED BY <2>1 DEF RunSet, NoRun, Modes
  <1>4. /\ SameRun /\ run'.observed = run.observed /\ run'.todo = run.todo /\ run'.results = run.results
        /\ run'.undone = (run.undone \/ (Exactly(tree'[dir]) /\ ~Exactly(tree[dir])))
    BY <1>1, <1>2 DEF RunSet, SameRun
  <1>5. /\ tree' \in [Dirs -> TreeSet(Nat)]
        /\ \A d \in Dirs : d # dir => tree'[d] = tree[d]
        /\ \A d \in Dirs : tree'[d].overlay = tree[d].overlay
        /\ tree'[dir].commit = commit /\ tree'[dir].differs = differs
    BY <1>1, <1>2 DEF TreeSet
  <1>6. cmd = NoCmd => cmd' = NoCmd
    BY <1>1 DEF Running, NoCmd
  <1>7. ASSUME cmd # NoCmd
        PROVE  /\ cmd \in CmdSet /\ cmd' \in CmdSet /\ cmd' # NoCmd /\ cmd'.phase = cmd.phase /\ cmd'.dir = cmd.dir
               /\ cmd'.network = cmd.network /\ cmd'.outcome = cmd.outcome
               /\ \/ cmd' = cmd
                  \/ cmd'.saw.altered /\ ~isolated
    <2>1. cmd \in CmdSet
      BY <1>7 DEF TypeOK
    <2> QED BY <1>1, <2>1, RunOrNot DEF CmdSet, SawSet, NoCmd, Phases
  <1>8. TypeOK'
    <2>1. run'.head \in Commits /\ run'.base \in Commits
      BY <1>4 DEF TypeOK, SameRun
    <2>2. Commits' = Commits
      BY <1>1 DEF Commits
    <2>3. cmd' \in CmdSet \cup {NoCmd}
      BY <1>6, <1>7
    <2> QED BY <1>1, <1>3, <1>5, <2>1, <2>2, <2>3 DEF TypeOK
  <1>9. PlanTrue'
    BY <1>1, <1>2, <1>3, <1>4 DEF PlanTrue, SameRun, Observed
  <1>10. CommandTrue'
    <2>1. \A s : Current(s)' = Current(s)
      BY <1>3, <1>4 DEF Current
    <2> QED BY <1>1, <1>6, <1>7, <2>1 DEF CommandTrue
  <1>11. HeadContent' = HeadContent
    BY <1>4 DEF HeadContent, SameRun
  <1>12. \A d \in Dirs : Exactly(tree[d])' <=> (tree'[d].commit = run.head /\ tree'[d].differs # "tracked")
    BY <1>4 DEF Exactly, SameRun
  <1>13. \A d \in Dirs : ~run'.undone /\ ~Exactly(tree[d]) => ~Exactly(tree[d])'
    BY <1>4, <1>5, <1>12 DEF Exactly
  <1>14. HasRead' => HasRead
    BY <1>6, <1>7 DEF HasRead
  <1>15. ReadTrue'
    <2>1. ASSUME HasRead', cmd'.dir \in {"repo", "candidate"}, ~run'.undone, Exactly(tree[cmd.dir])'
          PROVE  cmd'.saw = HeadContent
      <3>1. HasRead /\ cmd # NoCmd
        BY <1>14, <2>1 DEF HasRead
      <3>2. cmd \in CmdSet /\ cmd' \in CmdSet /\ cmd'.dir = cmd.dir
        BY <1>7, <3>1
      <3>3. cmd.dir \in Dirs /\ cmd.dir \in {"repo", "candidate"}
        BY <2>1, <3>2, VerificationAssumption
      <3>4. Exactly(tree[cmd.dir]) /\ ~run.undone
        BY <1>4, <1>13, <2>1, <3>2, <3>3
      <3>5. cmd.saw = HeadContent
        BY <3>1, <3>3, <3>4 DEF ReadTrue
      <3>6. tree'[cmd.dir].commit = run.head /\ tree'[cmd.dir].differs # "tracked"
        BY <1>12, <2>1, <3>2, <3>3
      <3>7. cmd.dir = dir => SawTree(tree[dir]) = SawTree(tree'[dir])
        BY <1>5, <3>4, <3>6 DEF Exactly, SawTree
      <3> QED BY <1>1, <3>5, <3>7
    <2>2. ~tree'["repo"].overlay /\ ~tree'["candidate"].overlay
      BY <1>5, VerificationAssumption DEF ReadTrue
    <2>3. ~run'.undone => ~run.undone
      BY <1>4
    <2>4. ~run'.undone /\ ~Exactly(tree["repo"]) => ~Exactly(tree["repo"])'
      BY <1>13, VerificationAssumption
    <2> QED BY <1>3, <1>4, <1>11, <2>1, <2>2, <2>3, <2>4 DEF ReadTrue
  <1>16. TestedTrue'
    BY <1>3, <1>4 DEF TestedTrue, Observed, SameRun
  <1>17. ReceiptTrue'
    BY <1>1, <1>4 DEF ReceiptTrue, SameRun
  <1>18. ComparisonTrue'
    <2>1. Compared' = Compared
      BY <1>4 DEF Compared, SameRun
    <2>2. isolated => tree'["head"] = tree["head"] /\ tree'["base"] = tree["base"]
      BY <1>1, <1>5, VerificationAssumption
    <2>3. isolated /\ HasRead' => cmd' = cmd
      BY <1>7, <1>14 DEF HasRead
    <2> QED BY <1>1, <1>4, <1>14, <2>1, <2>2, <2>3 DEF ComparisonTrue, Observed
  <1>19. StrayTrue'
    BY <1>1, <1>4, <1>6, <1>7 DEF StrayTrue, Observed, NoCmd
  <1>20. ReportTrue'
    BY <1>1, <1>2, ReportWaits
  <1> QED BY <1>8, <1>9, <1>10, <1>15, <1>16, <1>17, <1>18, <1>19, <1>20

-----------------------------------------------------------------------------
(* The authority plan.                                                       *)

Held == {"BLOCK", "HOLD", "UNSURE"}

LEMMA KindFacts ==
    /\ {"hook", "guard-hook"} \subseteq Grants
    /\ Switches = Entries \cup Controls \cup {"connect"}
    /\ {"approval-policy", "inherit"} \subseteq ModeKinds
    /\ \A kind \in ModeKinds : kind \notin Grants \cup Switches \cup Guards \cup Unread \cup {"launch", "rule", "model"}
    /\ \A kind \in Switches : kind \notin Grants \cup Guards \cup Unread \cup {"launch", "rule", "model"}
    /\ \A kind \in Grants : kind \notin Guards \cup Unread \cup {"launch", "rule", "model"}
    /\ \A kind \in Guards : kind \notin Unread \cup {"launch", "rule", "model"}
    /\ \A kind \in Unread : kind \notin {"launch", "rule", "model"}
  BY DEF ModeKinds, Grants, Secrets, Names, Switches, Entries, Controls, Guards, Unread

\* The modes of each kind.
LEMMA SupportedFacts ==
    /\ Supported("auth") = {"oauth", "chatgpt"}
    /\ Supported("execution") = {"local", "remote"}
    /\ Supported("approval") = {"prompt", "auto", "writes", "approve"}
    /\ Supported("tool-approval") = {"prompt", "auto", "writes", "approve"}
    /\ Supported("default-mode") = {"plan", "dontAsk", "default", "acceptEdits", "auto", "bypassPermissions"}
    /\ Supported("sandbox-mode") = {"read-only", "workspace-write", "danger-full-access"}
    /\ Supported("approval-policy") = {"untrusted", "on-request", "granular", "never"}
    /\ Supported("reviewer") = {"user", "auto_review", "guardian_subagent"}
    /\ Supported("inherit") = {"none", "core", "all"}
  BY DEF Supported, Asks, Automated

\* What a mode is worth.
LEMMA ModeWorthFacts ==
    ASSUME NEW kind
    PROVE  /\ ModeWorth(kind, "prompt") = {} /\ ModeWorth(kind, "read-only") = {}
           /\ ModeWorth(kind, "user") = {} /\ ModeWorth(kind, "none") = {} /\ ModeWorth(kind, "local") = {}
           /\ ModeWorth(kind, "approve") = {"auto", "writes", "approve"}
           /\ ModeWorth(kind, "default") = {"plan", "dontAsk", "default"}
           /\ ModeWorth(kind, "acceptEdits") = {"plan", "dontAsk", "default", "acceptEdits"}
           /\ kind = "default-mode" => ModeWorth(kind, "auto") = {"plan", "dontAsk", "default", "auto"}
           /\ kind # "default-mode" => ModeWorth(kind, "auto") = {"auto"}
           /\ ModeWorth(kind, "bypassPermissions") = Supported(kind)
           /\ ModeWorth(kind, "danger-full-access") = {"workspace-write", "danger-full-access"}
           /\ ModeWorth(kind, "never") = {"untrusted", "on-request", "granular", "never"}
           /\ ModeWorth(kind, "auto_review") = {"automated"} /\ ModeWorth(kind, "guardian_subagent") = {"automated"}
           /\ ModeWorth(kind, "all") = {"core", "all"}
           /\ \A mode \in {"oauth", "chatgpt", "remote", "writes", "plan", "dontAsk", "workspace-write",
                           "untrusted", "on-request", "granular", "core"} : ModeWorth(kind, mode) = {mode}
  <1>1. /\ ModeWorth(kind, "prompt") = {} /\ ModeWorth(kind, "read-only") = {}
        /\ ModeWorth(kind, "user") = {} /\ ModeWorth(kind, "none") = {} /\ ModeWorth(kind, "local") = {}
    BY DEF ModeWorth, Automated
  <1>2. ModeWorth(kind, "approve") = {"auto", "writes", "approve"}
    BY DEF ModeWorth, Automated
  <1>3. ModeWorth(kind, "default") = {"plan", "dontAsk", "default"}
    BY DEF ModeWorth, Automated
  <1>4. ModeWorth(kind, "acceptEdits") = {"plan", "dontAsk", "default", "acceptEdits"}
    BY DEF ModeWorth, Automated
  <1>5. /\ kind = "default-mode" => ModeWorth(kind, "auto") = {"plan", "dontAsk", "default", "auto"}
        /\ kind # "default-mode" => ModeWorth(kind, "auto") = {"auto"}
    BY DEF ModeWorth, Automated
  <1>6. ModeWorth(kind, "bypassPermissions") = Supported(kind)
    BY DEF ModeWorth, Automated
  <1>7. ModeWorth(kind, "danger-full-access") = {"workspace-write", "danger-full-access"}
    BY DEF ModeWorth, Automated
  <1>8. ModeWorth(kind, "never") = {"untrusted", "on-request", "granular", "never"}
    BY DEF ModeWorth, Automated, Asks
  <1>9. ModeWorth(kind, "auto_review") = {"automated"} /\ ModeWorth(kind, "guardian_subagent") = {"automated"}
    BY DEF ModeWorth, Automated
  <1>10. ModeWorth(kind, "all") = {"core", "all"}
    BY DEF ModeWorth, Automated
  <1>11. \A mode \in {"oauth", "chatgpt", "remote", "writes", "plan", "dontAsk", "workspace-write",
                     "untrusted", "on-request", "granular", "core"} : ModeWorth(kind, mode) = {mode}
    BY DEF ModeWorth, Automated
  <1> QED BY <1>1, <1>2, <1>3, <1>4, <1>5, <1>6, <1>7, <1>8, <1>9, <1>10, <1>11

\* A first declaration that is overlooked.
FirstOdd(kind, value) ==
  value \notin Supported(kind) /\ (kind = "inherit" \/ (kind = "approval-policy" /\ value # "unknown"))

LEMMA AddedModeSound ==
    ASSUME NEW kind \in ModeKinds, NEW value, AddedMode(kind, value) \notin Held
    PROVE  Worth(kind, value) \subseteq Unsaid(kind) \/ FirstOdd(kind, value)
  <1>1. kind = "execution" => value = "local"
    BY DEF AddedMode, Held
  <1>2. kind \in {"approval", "tool-approval"} => value = "prompt"
    BY SupportedFacts DEF AddedMode, Held
  <1>3. kind = "sandbox-mode" => value = "read-only"
    BY SupportedFacts DEF AddedMode, Held
  <1>4. kind = "reviewer" => value = "user"
    BY DEF AddedMode, Held
  <1>5. kind = "approval-policy" => value # "never"
    BY DEF AddedMode, Held
  <1>6. kind = "inherit" => value \notin {"all", "core"}
    BY DEF AddedMode, Held
  <1>7. kind \notin {"auth", "default-mode"}
    BY SupportedFacts DEF AddedMode, Held
  <1>8. kind \in {"execution", "approval", "tool-approval", "sandbox-mode", "reviewer", "approval-policy", "inherit"}
    BY <1>7 DEF ModeKinds
  <1>9. value \in Supported(kind) => Worth(kind, value) = ModeWorth(kind, value)
    BY KindFacts DEF Worth, ModeKinds
  <1>10. CASE kind \in {"execution", "approval", "tool-approval", "sandbox-mode", "reviewer"}
    <2>1. value \in Supported(kind) /\ ModeWorth(kind, value) = {}
      BY <1>1, <1>2, <1>3, <1>4, <1>10, SupportedFacts, ModeWorthFacts
    <2> QED BY <1>9, <2>1
  <1>11. CASE kind = "approval-policy"
    <2>1. value \in Supported(kind) => ModeWorth(kind, value) = {value} /\ value \in Asks
      BY <1>5, <1>11, SupportedFacts, ModeWorthFacts DEF Asks
    <2>2. Unsaid(kind) = Asks \cup {"unsaid"}
      BY <1>11, KindFacts DEF Unsaid
    <2>3. value # "unknown"
      BY <1>11 DEF AddedMode, Held
    <2> QED BY <1>9, <1>11, <2>1, <2>2, <2>3 DEF FirstOdd
  <1>12. CASE kind = "inherit"
    <2>1. value \in Supported(kind) => ModeWorth(kind, value) = {}
      BY <1>6, <1>12, SupportedFacts, ModeWorthFacts
    <2> QED BY <1>9, <1>12, <2>1 DEF FirstOdd
  <1> QED BY <1>8, <1>10, <1>11, <1>12

\* What is added without a word gives no more than what held unsaid, or is
\* overlooked.
LEMMA AddedSound ==
    ASSUME NEW kind, NEW value, WhenAdded(kind, value) \notin Held,
           kind = "launch" => value.decision = "ALLOW"
    PROVE  Worth(kind, value) \subseteq Unsaid(kind) \/ FirstOdd(kind, value)
  <1>1. kind \notin Grants /\ kind # "launch"
    BY KindFacts DEF WhenAdded, Held
  <1>2. CASE kind \in Switches
    <2>1. value # "ALLOW"
      BY <1>2, KindFacts DEF WhenAdded, Held
    <2> QED BY <1>2, <2>1, KindFacts DEF Worth
  <1>3. CASE kind \in Guards
    <2>1. value = "on"
      BY <1>3, KindFacts DEF WhenAdded, Held
    <2> QED BY <1>3, <2>1, KindFacts DEF Worth
  <1>4. CASE kind = "rule"
    <2>1. value # "ALLOW"
      BY <1>4, KindFacts DEF WhenAdded, Held
    <2>2. Unsaid(kind) = {"unsaid"}
      BY <1>4, KindFacts DEF Unsaid
    <2> QED BY <1>4, <2>1, <2>2, KindFacts DEF Worth
  <1>5. CASE kind = "model"
    <2>1. value \notin Mutable
      BY <1>5, KindFacts DEF WhenAdded, Held
    <2> QED BY <1>5, <2>1, KindFacts DEF Worth
  <1>6. CASE kind \in ModeKinds
    <2>1. AddedMode(kind, value) \notin Held
      BY <1>6, KindFacts DEF WhenAdded
    <2> QED BY <1>6, <2>1, AddedModeSound
  <1>7. kind \in Grants \cup Switches \cup Guards \cup ModeKinds \cup {"launch", "rule", "model"}
    BY DEF WhenAdded, Held
  <1> QED BY <1>1, <1>2, <1>3, <1>4, <1>5, <1>6, <1>7

\* What is removed without a word gave all that holds unsaid.
LEMMA RemovedSound ==
    ASSUME NEW kind, NEW value, WhenRemoved(kind, value) \notin Held
    PROVE  Unsaid(kind) \subseteq Worth(kind, value)
  <1>0. Entries \subseteq Switches /\ Controls \subseteq Switches /\ "connect" \in Switches
        /\ "guard-hook" \in Grants /\ "hook" \in Grants
    BY DEF Switches, Grants
  <1>1. kind # "guard-hook"
    BY KindFacts DEF WhenRemoved, Held
  <1>2. CASE kind \in (Grants \ {"guard-hook"}) \cup Controls \cup {"connect", "launch"}
    <2>1. kind \notin ModeKinds \cup Entries \cup Guards \cup Unread \cup {"rule", "guard-hook", "approval-policy", "inherit"}
      BY <1>2 DEF ModeKinds, Grants, Secrets, Names, Entries, Controls, Guards, Unread
    <2>2. Unsaid(kind) = {}
      BY <2>1 DEF Unsaid
    <2> QED BY <2>2
  <1>3. CASE kind \in Entries
    <2>1. kind \notin (Grants \ {"guard-hook"}) \cup Controls \cup {"connect", "launch", "guard-hook"}
      BY <1>3 DEF Grants, Secrets, Names, Entries, Controls
    <2>2. value = "ALLOW"
      BY <1>0, <1>3, <2>1, KindFacts DEF WhenRemoved, Held
    <2>3. Unsaid(kind) = {"unsaid"}
      BY <1>0, <1>1, <1>3, KindFacts DEF Unsaid, Entries
    <2> QED BY <1>0, <1>3, <2>2, <2>3, KindFacts DEF Worth
  <1>4. CASE kind \in Guards
    <2>1. value # "on"
      BY <1>0, <1>4, KindFacts DEF WhenRemoved, Held
    <2>2. Unsaid(kind) = {"unsaid"}
      BY <1>0, <1>1, <1>4, KindFacts DEF Unsaid, Guards
    <2> QED BY <1>4, <2>1, <2>2, KindFacts DEF Worth
  <1>5. CASE kind = "rule"
    <2>1. value = "ALLOW"
      BY <1>0, <1>5, KindFacts DEF WhenRemoved, Held
    <2>2. Unsaid(kind) = {"unsaid"}
      BY <1>5 DEF Unsaid
    <2> QED BY <1>5, <2>1, <2>2, KindFacts DEF Worth
  <1>6. kind \in (Grants \ {"guard-hook"}) \cup Controls \cup Entries \cup Guards \cup {"connect", "launch", "rule"}
    BY <1>1 DEF WhenRemoved, Held
  <1> QED BY <1>2, <1>3, <1>4, <1>5, <1>6

\* One step up gives no less.
LEMMA StepGrows ==
    ASSUME NEW kind \in ModeKinds, NEW low, NEW high, <<low, high>> \in Steps(kind)
    PROVE  /\ low \in Supported(kind) /\ high \in Supported(kind)
           /\ ModeWorth(kind, low) \subseteq ModeWorth(kind, high)
  <1>1. CASE kind \in {"approval", "tool-approval"}
    BY <1>1, SupportedFacts, ModeWorthFacts DEF Steps
  <1>2. CASE kind = "default-mode"
    BY <1>2, SupportedFacts, ModeWorthFacts DEF Steps
  <1>3. CASE kind = "sandbox-mode"
    BY <1>3, SupportedFacts, ModeWorthFacts DEF Steps
  <1>4. CASE kind = "inherit"
    BY <1>4, SupportedFacts, ModeWorthFacts DEF Steps
  <1>5. CASE kind = "approval-policy"
    BY <1>5, SupportedFacts, ModeWorthFacts DEF Steps, Asks
  <1>6. CASE kind = "reviewer"
    BY <1>6, SupportedFacts, ModeWorthFacts DEF Steps, Automated
  <1>7. kind \notin {"auth", "execution"}
    BY DEF Steps
  <1> QED BY <1>1, <1>2, <1>3, <1>4, <1>5, <1>6, <1>7 DEF ModeKinds

LEMMA AboveGrows ==
    ASSUME NEW kind \in ModeKinds, NEW low, NEW high, Above(kind, high, low)
    PROVE  Worth(kind, low) \subseteq Worth(kind, high)
  <1>1. low \in Supported(kind) /\ high \in Supported(kind)
        /\ ModeWorth(kind, low) \subseteq ModeWorth(kind, high)
    <2>1. CASE <<low, high>> \in Steps(kind)
      BY <2>1, StepGrows
    <2>2. ASSUME NEW m, <<low, m>> \in Steps(kind), <<m, high>> \in Steps(kind)
          PROVE  low \in Supported(kind) /\ high \in Supported(kind)
                 /\ ModeWorth(kind, low) \subseteq ModeWorth(kind, high)
      <3>1. low \in Supported(kind) /\ ModeWorth(kind, low) \subseteq ModeWorth(kind, m)
        BY <2>2, StepGrows
      <3>2. high \in Supported(kind) /\ ModeWorth(kind, m) \subseteq ModeWorth(kind, high)
        BY <2>2, StepGrows
      <3> QED BY <3>1, <3>2
    <2>3. ASSUME NEW m, NEW n, <<low, m>> \in Steps(kind), <<m, n>> \in Steps(kind), <<n, high>> \in Steps(kind)
          PROVE  low \in Supported(kind) /\ high \in Supported(kind)
                 /\ ModeWorth(kind, low) \subseteq ModeWorth(kind, high)
      <3>1. low \in Supported(kind) /\ ModeWorth(kind, low) \subseteq ModeWorth(kind, m)
        BY <2>3, StepGrows
      <3>2. ModeWorth(kind, m) \subseteq ModeWorth(kind, n)
        BY <2>3, StepGrows
      <3>3. high \in Supported(kind) /\ ModeWorth(kind, n) \subseteq ModeWorth(kind, high)
        BY <2>3, StepGrows
      <3> QED BY <3>1, <3>2, <3>3
    <2> QED BY <2>1, <2>2, <2>3 DEF Above
  <1>2. \A mode \in Supported(kind) : Worth(kind, mode) = ModeWorth(kind, mode)
    BY KindFacts DEF Worth
  <1> QED BY <1>1, <1>2

\* What is changed without a word gives no more than it did, or puts one unknown
\* reviewer in another's place.
LEMMA ChangedSound ==
    ASSUME NEW kind, NEW old, NEW new, WhenChanged(kind, old, new) \notin Held
    PROVE  \/ Worth(kind, new) \subseteq Worth(kind, old)
           \/ kind = "reviewer" /\ {old, new} \cap Supported(kind) = {}
  <1>1. Relation(kind, old, new) \notin {"expansion", "incomparable"}
    BY DEF WhenChanged, Held
  <1>2. kind # "launch"
    BY <1>1, KindFacts DEF Relation
  <1>3. CASE kind \in Switches \cup {"rule"}
    <2>1. ~(Height(new) > Height(old))
      BY <1>1, <1>3, KindFacts DEF Relation
    <2>2. /\ new = "ALLOW" => old = "ALLOW"
          /\ new = "ASK" => old \in {"ALLOW", "ASK"}
      BY <2>1 DEF Height
    <2> QED BY <1>3, <2>2, KindFacts DEF Worth
  <1>4. CASE kind \in Guards
    <2>1. new = "on"
      BY <1>1, <1>4, KindFacts DEF Relation
    <2> QED BY <1>4, <2>1, KindFacts DEF Worth
  <1>5. CASE kind = "model"
    <2>1. new \notin Mutable
      BY <1>1, <1>5, KindFacts DEF Relation
    <2> QED BY <1>5, <2>1, KindFacts DEF Worth
  <1>6. CASE kind \in ModeKinds
    <2>1. CASE Above(kind, old, new)
      BY <1>6, <2>1, AboveGrows
    <2>2. CASE ~Above(kind, old, new)
      <3>1. /\ kind = "reviewer"
            /\ {old, new} \subseteq Automated \/ {old, new} \cap Supported(kind) = {}
        BY <1>1, <1>6, <2>2, KindFacts DEF Relation
      <3>2. new \in Supported(kind) => Worth(kind, new) = ModeWorth(kind, new)
        BY <1>6, KindFacts DEF Worth
      <3>3. old \in Supported(kind) => Worth(kind, old) = ModeWorth(kind, old)
        BY <1>6, KindFacts DEF Worth
      <3>4. \A mode \in Automated : ModeWorth(kind, mode) = {"automated"} /\ mode \in Supported(kind)
        BY <3>1, SupportedFacts, ModeWorthFacts DEF Automated
      <3> QED BY <3>1, <3>2, <3>3, <3>4
    <2> QED BY <2>1, <2>2
  <1>7. kind \in Switches \cup Guards \cup ModeKinds \cup {"rule", "model"}
    BY <1>1, <1>2, KindFacts DEF Relation
  <1> QED BY <1>3, <1>4, <1>5, <1>6, <1>7

-----------------------------------------------------------------------------
(* What allowUnknownChanges lets pass.                                       *)

LEMMA AddedDoubt ==
    ASSUME NEW kind, NEW value, WhenAdded(kind, value) # "BLOCK", kind # "model",
           Undecided(kind, value) \/ WhenAdded(kind, value) = "UNSURE"
    PROVE  \/ kind \in Unread
           \/ /\ kind \in ModeKinds
              /\ value \notin Bold \cap Supported(kind) \/ (kind = "default-mode" /\ value # "bypassPermissions")
  <1>1. CASE kind \in ModeKinds
    <2>1. AddedMode(kind, value) # "BLOCK"
      BY <1>1, KindFacts DEF WhenAdded
    <2>2. CASE kind = "default-mode"
      BY <1>1, <2>1, <2>2, SupportedFacts DEF AddedMode
    <2>3. CASE value \notin Supported(kind)
      BY <1>1, <2>3
    <2>4. CASE kind # "default-mode" /\ value \in Supported(kind)
      <3>1. AddedMode(kind, value) = "UNSURE"
        BY <1>1, <2>4, KindFacts DEF Undecided, WhenAdded
      <3> QED BY <1>1, <2>4, <3>1, SupportedFacts DEF AddedMode, ModeKinds, Automated
    <2> QED BY <2>2, <2>3, <2>4
  <1>2. CASE kind \notin ModeKinds
    <2>1. WhenAdded(kind, value) # "UNSURE"
      BY <1>2, KindFacts DEF WhenAdded
    <2> QED BY <1>2, <2>1 DEF Undecided
  <1> QED BY <1>1, <1>2

LEMMA RemovedDoubt ==
    ASSUME NEW kind, NEW value, kind # "model",
           Undecided(kind, value) \/ WhenRemoved(kind, value) = "UNSURE"
    PROVE  kind \in Unread \cup ModeKinds
  <1>1. ASSUME WhenRemoved(kind, value) = "UNSURE" PROVE kind \in ModeKinds
    BY <1>1, KindFacts DEF WhenRemoved
  <1> QED BY <1>1 DEF Undecided

LEMMA ChangedDoubt ==
    ASSUME NEW kind, NEW old, NEW new, WhenChanged(kind, old, new) # "BLOCK", kind # "model",
           Undecided(kind, old) \/ Undecided(kind, new), kind \notin Unread
    PROVE  /\ kind \in ModeKinds
           /\ \/ new \notin Bold \cap Supported(kind)
              \/ Worth(kind, new) \subseteq Worth(kind, old)
  <1>1. kind \in ModeKinds
    BY DEF Undecided
  <1>2. CASE WhenChanged(kind, old, new) \notin Held
    BY <1>1, <1>2, ChangedSound
  <1>3. ASSUME new \in Supported(kind), WhenChanged(kind, old, new) \in Held PROVE new \notin Bold
    <2>1. Undecided(kind, old) /\ ~Undecided(kind, new)
      BY <1>1, <1>3, KindFacts DEF Undecided
    <2>2. ~FromUnknown(kind, old, new)
      BY <1>3 DEF WhenChanged, Held
    <2>3. /\ AddedMode(kind, new) # "BLOCK"
          /\ kind \in {"approval", "tool-approval"} => new = "prompt"
          /\ kind = "default-mode" => new \in {"plan", "dontAsk", "default"}
      BY <1>1, <2>1, <2>2, KindFacts DEF FromUnknown, WhenAdded
    <2>4. CASE kind \in {"approval", "tool-approval", "default-mode"}
      BY <2>3, <2>4 DEF Bold, Automated
    <2>5. CASE kind \in {"auth", "execution"}
      BY <1>3, <2>3, <2>5, SupportedFacts DEF AddedMode, Bold, Automated
    <2>6. CASE kind \in {"sandbox-mode", "inherit"}
      BY <1>3, <2>3, <2>6, SupportedFacts DEF AddedMode, Bold, Automated
    <2>7. CASE kind \in {"approval-policy", "reviewer"}
      BY <1>3, <2>3, <2>7, SupportedFacts DEF AddedMode, Bold, Automated
    <2> QED BY <1>1, <2>4, <2>5, <2>6, <2>7 DEF ModeKinds
  <1> QED BY <1>1, <1>2, <1>3

-----------------------------------------------------------------------------
\* A server that is on is launched.
Matched(P) ==
  \A key \in DOMAIN P : Kind(key) = "launch" /\ ServerOn(P, key) => P[key].decision = "ALLOW"

LEMMA TokenWorth ==
    ASSUME NEW kind, NEW old, NEW new, Token(kind, old) = Token(kind, new)
    PROVE  Worth(kind, old) = Worth(kind, new)
  <1>1. CASE kind = "launch"
    BY <1>1, KindFacts DEF Worth
  <1>2. CASE kind # "launch"
    BY <1>2 DEF Token
  <1> QED BY <1>1, <1>2

LEMMA KeySound ==
    ASSUME NEW B, NEW H, NEW key \in DOMAIN B \cup DOMAIN H, NEW policy, Matched(H), Loosened(B, H, key),
           Differs(B, H, key) => Disposition(B, H, key, policy) \notin {"BLOCK", "HOLD"}
    PROVE  Excused(B, H, key, policy) \/ Overlooked(B, H, key, policy)
  <1> SUFFICES ASSUME ~KeyApproved(B, H, key, policy), ~Unlisted(B, H, key), ~Overlooked(B, H, key, policy)
               PROVE  policy.allowUnknown /\ NotUnderstood(B, H, key)
    BY DEF Excused, Overlooked
  <1>1. ~(WorthIn(H, key) \subseteq WorthIn(B, key))
        /\ (Kind(key) \in OfServer => ServerOn(H, key))
        /\ Active(B, H, key)
    BY DEF Loosened, Active
  <1>2. key \in DOMAIN B /\ key \in DOMAIN H => Token(Kind(key), B[key]) # Token(Kind(key), H[key])
    BY <1>1, TokenWorth DEF WorthIn
  <1>3. Disposition(B, H, key, policy) \notin {"BLOCK", "HOLD"}
    BY <1>2 DEF Differs
  <1>4. ~RemovedWithServer(B, H, key)
    BY <1>1 DEF RemovedWithServer, ServerOn
  <1>5. Says(B, H, key) =
          IF key \notin DOMAIN B THEN WhenAdded(Kind(key), H[key])
          ELSE IF key \notin DOMAIN H THEN WhenRemoved(Kind(key), B[key])
          ELSE WhenChanged(Kind(key), B[key], H[key])
    BY <1>1, <1>2, <1>4 DEF Says
  <1>6. \/ Says(B, H, key) \notin Held
        \/ /\ Says(B, H, key) \in {"HOLD", "UNSURE"} /\ policy.allowUnknown
           /\ UnknownSetting(B, H, key)
    BY <1>3 DEF Disposition, Held
  <1>7. Says(B, H, key) \in Held
    <2> SUFFICES ASSUME Says(B, H, key) \notin Held PROVE FALSE
      OBVIOUS
    <2>1. CASE key \notin DOMAIN B
      <3>1. key \in DOMAIN H /\ WhenAdded(Kind(key), H[key]) \notin Held
        BY <1>5, <2>1
      <3>2. Kind(key) = "launch" => H[key].decision = "ALLOW"
        BY <1>1, <3>1 DEF Matched, OfServer
      <3>3. ~(Worth(Kind(key), H[key]) \subseteq Unsaid(Kind(key)))
        BY <1>1, <2>1, <3>1 DEF WorthIn
      <3>4. FirstOdd(Kind(key), H[key])
        BY <3>1, <3>2, <3>3, AddedSound
      <3>5. UndecidedIn(H, key)
        BY <3>1, <3>4, KindFacts DEF FirstOdd, UndecidedIn, Undecided
      <3> QED BY <2>1, <3>1, <3>4, <3>5 DEF FirstOdd, Overlooked
    <2>2. CASE key \in DOMAIN B /\ key \notin DOMAIN H
      <3>1. Unsaid(Kind(key)) \subseteq Worth(Kind(key), B[key])
        BY <1>5, <2>2, RemovedSound
      <3> QED BY <1>1, <2>2, <3>1 DEF WorthIn
    <2>3. CASE key \in DOMAIN B /\ key \in DOMAIN H
      <3>1. ~(Worth(Kind(key), H[key]) \subseteq Worth(Kind(key), B[key]))
        BY <1>1, <2>3 DEF WorthIn
      <3>2. Kind(key) = "reviewer" /\ {B[key], H[key]} \cap Supported(Kind(key)) = {}
        BY <1>5, <2>3, <3>1, ChangedSound
      <3>3. UndecidedIn(B, key) /\ UndecidedIn(H, key)
        BY <2>3, <3>2 DEF UndecidedIn, Undecided, ModeKinds
      <3> QED BY <2>3, <3>2, <3>3 DEF Overlooked
    <2> QED BY <2>1, <2>2, <2>3
  <1>8. /\ Says(B, H, key) \in {"HOLD", "UNSURE"} /\ policy.allowUnknown /\ Kind(key) # "model"
        /\ UndecidedIn(B, key) \/ UndecidedIn(H, key) \/ Says(B, H, key) = "UNSURE"
    BY <1>6, <1>7 DEF UnknownSetting
  <1>9. NotUnderstood(B, H, key)
    <2> SUFFICES ASSUME Kind(key) \notin Unread PROVE NotUnderstood(B, H, key)
      BY DEF NotUnderstood
    <2>1. CASE key \notin DOMAIN B
      <3>1. Undecided(Kind(key), H[key]) \/ WhenAdded(Kind(key), H[key]) = "UNSURE"
        BY <1>5, <1>8, <2>1 DEF UndecidedIn
      <3>2. WhenAdded(Kind(key), H[key]) # "BLOCK"
        BY <1>5, <1>8, <2>1
      <3> QED BY <1>8, <2>1, <3>1, <3>2, AddedDoubt DEF Overlooked, NotBold
    <2>2. CASE key \in DOMAIN B /\ key \notin DOMAIN H
      <3>1. Undecided(Kind(key), B[key]) \/ WhenRemoved(Kind(key), B[key]) = "UNSURE"
        BY <1>5, <1>8, <2>2 DEF UndecidedIn
      <3> QED BY <1>8, <2>2, <3>1, RemovedDoubt DEF Overlooked, NotBold
    <2>3. CASE key \in DOMAIN B /\ key \in DOMAIN H
      <3>1. WhenChanged(Kind(key), B[key], H[key]) = "HOLD"
        BY <1>5, <1>8, <2>3 DEF WhenChanged
      <3>2. Undecided(Kind(key), B[key]) \/ Undecided(Kind(key), H[key])
        BY <1>5, <1>8, <2>3, <3>1 DEF UndecidedIn
      <3>3. ~(Worth(Kind(key), H[key]) \subseteq Worth(Kind(key), B[key]))
        BY <1>1, <2>3 DEF WorthIn
      <3>4. Kind(key) \in ModeKinds /\ H[key] \notin Bold \cap Supported(Kind(key))
        BY <1>8, <3>1, <3>2, <3>3, ChangedDoubt
      <3> QED BY <2>3, <3>2, <3>4 DEF NotUnderstood, NotBold, UndecidedIn
    <2> QED BY <2>1, <2>2, <2>3
  <1> QED BY <1>8, <1>9

LEMMA PlanSound ==
    ASSUME NEW B, NEW H, NEW gaps, NEW policy, Matched(H), PlanStatus(B, H, gaps, policy) = "PASS"
    PROVE  ~Widened(B, H, policy)
  <1>1. \A key \in DOMAIN B \cup DOMAIN H :
          Differs(B, H, key) => Disposition(B, H, key, policy) \notin {"BLOCK", "HOLD"}
    <2> DEFINE changed == {k \in DOMAIN B \cup DOMAIN H : Differs(B, H, k)}
               dispositions == {Disposition(B, H, key, policy) : key \in changed}
    <2>1. "BLOCK" \notin dispositions /\ "HOLD" \notin dispositions
      BY DEF PlanStatus
    <2> QED BY <2>1
  <1> QED BY <1>1, KeySound DEF Widened

-----------------------------------------------------------------------------
(* The declarations: a server's connection and its launch agree.            *)

\* The atom is that of the server that its key names.
Placed(a, revision) ==
  LET server == revision[a.key[1]].servers[a.key[3]] IN
  /\ a.key[2] = "launch"  => a.value.decision = Switch(server.enabled)
  /\ a.key[2] = "connect" => a.value = Switch(server.enabled)

LEMMA AtomKind ==
    ASSUME NEW path, NEW kind, NEW owner, NEW name, NEW value, NEW a, a = Atom(path, kind, owner, name, value)
    PROVE  a.key[1] = path /\ a.key[2] = kind /\ a.key[3] = owner /\ a.value = value
  BY DEF Atom

LEMMA SettingKind ==
    ASSUME NEW path, NEW kind, NEW owner, NEW value, NEW a \in Setting(path, kind, owner, value)
    PROVE  a.key[2] = kind
  <1>1. a = Atom(path, kind, owner, "", value)
    BY DEF Setting
  <1> QED BY <1>1 DEF Atom

LEMMA EachKind ==
    ASSUME NEW path, NEW kind, NEW owner, NEW names, NEW value, NEW a \in Each(path, kind, owner, names, value)
    PROVE  a.key[2] = kind
  BY DEF Each, Atom

LEMMA ListedKind ==
    ASSUME NEW path, NEW kind, NEW owner, NEW allowed, NEW denied, NEW a \in Listed(path, kind, owner, allowed, denied)
    PROVE  a.key[2] = kind
  BY DEF Listed, Each, Atom

LEMMA SwitchKind ==
    ASSUME NEW path, NEW kind, NEW value, NEW a \in OptionalSwitch(path, kind, value)
    PROVE  a.key[2] = kind
  BY SettingKind DEF OptionalSwitch

LEMMA OpaqueKind ==
    ASSUME NEW path, NEW owner, NEW locator, NEW value, NEW a \in Opaque(path, owner, locator, value)
    PROVE  a.key[2] = "opaque"
  BY DEF Opaque, Atom

LEMMA EnvironmentKind ==
    ASSUME NEW path, NEW owner, NEW env, NEW a \in Environment(path, owner, env)
    PROVE  a.key[2] = "credential"
  BY DEF Environment, Atom

LEMMA ControlKind ==
    ASSUME NEW path, NEW kind, NEW value, NEW default, NEW a \in Control(path, kind, value, default)
    PROVE  a.key[2] \in {kind, "sandbox-opaque"}
  <1>1. \E k \in {kind, "sandbox-opaque"} : \E name, v : a = Atom(path, k, "agent", name, v)
    BY DEF Control
  <1> QED BY <1>1, AtomKind

Connecting == {"launch", "connect"}

LEMMA OtherKinds ==
    {"env-ref", "oauth-resource", "tool-approval", "sandbox-enabled", "sandbox-opaque", "default-mode", "disable-bypass",
     "inherit", "sandbox-mode", "network", "approval-policy", "reviewer", "auto-allow", "escape", "weaker-nested",
     "all-sockets", "local-binding"} \cap Connecting = {}
  BY DEF Connecting

LEMMA NotAtom ==
    ASSUME NEW a, a.key[2] \in Connecting,
           NEW path, NEW kind, kind \notin Connecting, NEW owner, NEW name, NEW value
    PROVE  a # Atom(path, kind, owner, name, value)
  BY AtomKind

LEMMA ServerPlaced ==
    ASSUME NEW path, NEW servers, NEW a \in Servers(path, servers), a.key[2] \in Connecting
    PROVE  /\ a.key[1] = path
           /\ a.key[2] = "launch"  => a.value.decision = Switch(servers[a.key[3]].enabled)
           /\ a.key[2] = "connect" => a.value = Switch(servers[a.key[3]].enabled)
  <1>1. PICK owner \in DOMAIN servers : a \in ServerAtoms(path, owner, servers[owner])
    BY DEF Servers
  <1>2. PICK server : server = servers[owner]
    OBVIOUS
  <1>3. a \notin Approvals(path, owner, server)
    <2>1. \A tool : Atom(path, "tool-approval", owner, tool, server.approvals[tool]).key[2] = "tool-approval"
      BY DEF Atom
    <2> QED BY <2>1, SettingKind DEF Approvals, Connecting
  <1>4. a \notin Opaque(path, owner, "entry", server.other) /\ a \notin Opaque(path, owner, "fields", server.other)
        /\ a \notin Environment(path, owner, server.env)
    BY OpaqueKind, EnvironmentKind DEF Connecting
  <1>5. a \notin Setting(path, "auth", owner, server.auth) /\ a \notin Setting(path, "execution", owner, server.execution)
        /\ a \notin Each(path, "oauth-scope", owner, server.scopes, "ALLOW")
        /\ a \notin Listed(path, "tool", owner, server.enabledTools, server.disabledTools)
    BY SettingKind, EachKind, ListedKind DEF Connecting
  <1>6. a \notin {Atom(path, "env-ref", owner, name, server.refs[name]) : name \in DOMAIN server.refs}
        /\ a # Atom(path, "oauth-resource", owner, "", "ALLOW")
    BY NotAtom, OtherKinds
  <1>7. \/ a = Atom(path, "connect", owner, "", Switch(server.enabled))
        \/ a = Atom(path, "launch", owner, "", Launch(server))
    BY <1>1, <1>2, <1>3, <1>4, <1>5, <1>6 DEF ServerAtoms
  <1>8. CASE a = Atom(path, "connect", owner, "", Switch(server.enabled))
    <2>1. a.key[1] = path /\ a.key[2] = "connect" /\ a.key[3] = owner /\ a.value = Switch(server.enabled)
      BY <1>8 DEF Atom
    <2> QED BY <1>2, <2>1
  <1>9. CASE a = Atom(path, "launch", owner, "", Launch(server))
    <2>1. Launch(server).decision = Switch(server.enabled)
      BY DEF Launch
    <2>2. a.key[1] = path /\ a.key[2] = "launch" /\ a.key[3] = owner /\ a.value = Launch(server)
      BY <1>9 DEF Atom
    <2> QED BY <1>2, <2>1, <2>2
  <1> QED BY <1>7, <1>8, <1>9

LEMMA McpPlaced ==
    ASSUME NEW path, NEW doc, NEW a \in McpAtoms(path, doc), a.key[2] \in Connecting
    PROVE  a \in Servers(path, doc.servers)
  <1>1. a \notin Opaque(path, "agent", "servers", doc.second) /\ a \notin Opaque(path, "agent", "root", doc.root)
    BY OpaqueKind DEF Connecting
  <1> QED BY <1>1 DEF McpAtoms

LEMMA ClaudePlaced ==
    ASSUME NEW path, NEW doc, NEW a \in ClaudeAtoms(path, doc), a.key[2] \in Connecting
    PROVE  a \in Servers(path, doc.servers)
  <1>1. a \notin PermissionRules(path, doc)
    BY ListedKind, EachKind DEF PermissionRules, Connecting
  <1>2. ASSUME NEW sandbox, a \in Sandbox(path, sandbox) PROVE FALSE
    <2>1. /\ a \notin Control(path, "auto-allow", sandbox.autoAllow, TRUE)
          /\ a \notin Control(path, "escape", sandbox.escape, TRUE)
          /\ a \notin Control(path, "weaker-nested", sandbox.weakerNested, FALSE)
          /\ a \notin Control(path, "all-sockets", sandbox.allSockets, FALSE)
          /\ a \notin Control(path, "local-binding", sandbox.localBinding, FALSE)
      <3>1. \A kind, value, default : kind \notin Connecting => a \notin Control(path, kind, value, default)
        BY ControlKind, OtherKinds
      <3> QED BY <3>1, OtherKinds
    <2>2. /\ a \notin Each(path, "excluded", "agent", sandbox.excluded, "ALLOW")
          /\ a \notin Each(path, "host", "agent", sandbox.hosts, "ALLOW")
          /\ a \notin Each(path, "unix-socket", "agent", sandbox.sockets, "ALLOW")
          /\ a \notin Setting(path, "fail-closed", "agent", sandbox.failClosed)
      BY EachKind, SettingKind DEF Connecting
    <2>3. \A v : a # Atom(path, "sandbox-enabled", "agent", "", v)
      BY NotAtom, OtherKinds
    <2>4. \A v : a # Atom(path, "sandbox-opaque", "agent", "other", v)
      BY NotAtom, OtherKinds
    <2> QED BY <1>2, <2>1, <2>2, <2>3, <2>4 DEF Sandbox
  <1>3. a \notin Hooks(path, doc.hooks)
    BY DEF Hooks, Atom, Connecting
  <1>4. /\ a \notin {Atom(path, "default-mode", "agent", "", IF doc.mode = Unset THEN "default" ELSE doc.mode)}
        /\ a \notin (IF doc.bypass = Unset THEN {}
                     ELSE {Atom(path, "disable-bypass", "agent", "", Switch(doc.bypass # "disable"))})
    <2>1. /\ \A v : a # Atom(path, "default-mode", "agent", "", v)
          /\ \A v : a # Atom(path, "disable-bypass", "agent", "", v)
      BY NotAtom, OtherKinds
    <2> QED BY <2>1
  <1>5. a \notin Each(path, "directory", "agent", doc.directories, "ALLOW")
        /\ a \notin OptionalSwitch(path, "all-mcp", doc.allMcp)
        /\ a \notin Listed(path, "mcp-server", "agent", doc.enabledServers, doc.disabledServers)
        /\ a \notin Listed(path, "plugin", "agent", doc.enabledPlugins, doc.disabledPlugins)
    BY EachKind, SwitchKind, ListedKind DEF Connecting
  <1>6. a \notin Environment(path, "session", doc.env) /\ a \notin Setting(path, "model", "agent", doc.model)
        /\ a \notin Opaque(path, "agent", "managed", doc.managed)
    BY EnvironmentKind, SettingKind, OpaqueKind DEF Connecting
  <1>7. a \notin UNION {Sandbox(path, sandbox) : sandbox \in doc.sandbox}
    BY <1>2
  <1> QED BY <1>1, <1>3, <1>4, <1>5, <1>6, <1>7 DEF ClaudeAtoms

LEMMA CodexPlaced ==
    ASSUME NEW path, NEW doc, NEW a \in CodexAtoms(path, doc), a.key[2] \in Connecting
    PROVE  a \in Servers(path, doc.servers)
  <1>1. ASSUME NEW shell, a \in ShellEnvironment(path, shell) PROVE FALSE
    <2>1. a \notin OptionalSwitch(path, "keep-secrets", shell.keepSecrets) /\ a \notin Environment(path, "shell", shell.set)
      BY SwitchKind, EnvironmentKind DEF Connecting
    <2>2. \A v : a # Atom(path, "inherit", "agent", "", v)
      BY NotAtom, OtherKinds
    <2> QED BY <1>1, <2>1, <2>2 DEF ShellEnvironment
  <1>2. a \notin
          {Atom(path, "sandbox-mode", "agent", "", IF doc.mode = Unset THEN "read-only" ELSE doc.mode),
           Atom(path, "network", "agent", "", Switch(doc.network)),
           Atom(path, "approval-policy", "agent", "", IF doc.approval = Unset THEN "unknown" ELSE doc.approval),
           Atom(path, "reviewer", "agent", "", IF doc.reviewer = Unset THEN "user" ELSE doc.reviewer)}
    <2>1. /\ \A v : a # Atom(path, "sandbox-mode", "agent", "", v)
          /\ \A v : a # Atom(path, "network", "agent", "", v)
          /\ \A v : a # Atom(path, "approval-policy", "agent", "", v)
          /\ \A v : a # Atom(path, "reviewer", "agent", "", v)
      BY NotAtom, OtherKinds
    <2> QED BY <2>1
  <1>3. a \notin Each(path, "root", "agent", doc.roots, "ALLOW") /\ a \notin Setting(path, "model", "agent", doc.model)
        /\ a \notin Opaque(path, "agent", "features", doc.features)
    BY EachKind, SettingKind, OpaqueKind DEF Connecting
  <1>4. a \notin UNION {ShellEnvironment(path, shell) : shell \in doc.shell}
    BY <1>1
  <1> QED BY <1>2, <1>3, <1>4 DEF CodexAtoms

LEMMA DeclaredMatched == \A revision : Matched(Declared(revision))
  <1> SUFFICES ASSUME NEW revision PROVE Matched(Declared(revision))
    OBVIOUS
  <1>1. ASSUME NEW a \in AtomsOf(revision) PROVE Placed(a, revision)
    <2> SUFFICES ASSUME a.key[2] \in Connecting PROVE Placed(a, revision)
      BY DEF Placed, Connecting
    <2>1. PICK path \in DOMAIN revision : a \in Atoms(path, revision[path])
      BY DEF AtomsOf
    <2>2. a \in Servers(path, revision[path].servers)
      BY <2>1, McpPlaced, ClaudePlaced, CodexPlaced DEF Atoms
    <2> QED BY <2>2, ServerPlaced DEF Placed
  <1>2. PICK P : P = Declared(revision)
    OBVIOUS
  <1>3. ASSUME NEW key \in DOMAIN P PROVE \E a \in AtomsOf(revision) : a.key = key /\ a.value = P[key]
    BY <1>2, <1>3 DEF Declared
  <1>4. ASSUME NEW key \in DOMAIN P, Kind(key) = "launch", ServerOn(P, key)
        PROVE  P[key].decision = "ALLOW"
    <2>1. PICK a \in AtomsOf(revision) : a.key = key /\ a.value = P[key]
      BY <1>3, <1>4
    <2>2. PICK c \in AtomsOf(revision) : c.key = Server(key) /\ c.value = P[Server(key)]
      BY <1>3, <1>4 DEF ServerOn
    <2>3. a.value.decision = Switch(revision[key[1]].servers[key[3]].enabled)
      BY <1>1, <1>4, <2>1 DEF Placed, Kind
    <2>4. c.value = Switch(revision[key[1]].servers[key[3]].enabled)
      <3>1. Server(key)[1] = key[1] /\ Server(key)[2] = "connect" /\ Server(key)[3] = key[3]
        BY DEF Server
      <3>2. c.key[1] = key[1] /\ c.key[2] = "connect" /\ c.key[3] = key[3]
        BY <2>2, <3>1
      <3> QED BY <1>1, <2>2, <3>2 DEF Placed
    <2> QED BY <1>4, <2>1, <2>2, <2>3, <2>4 DEF ServerOn
  <1> QED BY <1>2, <1>4 DEF Matched

-----------------------------------------------------------------------------
(* The end of a run.                                                         *)

\* Between two runs nothing is left of the last one but its report, the
\* receipts and perhaps a container.
LEMMA RestInv ==
    ASSUME ReportTrue', run' = NoRun, cmd' = NoCmd, container' = FALSE, stray' \in BOOLEAN,
           isolated' \in BOOLEAN, replaced' \in {"none", "docker", "runtime"},
           tree' \in [Dirs -> TreeSet(Nat)], ~tree'["repo"].overlay, ~tree'["candidate"].overlay,
           box' \in [Dirs -> [commit : Nat, state : {"none", "debris", "intact", "touched"}]],
           log' \in Seq([code : Codes, receipt : Receipts, parent : Nat]),
           tip' \in Commits', base' \in Commits',
           issued' \subseteq ReceiptSet, \A r \in issued' : r.head \in Commits'
    PROVE  IndInv'
  <1>1. TypeOK'
    BY DEF TypeOK
  <1>2. ~HasRead'
    BY DEF HasRead
  <1> QED BY <1>1, <1>2 DEF IndInv, PlanTrue, CommandTrue, ReadTrue, TestedTrue, ReceiptTrue,
                            ComparisonTrue, StrayTrue, NoCmd

LEMMA ExitRests ==
    ASSUME IndInv, run # NoRun, Exit, ReportTrue',
           issued' \subseteq ReceiptSet, \A r \in issued' : r.head \in Commits
    PROVE  IndInv'
  <1>1. /\ run' = NoRun /\ cmd' = NoCmd /\ replaced' = "none" /\ container' = FALSE
        /\ stray' = (stray \/ container) /\ tree' = [d \in Dirs |-> NoTree]
        /\ box' = [d \in Dirs |-> NoBox]
        /\ isolated' = isolated /\ log' = log /\ tip' = tip /\ base' = base
    BY DEF Exit
  <1>2. /\ tree' \in [Dirs -> TreeSet(Nat)] /\ ~tree'["repo"].overlay /\ ~tree'["candidate"].overlay
    BY <1>1, TreeFacts, VerificationAssumption
  <1>3. box' \in [Dirs -> [commit : Nat, state : {"none", "debris", "intact", "touched"}]]
    BY <1>1 DEF NoBox
  <1>4. /\ isolated \in BOOLEAN /\ stray' \in BOOLEAN
        /\ log \in Seq([code : Codes, receipt : Receipts, parent : Nat])
        /\ tip \in Commits /\ base \in Commits
    BY <1>1 DEF IndInv, TypeOK
  <1>5. Commits' = Commits
    BY <1>1 DEF Commits
  <1> QED BY <1>1, <1>2, <1>3, <1>4, <1>5, RestInv

LEMMA AbortInv == IndInv /\ Abort => IndInv'
  <1> SUFFICES ASSUME IndInv, Abort PROVE IndInv'
    OBVIOUS
  <1>1. run # NoRun /\ Exit /\ report' = report /\ issued' = issued
    BY DEF Abort
  <1>2. report = NoReport /\ issued \subseteq ReceiptSet /\ \A r \in issued : r.head \in Commits
    BY <1>1 DEF IndInv, PlanTrue, TypeOK
  <1> QED BY <1>1, <1>2, ReportWaits, ExitRests

\* What the report adds to the run's own checks is about neither the tests nor
\* the comparison, unless a review never reached its tests.
LEMMA AddedChecks ==
    ASSUME IndInv, run # NoRun, NEW plan \in PlansMade, NEW results \in Results(plan)
    PROVE  /\ run.results \subseteq results /\ Unreached \subseteq results
           /\ run.mode = "maintainer" /\ Verified("differential-test") \in results
                => Verified("differential-test") \in run.results
  <1>1. PICK checks \in ModeChecks(plan), scan \in Scans :
          results = run.results \cup Unreached \cup checks \cup IntegrityChecks(scan, run.profile.integrity)
    BY DEF Results
  <1> DEFINE d == Verified("differential-test")
  <1>2. d.rule = "differential-test" /\ d.verdict = "verified"
    BY DEF Verified, Check
  <1>3. d \notin Unreached
    BY <1>2 DEF Unreached, Blocked, Check
  <1>4. d \notin IntegrityChecks(scan, run.profile.integrity)
    BY <1>1, <1>2 DEF IntegrityChecks, Scans, Noted, Blocked, Contradicted, Check
  <1>5. run.mode = "maintainer" => d \notin checks
    <2>1. \A claim \in Claims : d \notin ClaimChecks(claim)
      BY <1>2 DEF Claims, ClaimChecks, Verified, Contradicted, Unknown, Check
    <2>2. d \notin PlanChecks(plan.status)
      <3>1. plan.status \in {"PASS", "HOLD", "BLOCK"}
        BY DEF PlansMade, NoPlan, PlanOutcomes, Outcome, PlanStatus
      <3> QED BY <1>2, <3>1 DEF PlanChecks, Noted, Blocked, Contradicted, Check
    <2> QED BY <1>1, <2>1, <2>2 DEF ModeChecks
  <1> HIDE DEF d
  <1>6. run.mode = "maintainer" /\ d \in results => d \in run.results
    BY <1>1, <1>3, <1>4, <1>5
  <1> QED BY <1>1, <1>6 DEF d

\* A gate that passes was given a receipt that passes each of its checks.
LEMMA GateFacts ==
    ASSUME IndInv, run # NoRun, run.mode = "gate", NEW plan, NEW results \in Results(plan),
           \A c \in results : c.verdict # "contradicted" /\ c.verdict # "unverifiable"
    PROVE  LET r == run.receipt
           IN /\ r.intact /\ r.signer \in Pinned /\ r.status = "PASS" /\ r.policy = "trusted"
              /\ GitBound(r, run.base, run.head)
  <1> DEFINE r == run.receipt
             checks == GateChecks(r, run.base, run.head, run.snapshot)
  <1>1. checks \subseteq results
    BY DEF Results, ModeChecks
  <1>2. \A rule : Contradicted(rule) \notin results /\ Blocked(rule) \notin results
    BY DEF Contradicted, Blocked, Check
  <1>3. /\ Checked(r.intact, "portable-signature") \subseteq results => r.intact
        /\ Checked(r.policy = "trusted", "portable-policy") \subseteq results => r.policy = "trusted"
        /\ Checked(GitBound(r, run.base, run.head), "portable-git-binding") \subseteq results
             => GitBound(r, run.base, run.head)
        /\ Checked(r.signer \in Pinned, "portable-signer") \subseteq results => r.signer \in Pinned
    BY <1>2 DEF Checked
  <1>4. /\ Checked(r.intact, "portable-signature") \subseteq checks
        /\ Checked(r.policy = "trusted", "portable-policy") \subseteq checks
        /\ Checked(GitBound(r, run.base, run.head), "portable-git-binding") \subseteq checks
        /\ Pinned # {} => Checked(r.signer \in Pinned, "portable-signer") \subseteq checks
    BY DEF GateChecks
  <1> HIDE DEF checks
  <1>5. r.intact /\ r.policy = "trusted" /\ GitBound(r, run.base, run.head)
    <2>1. /\ Checked(r.intact, "portable-signature") \subseteq results
          /\ Checked(r.policy = "trusted", "portable-policy") \subseteq results
          /\ Checked(GitBound(r, run.base, run.head), "portable-git-binding") \subseteq results
      BY <1>1, <1>4
    <2> QED BY <1>3, <2>1
  <1>6. r.signer \in Pinned
    <2>1. CASE Pinned = {}
      <3>1. Blocked("portable-signer") \in checks
        BY <2>1 DEF GateChecks, checks
      <3> QED BY <1>1, <1>2, <3>1
    <2>2. CASE Pinned # {}
      <3>1. Checked(r.signer \in Pinned, "portable-signer") \subseteq results
        BY <1>1, <1>4, <2>2
      <3> QED BY <1>3, <3>1
    <2> QED BY <2>1, <2>2
  <1>7. r.status = "PASS"
    <2> SUFFICES ASSUME r.status # "PASS" PROVE FALSE
      OBVIOUS
    <2> DEFINE verdict == CASE r.status = "PASS" -> Verified("portable-local-verdict")
                            [] r.status = "FAIL" -> Contradicted("portable-local-verdict")
                            [] OTHER             -> Blocked("portable-local-verdict")
    <2>1. verdict \in {Contradicted("portable-local-verdict"), Blocked("portable-local-verdict")}
      OBVIOUS
    <2>2. verdict \in checks
      BY DEF GateChecks, checks
    <2> HIDE DEF verdict
    <2> QED BY <1>1, <1>2, <2>1, <2>2
  <1> QED BY <1>5, <1>6, <1>7

LEMMA ConcludeInv == IndInv /\ Conclude => IndInv'
  <1> SUFFICES ASSUME IndInv, Conclude PROVE IndInv'
    OBVIOUS
  <1>0. PICK plan \in PlansMade : \E results \in Results(plan) :
          /\ Stage("conclude") /\ Exit /\ report' = Report(results, plan)
          /\ issued' = IF run.mode # "verify" THEN issued
               ELSE issued \cup {Receipt("developer", TRUE, Report(results, plan).status, run.base, run.head, run.policy)}
    BY DEF Conclude
  <1>1. PICK results \in Results(plan) :
          /\ Stage("conclude") /\ Exit /\ report' = Report(results, plan)
          /\ issued' = IF run.mode # "verify" THEN issued
               ELSE issued \cup {Receipt("developer", TRUE, Report(results, plan).status, run.base, run.head, run.policy)}
    BY <1>0
  <1>2. /\ run # NoRun /\ run \in RunSet /\ cmd = NoCmd /\ cmd.phase = "none" /\ Current("conclude")
        /\ run.todo \subseteq Stages /\ run.head \in Commits
    BY <1>1 DEF Stage, Current, IndInv, TypeOK, RunSet, NoCmd
  <1>3. "test" \notin run.todo /\ "preserved" \notin run.todo /\ run.todo \cap DiffStages = {}
    BY <1>2, OrderFacts
  <1>4. log' = log /\ stray' = (stray \/ container) /\ container = FALSE
    BY <1>1, <1>2 DEF Exit, IndInv, CommandTrue, TypeOK
  <1>5. run.results \subseteq results /\ Unreached \subseteq results
    BY <1>2, AddedChecks
  <1>6. /\ report'.mode = run.mode /\ report'.strict = Strict /\ report'.isolated = isolated
        /\ report'.head = run.head /\ report'.base = run.base
        /\ report'.status = Status(results, 1, Strict) /\ report'.observed = run.observed
        /\ report'.regression = (Verified("differential-test") \in results)
        /\ report'.overlay = run.profile.overlay
        /\ report'.undone = run.undone /\ report'.widened = plan.widened
    BY <1>1 DEF Report
  <1>7. ASSUME report'.status = "PASS"
        PROVE  /\ ~Denied(run.results) /\ ~Denied(results)
               /\ \A c \in results : c.verdict # "contradicted"
               /\ Strict => \A c \in results : c.verdict # "unverifiable"
    <2>1. Status(results, 1, Strict) = "PASS"
      BY <1>6, <1>7
    <2> QED BY <1>5, <2>1, PassFacts, DeniedGrows
  <1>8. PassedAsCommitted'
    <2> SUFFICES ASSUME report'.status = "PASS" PROVE PassedAsCommitted'
      BY DEF PassedAsCommitted, Passed
    <2>1. ASSUME NEW o \in run.observed, o.stage \in {"test", "review", "review-test"}, o.outcome = "passed",
                 ~run.undone
          PROVE  o.saw = [commit |-> run.head, overlay |-> FALSE, altered |-> FALSE]
      BY <1>2, <1>3, <1>7, <2>1 DEF IndInv, ReadTrue, HeadContent
    <2>2. ASSUME Strict, run.mode # "verify"
          PROVE  \E o \in run.observed : o.stage \in {"test", "review-test"} /\ o.outcome = "passed"
      <3>1. PICK c \in results : c.rule = "tests-pass" /\ c \in run.results \cup Unreached
        <4>1. CASE \E c \in run.results : c.rule = "tests-pass"
          BY <1>5, <4>1
        <4>2. CASE ~\E c \in run.results : c.rule = "tests-pass"
          <5>1. run.mode = "maintainer" /\ run.profile.review = "test"
            BY <1>2, <1>3, <2>2, <4>2 DEF IndInv, TestedTrue
          <5>2. Unreached = {Blocked("tests-pass")}
            BY <4>2, <5>1 DEF Unreached
          <5> QED BY <1>5, <5>2, StageNames, CheckFacts
        <4> QED BY <4>1, <4>2
      <3>2. c \notin Unreached
        <4>1. Blocked("tests-pass").verdict = "unverifiable"
          BY StageNames, VerdictFacts
        <4> QED BY <1>7, <2>2, <4>1 DEF Unreached
      <3>3. c \in CheckSet(Rules)
        BY <1>2, <3>1, <3>2 DEF RunSet
      <3>4. c.verdict = "verified"
        BY <1>7, <2>2, <3>3 DEF CheckSet, Verdicts
      <3> QED BY <1>2, <3>1, <3>2, <3>4 DEF IndInv, TestedTrue, Observed
    <2> QED BY <1>6, <2>1, <2>2 DEF PassedAsCommitted, SawExactly
  <1>9. GatePassIsBacked' /\ (report'.mode = "gate" /\ report'.status = "PASS" => report'.head \in Commits')
    <2>1. Commits' = Commits
      BY <1>4 DEF Commits
    <2> SUFFICES ASSUME report'.status = "PASS", run.mode = "gate" PROVE GatePassIsBacked'
      BY <1>2, <1>6, <2>1 DEF GatePassIsBacked, Passed
    <2>2. Strict
      BY DEF Strict
    <2>3. LET r == run.receipt
          IN /\ r.intact /\ r.signer \in Pinned /\ r.status = "PASS" /\ r.policy = "trusted"
             /\ GitBound(r, run.base, run.head)
      BY <1>2, <1>7, <2>2, GateFacts
    <2>4. run.receipt \in issued
      BY <1>2, <2>3, VerificationAssumption DEF IndInv, ReceiptTrue
    <2>5. run.receipt.base = run.base /\ log[run.receipt.head].code = log[run.head].code
      BY <2>3 DEF GitBound, ReceiptOnlyTail
    <2>6. issued' = issued
      BY <1>1
    <2> QED BY <1>4, <1>6, <2>3, <2>4, <2>5, <2>6 DEF GatePassIsBacked
  <1>10. RegressionShown'
    <2> SUFFICES ASSUME run.mode = "maintainer", isolated, Verified("differential-test") \in results
                 PROVE  /\ \E o \in run.observed :
                             o.stage = "head-test" /\ ExitedZero(o.outcome)
                             /\ o.saw = [commit |-> run.head, overlay |-> FALSE, altered |-> FALSE]
                        /\ \E o \in run.observed :
                             o.stage = "base-test" /\ o.outcome = "failed"
                             /\ o.saw = [commit |-> run.base, overlay |-> run.profile.overlay, altered |-> FALSE]
      BY <1>6 DEF RegressionShown, SawExactly
    <2>1. Verified("differential-test") \in run.results
      BY <1>2, AddedChecks
    <2>2. /\ SawTree(Compared.head) = [commit |-> run.head, overlay |-> FALSE, altered |-> FALSE]
          /\ SawTree(Compared.base) = [commit |-> run.base, overlay |-> run.profile.overlay, altered |-> FALSE]
      BY DEF SawTree, Compared, Clean
    <2>3. ~ExitedZero("error")
      BY DEF ExitedZero
    <2> QED BY <1>2, <2>1, <2>2, <2>3 DEF IndInv, ComparisonTrue, Observed
  <1>11. NothingLeftRunning'
    <2> SUFFICES ASSUME report'.status = "PASS", stray PROVE FALSE
      BY <1>4 DEF NothingLeftRunning, Passed, IndInv, TypeOK
    <2>1. "base-setup" \notin run.todo /\ "base-test" \notin run.todo
      BY <1>3 DEF DiffStages
    <2> QED BY <1>2, <1>7, <2>1 DEF IndInv, StrayTrue
  <1>12. issued' \subseteq ReceiptSet /\ \A r \in issued' : r.head \in Commits
    <2>1. Report(results, plan).status \in Statuses
      BY DEF Report, Status, Statuses
    <2>2. issued \subseteq ReceiptSet /\ \A r \in issued : r.head \in Commits
      BY DEF IndInv, TypeOK
    <2> DEFINE r == Receipt("developer", TRUE, Report(results, plan).status, run.base, run.head, run.policy)
    <2>3. r \in ReceiptSet /\ r.head = run.head
      BY <1>2, <2>1 DEF Receipt, ReceiptSet, RunSet
    <2> HIDE DEF r
    <2>4. issued' \subseteq issued \cup {r}
      BY <1>1 DEF r
    <2> QED BY <1>2, <2>2, <2>3, <2>4
  <1>13. AuthorityKept'
    <2> SUFFICES ASSUME report'.status = "PASS", run.mode \in {"merge_group", "maintainer"}, plan.widened
                 PROVE  FALSE
      BY <1>6 DEF AuthorityKept, Passed
    <2>1. PICK change \in Changes, policy \in AuthorityPolicies : plan = Outcome(change[1], change[2], policy)
      BY DEF PlansMade, PlanOutcomes
    <2>2. plan.status # "PASS"
      <3>1. Matched(Declared(change[2]))
        BY DeclaredMatched
      <3> QED BY <2>1, <3>1, PlanSound DEF Outcome
    <2>3. plan.status \in {"HOLD", "BLOCK"}
      BY <2>1, <2>2 DEF Outcome, PlanStatus
    <2>4. PlanChecks(plan.status) \subseteq results
      BY DEF Results, ModeChecks
    <2>5. Denied(PlanChecks(plan.status))
      BY <2>3 DEF PlanChecks, Blocked, Contradicted, Check, Denied
    <2> QED BY <1>6, <1>7, <2>4, <2>5, DeniedGrows
  <1> QED BY <1>1, <1>2, <1>8, <1>9, <1>10, <1>11, <1>12, <1>13, ExitRests DEF ReportTrue

-----------------------------------------------------------------------------
(* Between two runs.                                                         *)

LEMMA IdleFacts ==
    ASSUME IndInv, run = NoRun
    PROVE  /\ cmd = NoCmd /\ container = FALSE /\ stray \in BOOLEAN /\ isolated \in BOOLEAN
           /\ replaced \in {"none", "docker", "runtime"}
           /\ tree \in [Dirs -> TreeSet(Nat)] /\ ~tree["repo"].overlay /\ ~tree["candidate"].overlay
           /\ box \in [Dirs -> [commit : Nat, state : {"none", "debris", "intact", "touched"}]]
           /\ log \in Seq([code : Codes, receipt : Receipts, parent : Nat])
           /\ tip \in Commits /\ base \in Commits /\ tip \in Nat /\ base \in Nat
           /\ issued \subseteq ReceiptSet /\ \A r \in issued : r.head \in Commits
  <1>1. cmd = NoCmd
    BY DEF IndInv, CommandTrue, Current
  <1>2. container = FALSE
    BY <1>1 DEF IndInv, CommandTrue, TypeOK, NoCmd
  <1>3. tip \in Nat /\ base \in Nat
    BY DEF IndInv, TypeOK, Commits
  <1> QED BY <1>1, <1>2, <1>3, TreeFacts DEF IndInv, TypeOK

\* A commit more leaves what the last report says of the earlier ones.
LEMMA CommitInv ==
    ASSUME IndInv, run = NoRun, UNCHANGED <<commandVars, issued, run, report>>,
           NEW commit \in [code : Codes, receipt : Receipts, parent : Nat],
           log' = Append(log, commit), tip' \in {tip, Len(log')}, base' \in {base, Len(log')}
    PROVE  IndInv'
  <1>1. /\ isolated' = isolated /\ tree' = tree /\ box' = box /\ container' = container
        /\ stray' = stray /\ replaced' = replaced /\ cmd' = cmd
        /\ issued' = issued /\ run' = run /\ report' = report
    BY DEF commandVars
  <1>2. log \in Seq([code : Codes, receipt : Receipts, parent : Nat]) /\ tip \in Commits /\ base \in Commits
    BY IdleFacts
  <1>3. /\ log' \in Seq([code : Codes, receipt : Receipts, parent : Nat])
        /\ Len(log') = Len(log) + 1 /\ Commits' = 1 .. Len(log') /\ Commits = 1 .. Len(log)
        /\ \A c \in Commits : log'[c] = log[c]
    BY <1>2 DEF Commits
  <1>4. Len(log) \in Nat
    BY <1>2
  <1>5. Commits \subseteq Commits' /\ tip' \in Commits' /\ base' \in Commits'
    BY <1>2, <1>3, <1>4
  <1>6. ReportTrue'
    <2>1. PassedAsCommitted' /\ RegressionShown' /\ NothingLeftRunning' /\ AuthorityKept'
      BY <1>1 DEF IndInv, ReportTrue, PassedAsCommitted, RegressionShown, NothingLeftRunning, AuthorityKept, Passed
    <2>2. report.mode = "gate" /\ report.status = "PASS" => report.head \in Commits
      BY DEF IndInv, ReportTrue
    <2>3. GatePassIsBacked'
      <3> SUFFICES ASSUME report.mode = "gate", report.status = "PASS" PROVE GatePassIsBacked'
        BY <1>1 DEF GatePassIsBacked, Passed
      <3>1. PICK r \in issued : /\ r.signer \in Pinned /\ r.status = "PASS" /\ r.policy = "trusted"
                                /\ r.base = report.base
                                /\ log[r.head].code = log[report.head].code
        BY DEF IndInv, ReportTrue, GatePassIsBacked, Passed
      <3>2. r.head \in Commits
        BY IdleFacts
      <3>3. log'[r.head].code = log'[report.head].code
        BY <1>3, <2>2, <3>1, <3>2
      <3> QED BY <1>1, <3>1, <3>3 DEF GatePassIsBacked
    <2> QED BY <1>1, <1>5, <2>1, <2>2, <2>3 DEF ReportTrue
  <1>7. \A r \in issued' : r.head \in Commits'
    BY <1>1, <1>5, IdleFacts
  <1> QED BY <1>1, <1>3, <1>5, <1>6, <1>7, IdleFacts, RestInv

LEMMA HarnessFacts ==
    ASSUME NEW mode \in Modes, NEW profile \in Profiles, NEW sealed \in BOOLEAN,
           NEW harness \in BOOLEAN, NEW tests \in BOOLEAN,
           NEW checks, checks = HarnessChecks(mode, profile, sealed, harness, tests)
    PROVE  /\ checks \in SUBSET CheckSet(Rules)
           /\ Verified("differential-test") \notin checks
           /\ \A c \in checks : c.rule = "tests-pass" => c.verdict # "verified"
           /\ tests => \/ "test" \in Plan(mode, profile, sealed, harness, tests)
                       \/ mode = "maintainer" /\ profile.review = "test"
                       \/ \E c \in checks : c.rule = "tests-pass"
  <1>1. checks \subseteq {Noted("harness"), Blocked("harness"), Blocked("tests-pass")}
    BY DEF HarnessChecks
  <1>2. "harness" \in Rules /\ "tests-pass" \in Rules
    BY DEF Rules
  <1>3. /\ Noted("harness") \in CheckSet(Rules) /\ Blocked("harness") \in CheckSet(Rules)
        /\ Blocked("tests-pass") \in CheckSet(Rules)
        /\ Noted("harness").rule = "harness" /\ Blocked("harness").rule = "harness"
        /\ Blocked("tests-pass").rule = "tests-pass"
    BY <1>2, CheckFacts
  <1>4. Blocked("tests-pass").verdict = "unverifiable" /\ Verified("differential-test").rule = "differential-test"
    BY <1>2, StageNames, CheckFacts
  <1>5. checks \in SUBSET CheckSet(Rules) /\ Verified("differential-test") \notin checks
    BY <1>1, <1>3, <1>4
  <1>6. \A c \in checks : c.rule = "tests-pass" => c.verdict # "verified"
    BY <1>1, <1>3, <1>4
  <1>7. ASSUME tests, ~(mode = "maintainer" /\ profile.review = "test")
        PROVE  "test" \in Plan(mode, profile, sealed, harness, tests) \/ Blocked("tests-pass") \in checks
    BY <1>7 DEF Plan, Wanted, HarnessChecks, SetupStages
  <1> QED BY <1>3, <1>5, <1>6, <1>7

LEMMA StartedInv ==
    ASSUME IndInv, run = NoRun, NEW mode \in Modes, NEW sealed \in BOOLEAN, NEW harness \in BOOLEAN,
           NEW profile \in Profiles, NEW policy \in Policies, NEW receipt \in Receipts,
           NEW snapshot \in BOOLEAN, NEW differs \in Differences,
           mode # "verify" => policy = "trusted",
           mode = "gate" => \/ receipt \in issued
                            \/ /\ receipt # NoReceipt
                               /\ receipt.signer = "stranger" \/ ~receipt.intact \/ receipt.status # "PASS",
           Started(mode, sealed, harness, profile, policy, receipt, snapshot, differs)
    PROVE  IndInv'
  <1>0. PICK tests \in BOOLEAN : tests = (policy = "trusted")
    OBVIOUS
  <1>a. PICK todo : todo = Plan(mode, profile, sealed, harness, tests)
    OBVIOUS
  <1>b. PICK checks : checks = HarnessChecks(mode, profile, sealed, harness, tests)
    OBVIOUS
  <1>1. /\ run' = [mode |-> mode, profile |-> profile, policy |-> policy, head |-> tip, base |-> base,
                   receipt |-> receipt, snapshot |-> snapshot, undone |-> FALSE, observed |-> {},
                   todo |-> todo, results |-> checks]
        /\ isolated' = sealed
        /\ tree' = [tree EXCEPT !["repo"] = [Clean(tip, FALSE) EXCEPT !.differs = differs]]
        /\ stray' = FALSE /\ report' = NoReport
        /\ log' = log /\ tip' = tip /\ base' = base /\ issued' = issued /\ box' = box
        /\ container' = container /\ replaced' = replaced /\ cmd' = cmd
    BY <1>0, <1>a, <1>b DEF Started
  <1>2. /\ todo \subseteq Stages
        /\ "test" \in todo => "preserved" \in todo
        /\ "head-setup" \in todo => "base-setup" \in todo
        /\ "head-test" \in todo => "base-test" \in todo
        /\ "base-test" \in todo => "head-test" \in todo
        /\ todo \cap DiffStages # {} => "trees" \in todo
    BY <1>a, WantedFacts
  <1>3. /\ checks \in SUBSET CheckSet(Rules)
        /\ Verified("differential-test") \notin checks
        /\ \A c \in checks : c.rule = "tests-pass" => c.verdict # "verified"
        /\ tests => \/ "test" \in todo
                    \/ mode = "maintainer" /\ profile.review = "test"
                    \/ \E c \in checks : c.rule = "tests-pass"
    BY <1>a, <1>b, HarnessFacts
  <1>4. /\ run'.mode = mode /\ run'.profile = profile /\ run'.policy = policy /\ run'.head = tip
        /\ run'.base = base /\ run'.receipt = receipt /\ run'.observed = {} /\ run'.todo = todo
        /\ run'.results = checks
    BY <1>1
  <1>5. run' \in RunSet /\ run' # NoRun
    <2>1. run' \in RunSet
      BY <1>1, <1>2, <1>3, IdleFacts DEF RunSet
    <2> QED BY <2>1 DEF RunSet, NoRun, Modes
  <1>6. [Clean(tip, FALSE) EXCEPT !.differs = differs] \in TreeSet(Nat)
        /\ [Clean(tip, FALSE) EXCEPT !.differs = differs].overlay = FALSE
    BY IdleFacts DEF Clean, TreeSet
  <1>7. /\ tree' \in [Dirs -> TreeSet(Nat)] /\ ~tree'["repo"].overlay /\ ~tree'["candidate"].overlay
    BY <1>1, <1>6, IdleFacts, VerificationAssumption
  <1>8. cmd' = NoCmd /\ container' = FALSE
    BY <1>1, IdleFacts
  <1>9. TypeOK'
    <2>1. Commits' = Commits
      BY <1>1 DEF Commits
    <2> QED BY <1>1, <1>4, <1>5, <1>7, <1>8, <2>1, IdleFacts DEF TypeOK
  <1>10. PlanTrue'
    BY <1>1, <1>2, <1>4 DEF PlanTrue
  <1>11. CommandTrue' /\ ~HasRead'
    BY <1>8 DEF CommandTrue, HasRead
  <1>12. ReadTrue'
    BY <1>4, <1>7, <1>11 DEF ReadTrue
  <1>13. TestedTrue'
    BY <1>0, <1>3, <1>4 DEF TestedTrue
  <1>14. ReceiptTrue'
    BY <1>1, <1>4 DEF ReceiptTrue
  <1>15. ComparisonTrue'
    BY <1>2, <1>3, <1>4, <1>11 DEF ComparisonTrue
  <1>16. StrayTrue'
    BY <1>1 DEF StrayTrue
  <1>17. ReportTrue'
    BY <1>1, ReportWaits
  <1> QED BY <1>9, <1>10, <1>11, <1>12, <1>13, <1>14, <1>15, <1>16, <1>17 DEF IndInv

LEMMA PresentableFacts ==
    ASSUME IndInv, run = NoRun, NEW receipt \in Presentable
    PROVE  /\ receipt \in Receipts
           /\ \/ receipt \in issued
              \/ /\ receipt # NoReceipt
                 /\ receipt.signer = "stranger" \/ ~receipt.intact \/ receipt.status # "PASS"
  <1>1. CASE receipt \in issued
    BY <1>1, IdleFacts DEF Receipts
  <1>2. CASE receipt \in Forged
    <2>0. base \in Nat /\ tip \in Nat /\ "trusted" \in Policies
      BY IdleFacts, VerificationAssumption
    <2>1. receipt \in ReceiptSet
      <3>1. /\ Receipt("stranger", TRUE, "PASS", base, tip, "trusted") \in ReceiptSet
            /\ Receipt("developer", FALSE, "PASS", base, tip, "trusted") \in ReceiptSet
            /\ Receipt("developer", TRUE, "INCONCLUSIVE", base, tip, "trusted") \in ReceiptSet
        BY <2>0 DEF Receipt, ReceiptSet, Statuses
      <3> QED BY <1>2, <3>1 DEF Forged
    <2>2. receipt.signer = "stranger" \/ ~receipt.intact \/ receipt.status # "PASS"
      BY <1>2 DEF Forged, Receipt
    <2>3. \A r \in ReceiptSet : r # NoReceipt
      BY DEF ReceiptSet, NoReceipt
    <2> QED BY <2>1, <2>2, <2>3 DEF Receipts
  <1> QED BY <1>1, <1>2 DEF Presentable

LEMMA BetweenRunsInv ==
    ASSUME IndInv, run = NoRun, BetweenRuns
    PROVE  IndInv'
  <1>0. /\ \A c \in Commits : log[c] \in [code : Codes, receipt : Receipts, parent : Nat]
        /\ tip \in Commits /\ base \in Commits /\ tip \in Nat /\ base \in Nat /\ issued \subseteq ReceiptSet
    <2> DEFINE CommitSet == [code : Codes, receipt : Receipts, parent : Nat]
    <2>1. log \in Seq(CommitSet)
      BY IdleFacts
    <2> HIDE DEF CommitSet
    <2>2. \A c \in DOMAIN log : log[c] \in CommitSet
      BY <2>1
    <2> QED BY <2>2, IdleFacts DEF Commits, CommitSet
  <1>1. ASSUME NEW code \in Codes, CommitCode(code) PROVE IndInv'
    <2> DEFINE commit == [code |-> code, receipt |-> log[tip].receipt, parent |-> tip]
    <2>1. /\ log' = Append(log, commit) /\ tip' = Len(log') /\ base' = base
          /\ UNCHANGED <<commandVars, issued, run, report>>
      BY <1>1 DEF CommitCode, Add
    <2>2. commit \in [code : Codes, receipt : Receipts, parent : Nat]
      BY <1>0
    <2> QED BY <2>1, <2>2, CommitInv
  <1>2. ASSUME NEW code \in Codes, MoveBase(code) PROVE IndInv'
    <2> DEFINE commit == [code |-> code, receipt |-> log[base].receipt, parent |-> base]
    <2>1. /\ log' = Append(log, commit) /\ tip' = tip /\ base' = Len(log')
          /\ UNCHANGED <<commandVars, issued, run, report>>
      BY <1>2 DEF MoveBase, Add
    <2>2. commit \in [code : Codes, receipt : Receipts, parent : Nat]
      BY <1>0
    <2> QED BY <2>1, <2>2, CommitInv
  <1>3. ASSUME NEW r \in issued, CommitReceipt(r) PROVE IndInv'
    <2> DEFINE commit == [log[tip] EXCEPT !.receipt = r, !.parent = tip]
    <2>1. /\ log' = Append(log, commit) /\ tip' = Len(log') /\ base' = base
          /\ UNCHANGED <<commandVars, issued, run, report>>
      BY <1>3 DEF CommitReceipt, Add
    <2>2. commit \in [code : Codes, receipt : Receipts, parent : Nat]
      BY <1>0 DEF Receipts
    <2> QED BY <2>1, <2>2, CommitInv
  <1>4. NoReceipt \in Receipts /\ "trusted" \in Policies /\ Modes = {"verify", "gate", "merge_group", "maintainer"}
        /\ "none" \in Differences
    BY VerificationAssumption DEF Receipts, Modes, Differences
  <1>5. ASSUME NEW profile \in Profiles, NEW policy \in Policies, NEW differs \in Differences,
               StartVerify(profile, policy, differs)
        PROVE  IndInv'
    BY <1>4, <1>5, StartedInv DEF StartVerify
  <1>6. ASSUME NEW profile \in Profiles, NEW sealed \in BOOLEAN, NEW harness \in BOOLEAN,
               NEW receipt \in Presentable, NEW snapshot \in BOOLEAN,
               StartGate(sealed, harness, profile, receipt, snapshot)
        PROVE  IndInv'
    BY <1>4, <1>6, PresentableFacts, StartedInv DEF StartGate
  <1>7. ASSUME NEW profile \in Profiles, NEW sealed \in BOOLEAN, NEW harness \in BOOLEAN,
               StartMergeGroup(sealed, harness, profile) \/ StartMaintainer(sealed, harness, profile)
        PROVE  IndInv'
    BY <1>4, <1>7, StartedInv DEF StartMergeGroup, StartMaintainer
  <1> QED BY <1>1, <1>2, <1>3, <1>5, <1>6, <1>7 DEF BetweenRuns

-----------------------------------------------------------------------------
LEMMA InitInv == Init => IndInv
  <1> SUFFICES ASSUME Init PROVE IndInv
    OBVIOUS
  <1> DEFINE first == [code |-> CHOOSE c \in Codes : TRUE, receipt |-> NoReceipt, parent |-> 0]
  <1>1. log = <<first>> /\ tip = 1 /\ base = 1 /\ issued = {} /\ run = NoRun /\ report = NoReport
    BY DEF Init
  <1>2. /\ isolated = FALSE /\ container = FALSE /\ stray = FALSE /\ replaced = "none" /\ cmd = NoCmd
        /\ tree = [d \in Dirs |-> NoTree] /\ box = [d \in Dirs |-> NoBox]
    BY DEF Init, CommandInit
  <1>3. first \in [code : Codes, receipt : Receipts, parent : Nat]
    BY VerificationAssumption DEF Receipts
  <1> HIDE DEF first
  <1>4. log \in Seq([code : Codes, receipt : Receipts, parent : Nat]) /\ Commits = {1}
    BY <1>1, <1>3 DEF Commits
  <1>5. NoTree \in TreeSet(Nat) /\ NoTree.overlay = FALSE
    BY DEF NoTree, TreeSet, Differences
  <1>6. tree \in [Dirs -> TreeSet(Nat)] /\ ~tree["repo"].overlay /\ ~tree["candidate"].overlay
    BY <1>2, <1>5, VerificationAssumption
  <1>7. TypeOK
    BY <1>1, <1>2, <1>4, <1>6 DEF TypeOK, NoBox
  <1>8. ~HasRead
    BY <1>2 DEF HasRead
  <1>9. ReportTrue
    <2>1. report.mode = "none"
      BY <1>1 DEF NoReport
    <2> QED BY <2>1 DEF ReportTrue, PassedAsCommitted, GatePassIsBacked, RegressionShown,
               NothingLeftRunning, AuthorityKept, Passed, Modes
  <1> QED BY <1>1, <1>2, <1>6, <1>7, <1>8, <1>9 DEF IndInv, PlanTrue, CommandTrue, ReadTrue, TestedTrue,
             ReceiptTrue, ComparisonTrue, StrayTrue

LEMMA NextInv == IndInv /\ [Next]_vars => IndInv'
  <1> SUFFICES ASSUME IndInv, [Next]_vars PROVE IndInv'
    OBVIOUS
  <1>1. CASE Idle /\ BetweenRuns
    BY <1>1, BetweenRunsInv DEF Idle
  <1>2. CASE VerifierStep
    BY <1>2, StageInv, BeginInv, LocalInv, BaseSetUpInv, CompareInv, ReviewInv, ConcludeInv, AbortInv DEF VerifierStep
  <1>3. CASE CommandStep /\ UNCHANGED verifierVars
    BY <1>3, CommandStepInv
  <1>4. ASSUME run # NoRun, NEW dir \in Dirs, NEW commit \in Commits, NEW differs \in Differences,
               Change(dir, commit, differs)
        PROVE  IndInv'
    <2>1. commit \in Nat
      BY DEF IndInv, TypeOK, Commits
    <2> QED BY <1>4, <2>1, DisturbInv DEF Change
  <1>5. ASSUME run # NoRun, NEW dir \in Dirs, Restore(dir) PROVE IndInv'
    <2>1. run.head \in Nat /\ run.base \in Nat /\ "none" \in Differences
      BY <1>5, TreeFacts DEF Differences
    <2> QED BY <1>5, <2>1, DisturbInv DEF Restore
  <1>6. CASE UNCHANGED vars
    <2>1. /\ isolated' = isolated /\ tree' = tree /\ box' = box /\ container' = container
          /\ stray' = stray /\ replaced' = replaced /\ cmd' = cmd
          /\ log' = log /\ tip' = tip /\ base' = base /\ issued' = issued /\ run' = run /\ report' = report
      BY <1>6 DEF vars, commandVars, verifierVars
    <2>2. TypeOK' /\ PlanTrue' /\ CommandTrue'
      BY <2>1 DEF IndInv, TypeOK, PlanTrue, CommandTrue, Observed, Current, Commits
    <2>3. ReadTrue' /\ TestedTrue' /\ ReceiptTrue'
      BY <2>1 DEF IndInv, ReadTrue, TestedTrue, ReceiptTrue, Observed, HasRead, HeadContent, Exactly
    <2>4. ComparisonTrue' /\ StrayTrue'
      BY <2>1 DEF IndInv, ComparisonTrue, StrayTrue, Observed, HasRead, Compared
    <2>5. ReportTrue'
      BY <2>1 DEF IndInv, ReportTrue, PassedAsCommitted, GatePassIsBacked, RegressionShown,
                  NothingLeftRunning, AuthorityKept, Passed, Commits
    <2> QED BY <2>2, <2>3, <2>4, <2>5 DEF IndInv
  <1> QED BY <1>1, <1>2, <1>3, <1>4, <1>5, <1>6 DEF Next

LEMMA AlwaysInv == Spec => []IndInv
  BY InitInv, NextInv, PTL DEF Spec

\* A report that passed counts only tests of the exact head, and a strict one
\* outside the developer's runs has a test run that passed (candidate-command.ts,
\* checkWorkspaceMutation, the strict gates).
THEOREM PassesTestTheCommit == Spec => []PassedAsCommitted
  <1>1. IndInv => PassedAsCommitted
    BY DEF IndInv, ReportTrue
  <1> QED BY <1>1, AlwaysInv, PTL

\* A gate that passed was given the receipt of a developer's run that passed, by
\* a pinned signer, for this base and this content (buildPortableGateReport).
THEOREM GatesAreBacked == Spec => []GatePassIsBacked
  <1>1. IndInv => GatePassIsBacked
    BY DEF IndInv, ReportTrue
  <1> QED BY <1>1, AlwaysInv, PTL

\* An isolated comparison shows a regression only from the exact head and the
\* exact base, with the head's changed tests in it unless the policy leaves the base
\* its own (checkDifferentialTest).
THEOREM RegressionsAreShown == Spec => []RegressionShown
  <1>1. IndInv => RegressionShown
    BY DEF IndInv, ReportTrue
  <1> QED BY <1>1, AlwaysInv, PTL

\* No merge group's or maintainer's run passes a change of the authority
\* configuration that gives the agent a power the base's policy does not let pass,
\* but for what Overlooked names (buildAuthorityPlan, authorityPlanChecks).
THEOREM AuthorityIsKept == Spec => []AuthorityKept
  <1>1. IndInv => AuthorityKept
    BY DEF IndInv, ReportTrue
  <1> QED BY <1>1, AlwaysInv, PTL

\* No run that passed left a container of the candidate behind (isolatedCommand's
\* clean-up).
THEOREM NothingIsLeftRunning == Spec => []NothingLeftRunning
  <1>1. IndInv => NothingLeftRunning
    BY DEF IndInv, ReportTrue
  <1> QED BY <1>1, AlwaysInv, PTL
=============================================================================
