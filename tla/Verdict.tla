------------------------------- MODULE Verdict -------------------------------
(***************************************************************************)
(* How Agent Vigil turns what it observed into checks, and checks into a   *)
(* verdict.  A check is one CheckResult of report.ts with its wording left *)
(* out; a report's results are a set of checks with distinct rules.        *)
(***************************************************************************)
EXTENDS Naturals, FiniteSets

Verdicts == {"verified", "contradicted", "unverifiable"}
Statuses == {"PASS", "FAIL", "INCONCLUSIVE"}
CheckSet(rules) ==
  [rule: rules, verdict: Verdicts, counts: BOOLEAN, blocks: BOOLEAN]

Check(rule, verdict, counts, blocks) ==
  [rule |-> rule, verdict |-> verdict, counts |-> counts, blocks |-> blocks]
Verified(rule)     == Check(rule, "verified", TRUE, FALSE)
Noted(rule)        == Check(rule, "verified", FALSE, FALSE)
Contradicted(rule) == Check(rule, "contradicted", FALSE, FALSE)
Unknown(rule)      == Check(rule, "unverifiable", FALSE, FALSE)
Blocked(rule)      == Check(rule, "unverifiable", FALSE, TRUE)

\* The checks that are evidence: contributesToPass is not false.
Evidence(results) == {c \in results : c.verdict = "verified" /\ c.counts}

\* summarize: a contradiction fails; too little evidence, a blocking doubt or,
\* when strict, any doubt leaves the report inconclusive.
Status(results, minVerified, strict) ==
  IF \E c \in results : c.verdict = "contradicted" THEN "FAIL"
  ELSE IF \/ Cardinality(Evidence(results)) < minVerified
          \/ \E c \in results : c.verdict = "unverifiable" /\ (c.blocks \/ strict)
       THEN "INCONCLUSIVE"
       ELSE "PASS"

-----------------------------------------------------------------------------
(* What a command's end says.  "error": a signal, a timeout, a flood of      *)
(* output, or a verifier context that cannot be trusted.  "failed": a code   *)
(* other than 0.  With code 0 a test run's summary may count failures        *)
(* ("reported"), no test at all ("empty"), be missing ("silent") or count    *)
(* passing tests ("passed").                                                 *)
Outcomes == {"error", "failed", "reported", "empty", "silent", "passed"}
ExitedZero(outcome) == outcome \in {"reported", "empty", "silent", "passed"}

\* Mutated form of TestCheck: the summary of passing tests is believed before the
\* end of the run is looked at.
TestCheckSummaryFirst(outcome) ==
  CASE outcome = "empty"                -> Blocked("tests-pass")
    [] outcome \in {"failed", "reported"} -> Contradicted("tests-pass")
    [] outcome = "silent"               -> Unknown("tests-pass")
    [] outcome \in {"error", "passed"}  -> Verified("tests-pass")

\* classifyCandidateTestOutcome, for a claim without an expected count.
TestCheck(outcome) ==
  CASE outcome \in {"error", "empty"}     -> Blocked("tests-pass")
    [] outcome \in {"failed", "reported"} -> Contradicted("tests-pass")
    [] outcome = "silent"                 -> Unknown("tests-pass")
    [] outcome = "passed"                 -> Verified("tests-pass")

\* Mutated form of DifferentialCheck: a base that did not finish counts as one
\* that failed.
DifferentialCheckUnfinished(onHead, onBase) ==
  IF onHead = "error" THEN Blocked("differential-test")
  ELSE IF ExitedZero(onHead) /\ ~ExitedZero(onBase) THEN Verified("differential-test")
  ELSE Contradicted("differential-test")

\* The end of checkDifferentialTest: the changed tests must pass on the
\* candidate and fail on the base.
DifferentialCheck(onHead, onBase) ==
  IF "error" \in {onHead, onBase} THEN Blocked("differential-test")
  ELSE IF ExitedZero(onHead) /\ ~ExitedZero(onBase) THEN Verified("differential-test")
  ELSE Contradicted("differential-test")

\* routeIntegrity, for a scan that found: nothing, a lead, a calibrated
\* weakening of the tests, or a diff it could not read.
Scans == {"clean", "lead", "weakened", "unreadable"}
IntegrityChecks(scan, mode) ==
  CASE scan = "clean"      -> {Noted("integrity-scan")}
    [] scan = "unreadable" -> {Blocked("integrity-scan")}
    [] scan = "lead"       -> IF mode = "blocking" THEN {Contradicted("integrity-scan")} ELSE {}
    [] scan = "weakened"   -> IF mode = "advisory" THEN {} ELSE {Contradicted("integrity-scan")}

\* authorityPlanChecks: a plan passes, is held for review or blocked.
PlanChecks(plan) ==
  CASE plan = "PASS"  -> {Noted("authority-plan")}
    [] plan = "HOLD"  -> {Blocked("authority-plan")}
    [] plan = "BLOCK" -> {Contradicted("authority-plan")}
=============================================================================
