----------------------------- MODULE UpgradeProofs -----------------------------
(***************************************************************************)
(* Whatever the artifacts, the configurations and the number of trials,     *)
(* changes and evaluations: what an upgrade receipt and a published row say *)
(* is so.                                                                   *)
(***************************************************************************)
EXTENDS UpgradeInv, TLAPS

-----------------------------------------------------------------------------
(* The plan.                                                                 *)

\* What is left of a sequence after its first element.
LEMMA TailFacts ==
    ASSUME NEW S, NEW s \in Seq(S), s # << >>
    PROVE  /\ Tail(s) \in Seq(S) /\ Len(Tail(s)) = Len(s) - 1 /\ Len(s) \in Nat \ {0}
           /\ Head(s) = s[1] /\ s[1] \in S
           /\ \A i \in 1..Len(Tail(s)) : i + 1 \in 1..Len(s) /\ Tail(s)[i] = s[i + 1]
  OBVIOUS

LEMMA InSeq ==
    ASSUME NEW S, NEW s \in Seq(S)
    PROVE  Len(s) \in Nat /\ \A i \in 1..Len(s) : s[i] \in S
  OBVIOUS

LEMMA ConcatFacts ==
    ASSUME NEW S, NEW s \in Seq(S), NEW t \in Seq(S)
    PROVE  /\ s \o t \in Seq(S) /\ Len(s \o t) = Len(s) + Len(t)
           /\ \A i \in 1..(Len(s) + Len(t)) : (s \o t)[i] = IF i <= Len(s) THEN s[i] ELSE t[i - Len(s)]
  OBVIOUS

LEMMA SingleFacts ==
    ASSUME NEW S, NEW x \in S
    PROVE  <<x>> \in Seq(S) /\ Len(<<x>>) = 1 /\ <<x>>[1] = x
  OBVIOUS

LEMMA PrependFacts ==
    ASSUME NEW S, NEW x \in S, NEW t \in Seq(S)
    PROVE  /\ <<x>> \o t \in Seq(S) /\ Len(<<x>> \o t) = 1 + Len(t) /\ (<<x>> \o t)[1] = x
           /\ \A i \in 2..(1 + Len(t)) : (<<x>> \o t)[i] = t[i - 1]
  BY ConcatFacts, SingleFacts

LEMMA QuotientBelow ==
    ASSUME NEW a \in Nat, NEW b \in Nat, b > 0, NEW n \in Nat, a < b * n
    PROVE  (a \div b) \in 0..(n - 1)
  <1>1. PICK q \in Int : q = a \div b
    OBVIOUS
  <1>2. PICK r \in Int : r = a % b
    OBVIOUS
  <1>3. a = b * q + r /\ 0 <= r /\ r < b
    BY <1>1, <1>2
  <1>4. q >= 0
    BY <1>3
  <1>5. q < n
    <2>1. CASE q >= n
      <3>1. b * q >= b * n
        BY <2>1, <1>4
      <3> QED BY <3>1, <1>3
    <2> QED BY <2>1
  <1> QED BY <1>1, <1>4, <1>5

LEMMA PartFacts ==
    /\ Parts = {ConfigFile, Harness, <<"current", "manifest">>, <<"current", "tree">>,
                <<"candidate", "manifest">>, <<"candidate", "tree">>}
    /\ \A part \in Parts : part[1] \in Items
    /\ \A side \in Sides : <<side, "manifest">> \in Parts /\ <<side, "tree">> \in Parts
  BY DEF Parts, ConfigFile, Harness, Sides, Items

LEMMA TrialsFacts ==
    ASSUME NEW config \in Configs
    PROVE  /\ Trials(config) \in Seq(StepSet)
           /\ \A i \in 1..Len(Trials(config)) :
                /\ Trials(config)[i].do = "call"
                /\ Trials(config)[i].on \in Range(config.canaries) \X Sides
                /\ Trials(config)[i].on[1] # "probe"
  <1> PICK t \in Nat : t = config.trials /\ t >= 2
    BY UpgradeAssumption
  <1> PICK c \in Seq(Range(config.canaries) \ {"probe"}) : c = config.canaries
    BY UpgradeAssumption
  <1> PICK n \in Nat : n = 2 * t * Len(c)
    OBVIOUS
  <1>1. ASSUME NEW i \in 1..n
        PROVE  1 + ((i - 1) \div (2 * t)) \in 1..Len(c)
    <2>1. PICK b \in Nat : b = 2 * t
      OBVIOUS
    <2>2. PICK a \in Nat : a = i - 1
      OBVIOUS
    <2>3. PICK m \in Nat : m = Len(c)
      OBVIOUS
    <2>4. b > 0 /\ a < b * m
      BY <2>1, <2>2, <2>3
    <2>5. (a \div b) \in 0..(m - 1)
      BY ONLY a \in Nat, b \in Nat, m \in Nat, <2>4, QuotientBelow
    <2>6. (i - 1) \div (2 * t) = a \div b
      BY <2>1, <2>2
    <2>7. PICK q : q = a \div b
      OBVIOUS
    <2>8. q \in 0..(m - 1) /\ (i - 1) \div (2 * t) = q
      BY <2>5, <2>6, <2>7
    <2> QED BY ONLY <2>8, <2>3, m \in Nat
  <1>2. ASSUME NEW i \in 1..n
        PROVE  /\ Trials(config)[i].do = "call" /\ Trials(config)[i] \in StepSet
               /\ Trials(config)[i].on \in Range(config.canaries) \X Sides
               /\ Trials(config)[i].on[1] # "probe"
    <2>1. PICK k : k = 1 + ((i - 1) \div (2 * t))
      OBVIOUS
    <2>2. PICK side \in Sides : side = IF (i - 1) % (2 * t) < t THEN "current" ELSE "candidate"
      BY DEF Sides
    <2>3. Trials(config)[i] = Step("call", <<c[k], side>>)
      BY <2>1, <2>2 DEF Trials
    <2>4. c[k] \in Range(config.canaries) \ {"probe"}
      BY <1>1, <2>1
    <2>5. c[k] \in Names
      BY <2>4 DEF Names
    <2> QED BY <2>3, <2>4, <2>5 DEF Step, StepSet
  <1>3. Trials(config) = [i \in 1..n |-> Trials(config)[i]]
    BY DEF Trials
  <1>4. Trials(config) \in Seq(StepSet)
    BY <1>2, <1>3
  <1> QED BY <1>2, <1>3, <1>4

LEMMA ArtifactsFacts ==
    /\ Artifacts \in Seq(Parts) /\ Len(Artifacts) = 4
    /\ Artifacts[1] = <<"current", "manifest">> /\ Artifacts[2] = <<"current", "tree">>
    /\ Artifacts[3] = <<"candidate", "manifest">> /\ Artifacts[4] = <<"candidate", "tree">>
  <1> PICK a \in Parts : a = <<"current", "manifest">>
    BY PartFacts
  <1> PICK b \in Parts : b = <<"current", "tree">>
    BY PartFacts
  <1> PICK c \in Parts : c = <<"candidate", "manifest">>
    BY PartFacts
  <1> PICK d \in Parts : d = <<"candidate", "tree">>
    BY PartFacts
  <1>1. Artifacts = <<a, b>> \o <<c, d>>
    BY DEF Artifacts, Artifact
  <1> QED BY <1>1

LEMMA DockerFacts ==
    /\ Docker \in Seq(StepSet) /\ Len(Docker) = 3
    /\ Docker[1] = Step("client", << >>) /\ Docker[2] = Step("image", << >>) /\ Docker[3] = Probe
  <1> PICK a \in StepSet : a = Step("client", << >>)
    BY DEF Step, StepSet
  <1> PICK b \in StepSet : b = Step("image", << >>)
    BY DEF Step, StepSet
  <1> PICK c \in StepSet : c = Probe
    BY DEF Step, StepSet, Probe, Sides
  <1>1. Docker = <<a, b, c>>
    BY DEF Docker, Probe
  <1> QED BY <1>1

\* The plan up to the probe, step by step, and what follows the trials.
LEMMA ReadingFacts ==
    ASSUME NEW p, p = Before \o Docker
    PROVE  /\ p \in Seq(StepSet) /\ Len(p) = 10
           /\ p[1] = Step("inspect", ConfigFile) /\ p[2] = Step("roots", << >>)
           /\ p[3] = Step("inspect", Harness)
           /\ p[4] = Step("inspect", <<"current", "manifest">>)
           /\ p[5] = Step("inspect", <<"current", "tree">>)
           /\ p[6] = Step("inspect", <<"candidate", "manifest">>)
           /\ p[7] = Step("inspect", <<"candidate", "tree">>)
           /\ p[8] = Step("client", << >>) /\ p[9] = Step("image", << >>) /\ p[10] = Probe
  <1>1. /\ Artifacts \in Seq(Parts) /\ Len(Artifacts) = 4
        /\ Artifacts[1] = <<"current", "manifest">> /\ Artifacts[2] = <<"current", "tree">>
        /\ Artifacts[3] = <<"candidate", "manifest">> /\ Artifacts[4] = <<"candidate", "tree">>
    BY ArtifactsFacts
  <1>2. PICK h \in Seq(Parts) : h = <<Harness>> \o Artifacts
    BY <1>1, PartFacts, PrependFacts
  <1>3. Len(h) = 5 /\ h[1] = Harness /\ \A i \in 2..5 : h[i] = Artifacts[i - 1]
    <2>1. Harness \in Parts
      BY PartFacts
    <2>2. PICK a \in Seq(Parts) : a = Artifacts
      BY <1>1
    <2>3. /\ Len(<<Harness>> \o a) = 1 + Len(a) /\ (<<Harness>> \o a)[1] = Harness
          /\ \A i \in 2..(1 + Len(a)) : (<<Harness>> \o a)[i] = a[i - 1]
      BY ONLY <2>1, a \in Seq(Parts), PrependFacts
    <2>4. Len(a) = 4
      BY <1>1, <2>2
    <2> QED BY ONLY <1>2, <2>2, <2>3, <2>4
  <1>4. PICK q : q = Steps("inspect", h)
    OBVIOUS
  <1>5. \A part \in Parts : Step("inspect", part) \in StepSet
    BY DEF Step, StepSet
  <1>6. q = [i \in 1..5 |-> Step("inspect", h[i])] /\ q \in Seq(StepSet) /\ Len(q) = 5
    <2>1. q = [i \in 1..5 |-> Step("inspect", h[i])]
      BY <1>3, <1>4 DEF Steps
    <2>2. \A i \in 1..5 : h[i] \in Parts
      <3>1. Len(h) = 5
        BY <1>3
      <3>2. \A i \in 1..Len(h) : h[i] \in Parts
        BY ONLY h \in Seq(Parts), InSeq
      <3> QED BY ONLY <3>1, <3>2
    <2> QED BY <2>1, <2>2, <1>5
  <1>7. PICK b : b = <<Step("inspect", ConfigFile), Step("roots", << >>)>>
    OBVIOUS
  <1>8. b \in Seq(StepSet) /\ Len(b) = 2 /\ b[1] = Step("inspect", ConfigFile) /\ b[2] = Step("roots", << >>)
    BY <1>5, <1>7, PartFacts DEF Step, StepSet
  <1>9. PICK d : d = Docker
    OBVIOUS
  <1>10. d \in Seq(StepSet) /\ Len(d) = 3 /\ d[1] = Step("client", << >>) /\ d[2] = Step("image", << >>)
         /\ d[3] = Probe
    BY <1>9, DockerFacts
  <1>11. PICK r : r = b \o q
    OBVIOUS
  <1>12. r \in Seq(StepSet) /\ Len(r) = 7 /\ \A i \in 1..7 : r[i] = IF i <= 2 THEN b[i] ELSE q[i - 2]
    <2>1. b \in Seq(StepSet) /\ q \in Seq(StepSet) /\ Len(b) = 2 /\ Len(q) = 5
      BY <1>6, <1>8
    <2>2. /\ b \o q \in Seq(StepSet) /\ Len(b \o q) = Len(b) + Len(q)
          /\ \A i \in 1..(Len(b) + Len(q)) : (b \o q)[i] = IF i <= Len(b) THEN b[i] ELSE q[i - Len(b)]
      BY ONLY <2>1, ConcatFacts
    <2> QED BY ONLY <2>1, <2>2, <1>11
  <1>16. p = r \o d
    BY <1>2, <1>4, <1>7, <1>9, <1>11 DEF Before
  <1>17. p \in Seq(StepSet) /\ Len(p) = 10 /\ \A i \in 1..10 : p[i] = IF i <= 7 THEN r[i] ELSE d[i - 7]
    <2>1. d \in Seq(StepSet) /\ r \in Seq(StepSet) /\ Len(d) = 3 /\ Len(r) = 7
      BY <1>12, <1>10
    <2>2. /\ r \o d \in Seq(StepSet) /\ Len(r \o d) = Len(r) + Len(d)
          /\ \A i \in 1..(Len(r) + Len(d)) : (r \o d)[i] = IF i <= Len(r) THEN r[i] ELSE d[i - Len(r)]
      BY ONLY <2>1, ConcatFacts
    <2>3. p \in Seq(StepSet) /\ Len(p) = 10
      BY ONLY <2>1, <2>2, <1>16
    <2>4. \A i \in 1..10 : p[i] = IF i <= 7 THEN r[i] ELSE d[i - 7]
      <3>1. /\ Len(r) = 7 /\ Len(r) + Len(d) = 10
        BY ONLY <2>1
      <3> QED BY ONLY <3>1, <2>2, <1>16
    <2> QED BY ONLY <2>3, <2>4
  <1>13. \A i \in 1..10 : p[i] = IF i <= 2 THEN b[i] ELSE IF i <= 7 THEN q[i - 2] ELSE d[i - 7]
    BY ONLY <1>12, <1>17
  <1>18. /\ h[2] = Artifacts[1] /\ h[3] = Artifacts[2] /\ h[4] = Artifacts[3] /\ h[5] = Artifacts[4]
    BY ONLY <1>3
  <1>14. /\ q[1] = Step("inspect", Harness)
         /\ q[2] = Step("inspect", <<"current", "manifest">>)
         /\ q[3] = Step("inspect", <<"current", "tree">>)
         /\ q[4] = Step("inspect", <<"candidate", "manifest">>)
         /\ q[5] = Step("inspect", <<"candidate", "tree">>)
    <2>1. \A i \in 1..5 : q[i] = Step("inspect", h[i])
      BY <1>6
    <2>2. h[1] = Harness
      BY <1>3
    <2>3. /\ q[1] = Step("inspect", h[1]) /\ q[2] = Step("inspect", h[2])
          /\ q[3] = Step("inspect", h[3]) /\ q[4] = Step("inspect", h[4])
          /\ q[5] = Step("inspect", h[5])
      BY ONLY <2>1
    <2>4. /\ h[2] = <<"current", "manifest">> /\ h[3] = <<"current", "tree">>
          /\ h[4] = <<"candidate", "manifest">> /\ h[5] = <<"candidate", "tree">>
      BY ONLY <1>1, <1>18
    <2> QED BY ONLY <2>2, <2>3, <2>4
  <1>15. /\ p[1] = b[1] /\ p[2] = b[2] /\ p[3] = q[1] /\ p[4] = q[2] /\ p[5] = q[3] /\ p[6] = q[4]
         /\ p[7] = q[5] /\ p[8] = d[1] /\ p[9] = d[2] /\ p[10] = d[3]
    BY ONLY <1>13
  <1> QED BY ONLY <1>17, <1>14, <1>15, <1>8, <1>10

LEMMA LookingFacts ==
    ASSUME NEW p, p = <<Step("inspect", ConfigFile)>> \o Docker
    PROVE  /\ p \in Seq(StepSet) /\ Len(p) = 4
           /\ p[1] = Step("inspect", ConfigFile) /\ p[2] = Step("client", << >>)
           /\ p[3] = Step("image", << >>) /\ p[4] = Probe
  <1> PICK d \in Seq(StepSet) : d = Docker
    BY DockerFacts
  <1> PICK a \in StepSet : a = Step("inspect", ConfigFile)
    BY PartFacts DEF Step, StepSet
  <1>1. p = <<a>> \o d
    OBVIOUS
  <1>2. Len(d) = 3 /\ d[1] = Step("client", << >>) /\ d[2] = Step("image", << >>) /\ d[3] = Probe
    BY DockerFacts
  <1>3. /\ p \in Seq(StepSet) /\ Len(p) = 4 /\ p[1] = a
        /\ p[2] = d[1] /\ p[3] = d[2] /\ p[4] = d[3]
    BY ONLY <1>1, <1>2, PrependFacts, d \in Seq(StepSet), a \in StepSet
  <1> QED BY <1>2, <1>3

LEMMA AfterFacts ==
    /\ After \in Seq(StepSet)
    /\ \A i \in 1..Len(After) : After[i].do = "again"
  <1>1. PICK a \in Seq(Parts) : a = Artifacts
    BY ArtifactsFacts
  <1>2. PICK h \in Seq(Parts) : h = <<ConfigFile>> \o a \o <<Harness>>
    <2>1. PICK b \in Seq(Parts) : b = <<ConfigFile>> \o a
      BY PartFacts, PrependFacts
    <2>2. PICK c \in Seq(Parts) : c = <<Harness>>
      BY PartFacts, SingleFacts
    <2> QED BY <2>1, <2>2, ConcatFacts
  <1>3. After = [i \in 1..Len(h) |-> Step("again", h[i])]
    BY <1>1, <1>2 DEF After, Steps
  <1>4. \A part \in Parts : Step("again", part) \in StepSet /\ Step("again", part).do = "again"
    BY DEF Step, StepSet
  <1> QED BY <1>3, <1>4

-----------------------------------------------------------------------------
(* The steps of an evaluation.                                               *)

LEMMA FirstStep ==
    ASSUME RunOK, run # NoRun, run.todo # << >>
    PROVE  /\ Todo = run.todo[1] /\ Todo \in StepSet /\ Len(run.todo) \in Nat \ {0}
           /\ Tail(run.todo) \in Seq(StepSet) /\ Len(Tail(run.todo)) = Len(run.todo) - 1
           /\ \A i \in 1..Len(Tail(run.todo)) :
                i + 1 \in 1..Len(run.todo) /\ Tail(run.todo)[i] = run.todo[i + 1]
  <1>1. run.todo \in Seq(StepSet)
    BY DEF RunOK
  <1> QED BY <1>1, TailFacts DEF Todo

\* What is planned to be done differs from one kind of step to another.
LEMMA StepFacts ==
    /\ Probe.do = "call" /\ Probe.on = <<"probe", "current">> /\ Probe \in StepSet
    /\ \A do, on : Step(do, on).do = do /\ Step(do, on).on = on
    /\ \A s \in StepSet : s = Step(s.do, s.on)
    /\ \A s \in StepSet :
         /\ s.do \in {"inspect", "again"} => s.on \in Parts
         /\ s.do = "call" => s.on \in (Names \cup {"probe"}) \X Sides
  BY DEF Probe, Step, StepSet, Sides

\* A step of the preparation has the probe ahead of it, ...
LEMMA HeadPrepares ==
    ASSUME RunOK, PlanTrue, run # NoRun, run.todo # << >>,
           Todo.do \in {"inspect", "roots", "client", "image"}
    PROVE  ProbeAhead /\ Len(run.todo) > 1
  <1>1. ProbeAhead
    <2>1. SUFFICES ASSUME ~ProbeAhead PROVE FALSE
      OBVIOUS
    <2>2. \A i \in 1..Len(run.todo) : run.todo[i].do = "again" \/ run.todo[i].do = "call"
      BY <2>1 DEF PlanTrue, Finishing, Trying
    <2> QED BY <2>2, FirstStep
  <1>2. run.todo[Len(run.todo)].do = "call"
    BY <1>1, StepFacts DEF ProbeAhead, Planned
  <1> QED BY <1>1, <1>2, FirstStep

\* ... a call is the probe, last of the preparation, or a trial, ...
LEMMA HeadCalls ==
    ASSUME RunOK, PlanTrue, run # NoRun, run.todo # << >>, Todo.do = "call"
    PROVE  \/ ProbeAhead /\ Canary = "probe" /\ Len(run.todo) = 1
           \/ /\ ~ProbeAhead /\ Canary # "probe" /\ Trying(1)
              /\ Canary \in Range(Config.canaries) /\ Todo.on[2] \in Sides
              /\ Todo.on = <<Canary, Todo.on[2]>>
              /\ run.mode = "check" /\ run.contained /\ DOMAIN run.after = {}
              /\ Parts \subseteq DOMAIN run.before /\ Config \in Configs
  <1>1. CASE ProbeAhead
    <2>1. \A i \in 1..(Len(run.todo) - 1) : run.todo[i].do # "call"
      BY <1>1 DEF PlanTrue, Preparing
    <2>4. Len(run.todo) \in Nat \ {0} /\ run.todo[1].do = "call"
      BY FirstStep
    <2>2. Len(run.todo) = 1
      <3>1. PICK n \in Nat \ {0} : n = Len(run.todo)
        BY <2>4
      <3>2. ~(1 \in 1..(n - 1))
        BY ONLY <2>1, <2>4, <3>1
      <3>3. n = 1
        BY ONLY <3>2, n \in Nat \ {0}
      <3> QED BY <3>1, <3>3
    <2>3. Todo = Probe
      BY <1>1, <2>2, FirstStep DEF ProbeAhead, Planned
    <2> QED BY <1>1, <2>2, <2>3, StepFacts DEF Canary
  <1>2. CASE ~ProbeAhead
    <2>1. Trying(1)
      BY <1>2, FirstStep DEF PlanTrue, Finishing
    <2>2. run.mode = "check"
      BY <1>2 DEF PlanTrue, Finishing, RunOK
    <2>3. run.contained /\ DOMAIN run.after = {} /\ Todo.on \in Range(Config.canaries) \X Sides
      BY <2>1, FirstStep DEF Trying
    <2>4. Parts \subseteq DOMAIN run.before
      BY <2>2, <2>3 DEF PlanTrue
    <2>5. Config \in Configs
      BY <2>4, PartFacts DEF RunOK
    <2>6. Canary \in Range(Config.canaries) /\ Todo.on[2] \in Sides /\ Todo.on = <<Canary, Todo.on[2]>>
      BY <2>3 DEF Canary
    <2>7. "probe" \notin Range(Config.canaries)
      <3> PICK c \in Configs : c = Config
        BY <2>5
      <3>1. c.canaries \in Seq(Range(c.canaries) \ {"probe"})
        BY UpgradeAssumption
      <3>2. \A i \in DOMAIN c.canaries : c.canaries[i] # "probe"
        BY <3>1
      <3> QED BY <3>2 DEF Range
    <2> QED BY <1>2, <2>1, <2>2, <2>3, <2>4, <2>5, <2>6, <2>7
  <1> QED BY <1>1, <1>2

\* ... and once a file is read again nothing else is left.
LEMMA HeadAgain ==
    ASSUME RunOK, PlanTrue, run # NoRun, run.todo # << >>, Todo.do = "again"
    PROVE  /\ ~ProbeAhead /\ run.mode = "check"
           /\ \A i \in 1..Len(run.todo) : run.todo[i].do = "again"
  <1>1. ~ProbeAhead
    <2>1. SUFFICES ASSUME ProbeAhead PROVE FALSE
      OBVIOUS
    <2>2. CASE Len(run.todo) = 1
      BY <2>1, <2>2, FirstStep, StepFacts DEF ProbeAhead, Planned
    <2>3. CASE Len(run.todo) > 1
      <3>1. run.todo[1].do \in {"inspect", "roots", "client", "image"}
        BY <2>1, <2>3, FirstStep DEF PlanTrue, Preparing
      <3> QED BY <3>1, FirstStep
    <2>4. PICK n \in Nat \ {0} : n = Len(run.todo)
      BY FirstStep
    <2>5. n = 1 \/ n > 1
      OBVIOUS
    <2> QED BY <2>2, <2>3, <2>4, <2>5
  <1>2. run.mode = "check"
    BY <1>1 DEF PlanTrue, Finishing, RunOK
  <1>3. ASSUME NEW i \in 1..Len(run.todo) PROVE run.todo[i].do = "again"
    <2>1. CASE i = 1
      BY <2>1, FirstStep
    <2>2. CASE 1 < i
      BY <1>1, <2>2, FirstStep DEF PlanTrue, Finishing
    <2> QED BY <2>1, <2>2
  <1> QED BY <1>1, <1>2, <1>3

-----------------------------------------------------------------------------
(* The plan is kept to.                                                      *)

\* A step of the preparation is over; what it was to read, if anything, is read.
LEMMA PlanAdvances ==
    ASSUME RunOK, PlanTrue, run # NoRun, run.todo # << >>,
           Todo.do \in {"inspect", "roots", "client", "image"},
           run' # NoRun, run'.todo = Tail(run.todo), run'.mode = run.mode,
           run'.contained = run.contained, run'.left = run.left, run'.results = run.results,
           trials' = trials, run'.after = run.after,
           DOMAIN run.before \subseteq DOMAIN run'.before,
           Todo.do = "inspect" => Todo.on \in DOMAIN run'.before
    PROVE  PlanTrue'
  <1>1. ProbeAhead /\ Preparing
    BY HeadPrepares DEF PlanTrue
  <1>2. PICK n \in Nat : n = Len(run.todo) /\ n > 1
    BY HeadPrepares, FirstStep
  <1>3. /\ Len(run'.todo) = n - 1
        /\ \A i \in 1..(n - 1) : i + 1 \in 1..n /\ run'.todo[i] = run.todo[i + 1]
    BY <1>2, FirstStep
  <1>4. \A s : \A i \in 1..(n - 1) : run.todo[i + 1] = s => Planned(i, s)'
    BY <1>3, FirstStep DEF Planned
  <1>5. \A s : \A i : Planned(i, s) => i \in 1..n /\ run.todo[i] = s
    BY <1>2, FirstStep DEF Planned, RunOK
  <1>6. \A s : \A i : Planned(i, s)' => i \in 1..(n - 1) /\ run.todo[i + 1] = s
    BY <1>3, FirstStep DEF Planned
  <1>7. ProbeAhead'
    <2>1. run.todo[n] = Probe
      BY <1>1, <1>2, <1>5 DEF ProbeAhead
    <2>2. n - 1 \in 1..(n - 1) /\ (n - 1) + 1 = n
      BY <1>2
    <2>3. run.todo[(n - 1) + 1] = Probe
      BY <2>1, <2>2
    <2>4. Planned(n - 1, Probe)'
      BY <2>2, <2>3, <1>4
    <2> QED BY <2>4, <1>2, <1>3 DEF ProbeAhead
  <1>8. \A i \in 1..(n - 2) : run'.todo[i].do \in {"inspect", "roots", "client", "image"}
    <2>1. \A i \in 1..(n - 1) : run.todo[i].do \in {"inspect", "roots", "client", "image"}
      BY <1>1, <1>2 DEF Preparing
    <2>2. \A i \in 1..(n - 2) : i \in 1..(n - 1) /\ i + 1 \in 1..(n - 1)
      BY <1>2
    <2> QED BY <1>3, <2>1, <2>2
  <1>9. ASSUME run.mode = "check", NEW part \in Parts
        PROVE  part \in DOMAIN run'.before \/ \E i \in 1..(n - 1) : Planned(i, Step("inspect", part))'
    <2>1. part \in DOMAIN run.before \/ \E i \in 1..n : Planned(i, Step("inspect", part))
      BY <1>1, <1>2, <1>9 DEF Preparing
    <2>2. ASSUME NEW i \in 1..n, Planned(i, Step("inspect", part)), i = 1
          PROVE  part \in DOMAIN run'.before
      BY <2>2, <1>5, FirstStep, StepFacts
    <2>3. ASSUME NEW i \in 1..n, Planned(i, Step("inspect", part)), i # 1
          PROVE  Planned(i - 1, Step("inspect", part))' /\ i - 1 \in 1..(n - 1)
      <3>1. i - 1 \in 1..(n - 1) /\ (i - 1) + 1 = i
        BY <2>3
      <3>2. run.todo[(i - 1) + 1] = Step("inspect", part)
        BY <3>1, <2>3, <1>5
      <3> QED BY <3>1, <3>2, <1>4
    <2> QED BY <2>1, <2>2, <2>3
  <1>10. ASSUME run.mode = "check", NEW i \in 1..(n - 1), NEW side \in Sides,
                Planned(i, Step("inspect", <<side, "tree">>))'
         PROVE  \/ <<side, "manifest">> \in DOMAIN run'.before
                \/ \E j \in 1..(i - 1) : Planned(j, Step("inspect", <<side, "manifest">>))'
    <2>1. i + 1 \in 1..n /\ run.todo[i + 1] = Step("inspect", <<side, "tree">>)
      BY <1>10, <1>6, <1>2
    <2>2. Planned(i + 1, Step("inspect", <<side, "tree">>))
      BY <2>1, <1>2, FirstStep DEF Planned, RunOK
    <2>3. \/ <<side, "manifest">> \in DOMAIN run.before
          \/ \E j \in 1..((i + 1) - 1) : Planned(j, Step("inspect", <<side, "manifest">>))
      BY <2>1, <2>2, <1>1, <1>2, <1>10 DEF Preparing
    <2>4. ASSUME NEW j \in 1..((i + 1) - 1), Planned(j, Step("inspect", <<side, "manifest">>)), j = 1
          PROVE  <<side, "manifest">> \in DOMAIN run'.before
      BY <2>4, <1>5, FirstStep, StepFacts
    <2>5. ASSUME NEW j \in 1..((i + 1) - 1), Planned(j, Step("inspect", <<side, "manifest">>)), j # 1
          PROVE  j - 1 \in 1..(i - 1) /\ Planned(j - 1, Step("inspect", <<side, "manifest">>))'
      <3>1. j - 1 \in 1..(n - 1) /\ (j - 1) + 1 = j /\ j - 1 \in 1..(i - 1)
        BY <2>5, <1>2
      <3>2. run.todo[(j - 1) + 1] = Step("inspect", <<side, "manifest">>)
        BY <3>1, <2>5, <1>5
      <3> QED BY <3>1, <3>2, <1>4
    <2> QED BY <2>3, <2>4, <2>5
  <1>11. /\ ~run'.contained /\ ~run'.left /\ run'.results = {} /\ trials' = {} /\ DOMAIN run'.after = {}
    BY <1>1 DEF Preparing
  <1>12. Len(run'.todo) = n - 1 /\ (n - 1) - 1 = n - 2
    BY <1>2, <1>3
  <1>13. Preparing'
    BY <1>7, <1>8, <1>9, <1>10, <1>11, <1>12 DEF Preparing
  <1> QED BY <1>7, <1>11, <1>13 DEF PlanTrue, Finishing

\* The plan is cut short, or only what is read again is left of it.
LEMMA PlanEnds ==
    ASSUME RunOK, PlanTrue, run # NoRun,
           run' # NoRun, run'.mode = run.mode, run'.contained = run.contained,
           run'.results = run.results, trials' = trials, run'.before = run.before,
           run'.todo = << >> \/ (run.mode = "check" /\ run'.todo = After)
    PROVE  PlanTrue'
  <1>1. \A i \in 1..Len(run'.todo) : run'.todo[i].do = "again"
    BY AfterFacts
  <1>2. ~ProbeAhead'
    BY <1>1, AfterFacts, StepFacts DEF ProbeAhead, Planned
  <1>3. run'.mode = "doctor" => run'.todo = << >>
    BY DEF RunOK
  <1>4. Finishing'
    BY <1>1, <1>3, AfterFacts DEF Finishing
  <1> QED BY <1>2, <1>4 DEF PlanTrue, Preparing

-----------------------------------------------------------------------------
(* What a step does not touch stays true.                                    *)

LEMMA Untouched ==
    ASSUME IndInv
    PROVE  /\ UNCHANGED <<disk, edits, touched, files, checks>> => FilesOK'
           /\ UNCHANGED <<run, checks>> => RunOK'
           /\ UNCHANGED box => BoxOK'
           /\ UNCHANGED <<run, box, trials, touched>> => Idle'
           /\ UNCHANGED <<run, trials>> => PlanTrue'
           /\ UNCHANGED <<run, box, trials>> => CallTrue' /\ TrialsTrue'
           /\ UNCHANGED run => LeftTrue'
           /\ UNCHANGED <<run, touched, disk>> => ReadTrue'
           /\ UNCHANGED <<run, trials, touched, disk>> => SeenTrue'
           /\ UNCHANGED files => IssuedTrue'
           /\ UNCHANGED <<page, files>> => RowsWereIssued'
  <1> USE DEF IndInv
  <1>1. UNCHANGED <<disk, edits, touched, files, checks>> => FilesOK'
    BY DEF FilesOK
  <1>2. UNCHANGED <<run, checks>> => RunOK'
    BY DEF RunOK, Config
  <1>3. UNCHANGED box => BoxOK'
    BY DEF BoxOK
  <1>4. UNCHANGED <<run, box, trials, touched>> => Idle'
    BY DEF Idle
  <1>5. UNCHANGED <<run, trials>> => PlanTrue'
    BY DEF PlanTrue, Preparing, Finishing, ProbeAhead, Planned, Trying, Config
  <1>6. UNCHANGED <<run, box, trials>> => CallTrue' /\ TrialsTrue'
    BY DEF CallTrue, TrialsTrue, Tried, Counted, BeingCounted, Canary, Todo, Config
  <1>7. UNCHANGED run => LeftTrue'
    BY DEF LeftTrue
  <1>8. UNCHANGED <<run, touched, disk>> => ReadTrue'
    BY DEF ReadTrue, Content
  <1>9. UNCHANGED <<run, trials, touched, disk>> => SeenTrue'
    BY DEF SeenTrue, StillThere, Content
  <1>10. UNCHANGED files => IssuedTrue'
    BY DEF IssuedTrue, EntryVerified
  <1>11. UNCHANGED <<page, files>> => RowsWereIssued'
    BY DEF RowsWereIssued
  <1> QED BY <1>1, <1>2, <1>3, <1>4, <1>5, <1>6, <1>7, <1>8, <1>9, <1>10, <1>11

-----------------------------------------------------------------------------
(* Changes to the files.                                                     *)

Contents(item) ==
  CASE item = "config" -> Configs
    [] item = "harness" -> {"own", "template"}
    [] OTHER -> Trees

\* Only what is read of the changed item differs.
LEMMA PutFacts ==
    ASSUME FilesOK, NEW item \in Items, NEW content \in Contents(item), NEW id \in Nat,
           Put(item, content, id)
    PROVE  /\ disk' \in [config : [content : Configs, id : Nat], harness : {"own", "template"},
                         current : Trees, candidate : Trees]
           /\ edits' \in Nat
           /\ touched' \in [Items -> Nat]
           /\ run # NoRun => touched'[item] > 0 /\ touched'[item] = touched[item] + 1
           /\ run = NoRun => touched' = touched
           /\ \A other \in Items \ {item} : touched'[other] = touched[other]
           /\ \A part \in Parts : part[1] # item => Content(part)' = Content(part)
  <1>2. /\ touched' \in [Items -> Nat]
        /\ run # NoRun => touched'[item] > 0 /\ touched'[item] = touched[item] + 1
        /\ run = NoRun => touched' = touched
        /\ \A other \in Items \ {item} : touched'[other] = touched[other]
    BY DEF Put, FilesOK
  <1>3. edits' \in Nat
    BY DEF Put, FilesOK
  <1>4. PICK new : disk' = [disk EXCEPT ![item] = new]
                   /\ new = IF item = "config" THEN [content |-> content, id |-> id] ELSE content
    BY DEF Put
  <1>5. /\ item = "config" => new \in [content : Configs, id : Nat]
        /\ item = "harness" => new \in {"own", "template"}
        /\ item \in Sides => new \in Trees
    BY <1>4 DEF Contents, Sides
  <1>6. PICK d \in [config : [content : Configs, id : Nat], harness : {"own", "template"},
                    current : Trees, candidate : Trees] : d = disk
    BY DEF FilesOK
  <1>7. disk' \in [config : [content : Configs, id : Nat], harness : {"own", "template"},
                   current : Trees, candidate : Trees]
    <2>1. CASE item = "config"
      BY <1>4, <1>5, <1>6, <2>1
    <2>2. CASE item = "harness"
      BY <1>4, <1>5, <1>6, <2>2
    <2>3. CASE item = "current"
      BY <1>4, <1>5, <1>6, <2>3 DEF Sides
    <2>4. CASE item = "candidate"
      BY <1>4, <1>5, <1>6, <2>4 DEF Sides
    <2> QED BY <2>1, <2>2, <2>3, <2>4 DEF Items, Sides
  <1>8. ASSUME NEW other \in Items, other # item PROVE disk'[other] = disk[other]
    BY <1>4, <1>6, <1>8 DEF Items, Sides
  <1>9. \A part \in Parts : part[1] # item => Content(part)' = Content(part)
    BY <1>8, PartFacts DEF Content
  <1> QED BY <1>2, <1>3, <1>7, <1>9

\* One change of an item leaves what was seen of it before as it was recorded.
LEMMA PutInv ==
    ASSUME IndInv, NEW item \in Items, NEW content \in Contents(item), NEW id \in Nat,
           Put(item, content, id), UNCHANGED <<run, box, trials, outVars, checks>>
    PROVE  IndInv'
  <1> USE DEF IndInv
  <1>1. FilesOK'
    BY PutFacts DEF FilesOK, outVars
  <1>2. RunOK' /\ BoxOK' /\ PlanTrue' /\ CallTrue' /\ TrialsTrue' /\ LeftTrue' /\ IssuedTrue' /\ RowsWereIssued'
    BY Untouched DEF outVars
  <1>3. Idle'
    BY PutFacts DEF Idle
  <1>4. /\ run # NoRun => \A part \in DOMAIN run.before : part \in Parts /\ part[1] \in Items
        /\ \A part \in Parts : part[1] # item => Content(part)' = Content(part) /\ touched'[part[1]] = touched[part[1]]
    BY PutFacts, PartFacts DEF RunOK
  <1>5. ReadTrue'
    <2> SUFFICES ASSUME run # NoRun PROVE ReadTrue'
      BY DEF ReadTrue
    <2>1. ASSUME NEW part \in DOMAIN run.before, touched'[part[1]] = 0
          PROVE  run.before[part] = Content(part)'
      <3>1. part[1] # item
        BY <2>1, PutFacts
      <3> QED BY <3>1, <2>1, <1>4, PutFacts DEF ReadTrue
    <2> QED BY <2>1, PutFacts DEF ReadTrue
  <1>6. ASSUME run # NoRun, NEW part \in Parts, NEW c, touched'[part[1]] <= 1,
               part \in DOMAIN run.before,
               touched[part[1]] <= 1 => c = run.before[part] \/ StillThere(part, c)
        PROVE  c = run.before[part] \/ StillThere(part, c)'
    <2>1. CASE part[1] = item
      <3>1. touched[part[1]] = 0
        BY <2>1, <1>6, PutFacts DEF FilesOK
      <3>2. run.before[part] = Content(part)
        BY <3>1, <1>6, PutFacts DEF ReadTrue
      <3> QED BY <3>1, <3>2, <1>6 DEF StillThere
    <2>2. CASE part[1] # item
      BY <2>2, <1>4, <1>6 DEF StillThere
    <2> QED BY <2>1, <2>2
  <1>7. SeenTrue'
    <2> SUFFICES ASSUME run # NoRun PROVE SeenTrue'
      BY DEF SeenTrue
    <2>1. ASSUME NEW t \in trials
          PROVE  /\ touched'[t.side] <= 1 =>
                      \/ t.tree = run.before[<<t.side, "tree">>]
                      \/ StillThere(<<t.side, "tree">>, t.tree)'
                 /\ touched'["harness"] <= 1 =>
                      t.harness = run.before[Harness] \/ StillThere(Harness, t.harness)'
      <3>1. t.side \in Sides /\ Parts \subseteq DOMAIN run.before
        BY PutFacts DEF TrialsTrue, PlanTrue
      <3>2. <<t.side, "tree">> \in Parts /\ <<t.side, "tree">>[1] = t.side
        BY <3>1, PartFacts
      <3>3. Harness \in Parts /\ Harness[1] = "harness"
        BY PartFacts DEF Harness
      <3>4. /\ touched[t.side] <= 1 =>
                 \/ t.tree = run.before[<<t.side, "tree">>]
                 \/ StillThere(<<t.side, "tree">>, t.tree)
            /\ touched["harness"] <= 1 =>
                 t.harness = run.before[Harness] \/ StillThere(Harness, t.harness)
        BY PutFacts DEF SeenTrue
      <3>5. touched'[t.side] <= 1 =>
              \/ t.tree = run.before[<<t.side, "tree">>]
              \/ StillThere(<<t.side, "tree">>, t.tree)'
        BY <3>1, <3>2, <3>4, <1>6
      <3>6. touched'["harness"] <= 1 =>
              t.harness = run.before[Harness] \/ StillThere(Harness, t.harness)'
        BY <3>1, <3>3, <3>4, <1>6
      <3> QED BY <3>5, <3>6
    <2>2. ASSUME NEW side \in Sides, run.mode = "check", <<side, "tree">> \in DOMAIN run.before,
                 touched'[side] <= 1
          PROVE  \/ Manifest(run.before[<<side, "tree">>]) = run.before[<<side, "manifest">>]
                 \/ StillThere(<<side, "manifest">>, Manifest(run.before[<<side, "tree">>]))'
      <3>1. /\ <<side, "tree">> \in Parts /\ <<side, "manifest">> \in Parts
            /\ <<side, "tree">>[1] = side /\ <<side, "manifest">>[1] = side
            /\ side \in Items
        BY PartFacts DEF Items
      <3>2. <<side, "manifest">> \in DOMAIN run.before
        BY <2>2, PutFacts DEF ReadTrue
      <3>3. CASE side = item
        <4>1. touched[side] = 0
          BY <3>3, <2>2, PutFacts DEF FilesOK
        <4>2. /\ run.before[<<side, "tree">>] = Content(<<side, "tree">>)
              /\ run.before[<<side, "manifest">>] = Content(<<side, "manifest">>)
          BY <4>1, <3>1, <3>2, <2>2, PutFacts DEF ReadTrue
        <4>3. Content(<<side, "tree">>) = disk[side] /\ Content(<<side, "manifest">>) = Manifest(disk[side])
          BY DEF Content
        <4> QED BY <4>2, <4>3
      <3>4. CASE side # item
        <4>1. touched[side] <= 1
          BY <3>1, <3>4, <2>2, PutFacts
        <4>2. \/ Manifest(run.before[<<side, "tree">>]) = run.before[<<side, "manifest">>]
              \/ StillThere(<<side, "manifest">>, Manifest(run.before[<<side, "tree">>]))
          BY <4>1, <2>2, PutFacts DEF SeenTrue
        <4>3. Content(<<side, "manifest">>)' = Content(<<side, "manifest">>)
          BY <3>1, <3>4, PutFacts
        <4> QED BY <4>2, <4>3 DEF StillThere
      <3> QED BY <3>3, <3>4
    <2> QED BY <2>1, <2>2, PutFacts DEF SeenTrue
  <1> QED BY <1>1, <1>2, <1>3, <1>5, <1>7

LEMMA FileChangesInv ==
    ASSUME IndInv, FileChanges PROVE IndInv'
  <1> USE DEF Contents, Items, Sides
  <1>1. CASE Edit
    <2>1. disk.config.content \in Configs /\ disk.config.id \in Nat /\ edits + 1 \in Nat
      BY DEF IndInv, FilesOK
    <2>2. CASE \E id \in {0, edits + 1} : Put("config", disk.config.content, id)
      BY <1>1, <2>1, <2>2, PutInv DEF Edit
    <2>3. CASE \E c \in Configs \ {disk.config.content} : Put("config", c, disk.config.id)
      BY <1>1, <2>1, <2>3, PutInv DEF Edit
    <2>4. CASE \E h \in {"own", "template"} \ {disk.harness} : Put("harness", h, 0)
      BY <1>1, <2>4, PutInv DEF Edit
    <2>5. CASE \E side \in Sides : \E t \in Trees \ {disk[side]} : Put(side, t, 0)
      BY <1>1, <2>5, PutInv DEF Edit
    <2> QED BY <1>1, <2>2, <2>3, <2>4, <2>5 DEF Edit
  <1>2. CASE InitUpgrade
    <2>1. Template \in Configs /\ edits + 1 \in Nat
      BY UpgradeAssumption DEF Template, IndInv, FilesOK
    <2> QED BY <1>2, <2>1, PutInv DEF InitUpgrade
  <1>3. CASE WriteScaffold
    BY <1>3, PutInv DEF WriteScaffold
  <1> QED BY <1>1, <1>2, <1>3 DEF FileChanges

-----------------------------------------------------------------------------
(* Before, between and after evaluations.                                    *)

LEMMA InitInv ==
    ASSUME Init PROVE IndInv
  <1> USE DEF Init
  <1>1. FilesOK
    <2>1. disk \in [config : [content : Configs, id : Nat], harness : {"own", "template"},
                    current : Trees, candidate : Trees]
      BY UpgradeAssumption
    <2>2. /\ Earlier \in ReceiptSet /\ [id |-> 0, verdict |-> "none"] \in ReceiptSet
          /\ NoEntry \in EntrySet /\ Entry(Earlier, "owner", TRUE) \in EntrySet
      BY DEF ReceiptSet, EntrySet, Earlier, NoEntry, Entry
    <2>3. files \in [private : ReceiptSet, public : EntrySet, all : SUBSET ReceiptSet]
      <3>1. CASE files = [private |-> [id |-> 0, verdict |-> "none"], public |-> NoEntry, all |-> {}]
        BY <2>2, <3>1
      <3>2. CASE files = [private |-> Earlier, public |-> Entry(Earlier, "owner", TRUE), all |-> {Earlier}]
        BY <2>2, <3>2
      <3> QED BY <3>1, <3>2
    <2>4. edits = 0 /\ checks = 0 /\ touched = [i \in Items |-> 0]
      OBVIOUS
    <2>5. touched \in [Items -> Nat]
      BY <2>4
    <2> QED BY ONLY <2>1, <2>3, <2>4, <2>5 DEF FilesOK
  <1>2. run = NoRun /\ box = NoBox /\ trials = {} /\ page = {}
    OBVIOUS
  <1>3. BoxOK
    BY DEF BoxOK, NoBox, Given
  <1>4. CallTrue
    BY DEF CallTrue, NoBox
  <1>5. IssuedTrue
    BY DEF IssuedTrue, EntryVerified, Earlier, NoEntry, Entry
  <1> QED BY <1>1, <1>2, <1>3, <1>4, <1>5
          DEF IndInv, RunOK, Idle, PlanTrue, LeftTrue, TrialsTrue, ReadTrue, SeenTrue, RowsWereIssued

\* The evaluation ends or is killed: nothing of it is remembered but its receipt.
LEMMA OverInv ==
    ASSUME IndInv, Over, UNCHANGED <<disk, edits, checks>>, FilesOK', IssuedTrue', RowsWereIssued'
    PROVE  IndInv'
  <1>1. run' = NoRun /\ box' = NoBox /\ trials' = {} /\ touched' = [i \in Items |-> 0]
    BY DEF Over
  <1>2. BoxOK'
    BY <1>1 DEF BoxOK, NoBox, Given
  <1>3. CallTrue'
    BY <1>1 DEF CallTrue, NoBox
  <1> QED BY <1>1, <1>2, <1>3
          DEF IndInv, RunOK, Idle, PlanTrue, LeftTrue, TrialsTrue, ReadTrue, SeenTrue

\* An evaluation begins with its whole plan ahead of it.
LEMMA BeginInv ==
    ASSUME IndInv, NEW mode \in {"check", "doctor"}, NEW p,
           p = IF mode = "check" THEN Before \o Docker ELSE <<Step("inspect", ConfigFile)>> \o Docker,
           Begin(mode, p)
    PROVE  IndInv'
  <1>1. /\ run = NoRun /\ box = NoBox /\ trials = {}
    BY DEF Begin, IndInv, Idle
  <1>2. /\ run' = [mode |-> mode, todo |-> p, supplied |-> disk.config.content,
                   before |-> << >>, after |-> << >>,
                   contained |-> FALSE, results |-> {}, left |-> FALSE, cause |-> "none"]
        /\ UNCHANGED <<disk, edits, touched, box, trials, files, page>>
        /\ checks' = checks + 1
    BY DEF Begin, fileVars, outVars
  <1>3. p \in Seq(StepSet) /\ Len(p) \in Nat \ {0} /\ p[Len(p)] = Probe
    <2>1. CASE mode = "check"
      <3>1. p = Before \o Docker
        BY <2>1
      <3>2. p \in Seq(StepSet) /\ Len(p) = 10 /\ p[10] = Probe
        BY <3>1, ReadingFacts
      <3> QED BY <3>2
    <2>2. CASE mode # "check"
      <3>1. p = <<Step("inspect", ConfigFile)>> \o Docker
        BY <2>2
      <3>2. p \in Seq(StepSet) /\ Len(p) = 4 /\ p[4] = Probe
        BY <3>1, LookingFacts
      <3> QED BY <3>2
    <2> QED BY <2>1, <2>2
  <1>4. \A i \in 1..(Len(p) - 1) : p[i].do \in {"inspect", "roots", "client", "image"}
    <2>1. CASE mode = "check"
      <3>1. p = Before \o Docker
        BY <2>1
      <3>2. /\ Len(p) = 10
            /\ p[1].do = "inspect" /\ p[2].do = "roots" /\ p[3].do = "inspect" /\ p[4].do = "inspect"
            /\ p[5].do = "inspect" /\ p[6].do = "inspect" /\ p[7].do = "inspect"
            /\ p[8].do = "client" /\ p[9].do = "image"
        <4>1. /\ Len(p) = 10
              /\ p[1] = Step("inspect", ConfigFile) /\ p[2] = Step("roots", << >>)
              /\ p[3] = Step("inspect", Harness)
              /\ p[4] = Step("inspect", <<"current", "manifest">>)
              /\ p[5] = Step("inspect", <<"current", "tree">>)
              /\ p[6] = Step("inspect", <<"candidate", "manifest">>)
              /\ p[7] = Step("inspect", <<"candidate", "tree">>)
              /\ p[8] = Step("client", << >>) /\ p[9] = Step("image", << >>)
          BY <3>1, ReadingFacts
        <4>2. \A do, on : Step(do, on).do = do
          BY StepFacts
        <4> QED BY ONLY <4>1, <4>2
      <3> QED BY ONLY <3>2
    <2>2. CASE mode # "check"
      <3>1. p = <<Step("inspect", ConfigFile)>> \o Docker
        BY <2>2
      <3>2. Len(p) = 4 /\ p[1].do = "inspect" /\ p[2].do = "client" /\ p[3].do = "image"
        <4>1. /\ Len(p) = 4 /\ p[1] = Step("inspect", ConfigFile) /\ p[2] = Step("client", << >>)
              /\ p[3] = Step("image", << >>)
          BY <3>1, LookingFacts
        <4> QED BY <4>1, StepFacts
      <3> QED BY ONLY <3>2
    <2> QED BY <2>1, <2>2
  <1>5. ASSUME mode = "check", NEW part \in Parts
        PROVE  \E i \in 1..Len(p) : p[i] = Step("inspect", part)
    <2>1. PICK q : q = Before \o Docker
      OBVIOUS
    <2>2. /\ Len(q) = 10
          /\ q[1] = Step("inspect", ConfigFile) /\ q[3] = Step("inspect", Harness)
          /\ q[4] = Step("inspect", <<"current", "manifest">>)
          /\ q[5] = Step("inspect", <<"current", "tree">>)
          /\ q[6] = Step("inspect", <<"candidate", "manifest">>)
          /\ q[7] = Step("inspect", <<"candidate", "tree">>)
      BY <2>1, ReadingFacts
    <2>3. p = q
      BY <2>1, <1>5
    <2>4. 1 \in 1..10 /\ 3 \in 1..10 /\ 4 \in 1..10 /\ 5 \in 1..10 /\ 6 \in 1..10 /\ 7 \in 1..10
      OBVIOUS
    <2> QED BY <2>2, <2>3, <2>4, PartFacts
  <1>6. ASSUME mode = "check", NEW i \in 1..Len(p), NEW side \in Sides,
               p[i] = Step("inspect", <<side, "tree">>)
        PROVE  \E j \in 1..(i - 1) : p[j] = Step("inspect", <<side, "manifest">>)
    <2>1. PICK q : q = Before \o Docker
      OBVIOUS
    <2>2. /\ Len(q) = 10
          /\ q[1] = Step("inspect", ConfigFile) /\ q[2] = Step("roots", << >>) /\ q[3] = Step("inspect", Harness)
          /\ q[4] = Step("inspect", <<"current", "manifest">>)
          /\ q[5] = Step("inspect", <<"current", "tree">>)
          /\ q[6] = Step("inspect", <<"candidate", "manifest">>)
          /\ q[7] = Step("inspect", <<"candidate", "tree">>)
          /\ q[8] = Step("client", << >>) /\ q[9] = Step("image", << >>) /\ q[10] = Probe
      BY <2>1, ReadingFacts
    <2>3. p = q
      BY <2>1, <1>6
    <2>4. i \in 1..10
      BY <2>2, <2>3
    <2>5. q[i].do = "inspect" /\ q[i].on = <<side, "tree">>
      BY <1>6, <2>3, StepFacts
    <2>6. i \in {5, 7}
      <3>1. /\ q[1].on = ConfigFile /\ q[2].do = "roots" /\ q[3].on = Harness
            /\ q[4].on = <<"current", "manifest">> /\ q[6].on = <<"candidate", "manifest">>
            /\ q[8].do = "client" /\ q[9].do = "image" /\ q[10].do = "call"
        BY <2>2, StepFacts
      <3>2. /\ ConfigFile # <<side, "tree">> /\ Harness # <<side, "tree">>
            /\ <<"current", "manifest">> # <<side, "tree">> /\ <<"candidate", "manifest">> # <<side, "tree">>
        BY DEF ConfigFile, Harness, Sides
      <3>3. i # 1 /\ i # 2 /\ i # 3 /\ i # 4 /\ i # 6 /\ i # 8 /\ i # 9 /\ i # 10
        BY <3>1, <3>2, <2>5
      <3> QED BY ONLY <3>3, <2>4
    <2>7. CASE i = 5
      <3>1. side = "current"
        BY <2>7, <2>5, <2>2, StepFacts
      <3>2. 4 \in 1..(i - 1)
        BY <2>7
      <3> QED BY <3>1, <3>2, <2>2, <2>3
    <2>8. CASE i = 7
      <3>1. side = "candidate"
        BY <2>8, <2>5, <2>2, StepFacts
      <3>2. 6 \in 1..(i - 1)
        BY <2>8
      <3> QED BY <3>1, <3>2, <2>2, <2>3
    <2> QED BY <2>6, <2>7, <2>8
  <1>7. /\ run' # NoRun /\ run'.todo = p /\ run'.mode = mode /\ run'.before = << >> /\ run'.after = << >>
        /\ ~run'.contained /\ ~run'.left /\ run'.results = {} /\ trials' = {}
    BY <1>1, <1>2 DEF NoRun
  <1>8. PICK n \in Nat \ {0} : n = Len(p)
    BY <1>3
  <1>9. \A i \in 1..n : \A s : p[i] = s => Planned(i, s)'
    BY <1>3, <1>7, <1>8 DEF Planned
  <1>10. \A i, s : Planned(i, s)' => i \in 1..n /\ p[i] = s
    BY <1>3, <1>7, <1>8 DEF Planned
  <1>11. ProbeAhead'
    <2>1. n \in 1..n /\ p[n] = Probe
      BY <1>3, <1>8
    <2>2. Len(run'.todo) = n /\ n > 0
      BY <1>7, <1>8
    <2>3. Planned(n, Probe)'
      BY <2>1, <1>9
    <2> QED BY <2>2, <2>3 DEF ProbeAhead
  <1>12. Preparing'
    <2>1. mode = "check" => \A part \in Parts : \E i \in 1..n : Planned(i, Step("inspect", part))'
      BY <1>5, <1>8, <1>9
    <2>2. ASSUME mode = "check", NEW i \in 1..n, NEW side \in Sides, Planned(i, Step("inspect", <<side, "tree">>))'
          PROVE  \E j \in 1..(i - 1) : Planned(j, Step("inspect", <<side, "manifest">>))'
      <3>1. PICK j \in 1..(i - 1) : p[j] = Step("inspect", <<side, "manifest">>)
        BY <2>2, <1>6, <1>8, <1>10
      <3>2. j \in 1..n
        OBVIOUS
      <3> QED BY <3>1, <3>2, <1>9
    <2>3. DOMAIN run'.after = {}
      BY <1>7
    <2> QED BY <1>4, <1>7, <1>8, <2>1, <2>2, <2>3 DEF Preparing
  <1>13. PlanTrue'
    BY <1>11, <1>12, <1>7 DEF PlanTrue, Finishing
  <1>14. FilesOK'
    BY <1>2 DEF IndInv, FilesOK
  <1>15. RunOK'
    <2>1. checks' > 0
      BY <1>2 DEF IndInv, FilesOK
    <2>2. run' = [mode |-> run'.mode, todo |-> run'.todo, supplied |-> run'.supplied,
                  before |-> run'.before, after |-> run'.after, contained |-> run'.contained,
                  results |-> run'.results, left |-> run'.left, cause |-> run'.cause]
      BY <1>2
    <2>3. DOMAIN run'.before = {} /\ DOMAIN run'.after = {} /\ run'.contained \in BOOLEAN /\ run'.left \in BOOLEAN
      BY <1>2
    <2> QED BY <2>1, <2>2, <2>3, <1>3, <1>7 DEF RunOK
  <1>16. BoxOK' /\ IssuedTrue' /\ RowsWereIssued'
    BY <1>2, Untouched
  <1>17. CallTrue'
    BY <1>1, <1>2 DEF CallTrue, NoBox
  <1>18. Idle' /\ LeftTrue' /\ TrialsTrue'
    BY <1>7 DEF Idle, LeftTrue, TrialsTrue
  <1>19. ReadTrue' /\ SeenTrue'
    <2>1. DOMAIN run'.before = {}
      BY <1>7
    <2> QED BY <2>1, <1>7 DEF ReadTrue, SeenTrue
  <1> QED BY <1>13, <1>14, <1>15, <1>16, <1>17, <1>18, <1>19 DEF IndInv

-----------------------------------------------------------------------------
(* An evaluation gets on without Docker.                                     *)

\* Outside a call there is no box.
LEMMA NoCall ==
    ASSUME IndInv, run # NoRun, run.todo = << >> \/ Todo.do # "call"
    PROVE  box = NoBox /\ box.stage = "none"
  <1>1. box.stage = "none"
    BY DEF IndInv, CallTrue
  <1> QED BY <1>1 DEF IndInv, BoxOK

\* The plan is cut short, whatever the cause.
LEMMA CutShortInv ==
    ASSUME IndInv, run # NoRun, box = NoBox, NEW todo, NEW cause,
           run' = [run EXCEPT !.todo = todo, !.cause = cause],
           todo = << >> \/ (run.mode = "check" /\ todo = After),
           UNCHANGED <<fileVars, box, trials, outVars, checks>>
    PROVE  IndInv'
  <1>1. /\ run' = [mode |-> run'.mode, todo |-> run'.todo, supplied |-> run'.supplied,
                   before |-> run'.before, after |-> run'.after, contained |-> run'.contained,
                   results |-> run'.results, left |-> run'.left, cause |-> run'.cause]
        /\ run'.todo = todo /\ run'.mode = run.mode /\ run'.before = run.before /\ run'.after = run.after
        /\ run'.contained = run.contained /\ run'.results = run.results /\ run'.left = run.left
    BY DEF IndInv, RunOK
  <1>2. run' # NoRun
    BY <1>1 DEF IndInv, RunOK, NoRun
  <1>3. UNCHANGED <<disk, edits, touched, box, trials, files, page, checks>>
    BY DEF fileVars, outVars
  <1>4. todo \in Seq(StepSet)
    <2>1. << >> \in Seq(StepSet)
      OBVIOUS
    <2> QED BY <2>1, AfterFacts
  <1>5. Config' = Config
    BY <1>1 DEF Config
  <1>6. RunOK'
    BY <1>1, <1>2, <1>3, <1>4, <1>5 DEF IndInv, RunOK
  <1>7. PlanTrue'
    BY <1>1, <1>2, <1>3, PlanEnds DEF IndInv
  <1>8. box.stage = "none" /\ box'.stage = "none"
    BY <1>3 DEF NoBox
  <1>9. CallTrue' /\ Idle' /\ LeftTrue'
    BY <1>1, <1>2, <1>8 DEF CallTrue, Idle, LeftTrue, IndInv
  <1>10. TrialsTrue'
    BY <1>1, <1>2, <1>3, <1>5, <1>8 DEF TrialsTrue, IndInv, BeingCounted, Counted, Tried
  <1>11. ReadTrue' /\ SeenTrue'
    BY <1>1, <1>2, <1>3 DEF ReadTrue, SeenTrue, StillThere, Content, IndInv
  <1>12. FilesOK' /\ BoxOK' /\ IssuedTrue' /\ RowsWereIssued'
    BY <1>3, Untouched
  <1> QED BY <1>6, <1>7, <1>9, <1>10, <1>11, <1>12 DEF IndInv

\* A step of the preparation succeeds; an inspection records what is there.
LEMMA PreparedInv ==
    ASSUME IndInv, run # NoRun, run.todo # << >>, box = NoBox,
           Todo.do \in {"inspect", "roots", "client", "image"},
           NEW before,
           \/ Todo.do # "inspect" /\ before = run.before
           \/ Todo.do = "inspect" /\ before = With(run.before, Todo.on, Content(Todo.on)),
           run' = [run EXCEPT !.todo = Tail(@), !.before = before],
           UNCHANGED <<fileVars, box, trials, outVars, checks>>
    PROVE  IndInv'
  <1>1. /\ run' = [mode |-> run'.mode, todo |-> run'.todo, supplied |-> run'.supplied,
                   before |-> run'.before, after |-> run'.after, contained |-> run'.contained,
                   results |-> run'.results, left |-> run'.left, cause |-> run'.cause]
        /\ run'.todo = Tail(run.todo) /\ run'.mode = run.mode /\ run'.before = before
        /\ run'.after = run.after /\ run'.contained = run.contained
        /\ run'.results = run.results /\ run'.left = run.left
    BY DEF IndInv, RunOK
  <1>2. run' # NoRun
    BY <1>1 DEF IndInv, RunOK, NoRun
  <1>3. UNCHANGED <<disk, edits, touched, box, trials, files, page, checks>>
    BY DEF fileVars, outVars
  <1>4. /\ ProbeAhead /\ ~run.left /\ run.results = {} /\ trials = {} /\ DOMAIN run.after = {}
    BY HeadPrepares DEF IndInv, PlanTrue, Preparing
  <1>5. Todo.do = "inspect" => Todo.on \in Parts
    BY FirstStep, StepFacts DEF IndInv
  <1>6. /\ DOMAIN before \subseteq Parts /\ DOMAIN run.before \subseteq DOMAIN before
        /\ Todo.do = "inspect" => Todo.on \in DOMAIN before
        /\ \A part \in DOMAIN run.before : before[part] = run.before[part]
        /\ \A part \in DOMAIN before \ DOMAIN run.before :
             Todo.do = "inspect" /\ part = Todo.on /\ before[part] = Content(part)
    <2>1. DOMAIN run.before \subseteq Parts
      BY DEF IndInv, RunOK
    <2>2. CASE Todo.do # "inspect"
      BY <2>1, <2>2
    <2>3. CASE Todo.do = "inspect"
      <3>1. PICK on \in Parts : on = Todo.on
        BY <2>3, <1>5
      <3>2. before = [x \in DOMAIN run.before \cup {on} |->
                        IF x \in DOMAIN run.before THEN run.before[x] ELSE Content(on)]
        BY <2>3, <3>1 DEF With
      <3> QED BY ONLY <2>1, <2>3, <3>1, <3>2
    <2> QED BY <2>2, <2>3
  <1>7. PlanTrue'
    BY <1>1, <1>2, <1>3, <1>6, PlanAdvances DEF IndInv
  <1>8. ASSUME ConfigFile \in DOMAIN before PROVE Config' \in Configs
    <2>1. Config' = before[ConfigFile].content
      BY <1>1 DEF Config
    <2>2. CASE ConfigFile \in DOMAIN run.before
      BY <2>1, <2>2, <1>6 DEF IndInv, RunOK, Config
    <2>3. CASE ConfigFile \notin DOMAIN run.before
      <3>1. before[ConfigFile] = Content(ConfigFile)
        BY <2>3, <1>6, <1>8
      <3>2. Content(ConfigFile) = disk.config
        BY DEF Content, ConfigFile
      <3> QED BY <2>1, <3>1, <3>2 DEF IndInv, FilesOK
    <2> QED BY <2>2, <2>3
  <1>9. RunOK'
    <2>1. run'.todo \in Seq(StepSet)
      BY <1>1, FirstStep DEF IndInv
    <2> QED BY <1>1, <1>2, <1>3, <1>6, <1>8, <2>1 DEF IndInv, RunOK
  <1>10. box'.stage = "none"
    BY <1>3 DEF NoBox
  <1>11. CallTrue' /\ Idle' /\ LeftTrue' /\ TrialsTrue'
    BY <1>1, <1>2, <1>3, <1>4, <1>10 DEF CallTrue, Idle, LeftTrue, TrialsTrue
  <1>12. ASSUME run.mode = "check", NEW side \in Sides, <<side, "tree">> \in DOMAIN before
         PROVE  /\ <<side, "manifest">> \in DOMAIN before
                /\ <<side, "tree">> \in DOMAIN run.before => <<side, "manifest">> \in DOMAIN run.before
    <2>1. CASE <<side, "tree">> \in DOMAIN run.before
      BY <2>1, <1>6, <1>12 DEF IndInv, ReadTrue
    <2>2. CASE <<side, "tree">> \notin DOMAIN run.before
      <3>1. Todo.do = "inspect" /\ Todo.on = <<side, "tree">>
        BY <2>2, <1>6, <1>12
      <3>2. Todo = Step("inspect", <<side, "tree">>)
        BY <3>1, FirstStep, StepFacts DEF IndInv
      <3>3. 1 \in 1..Len(run.todo) /\ Planned(1, Step("inspect", <<side, "tree">>))
        BY <3>2, FirstStep DEF IndInv, Planned, RunOK
      <3>4. \/ <<side, "manifest">> \in DOMAIN run.before
            \/ \E j \in 1..(1 - 1) : Planned(j, Step("inspect", <<side, "manifest">>))
        BY <3>3, <1>4, <1>12 DEF IndInv, PlanTrue, Preparing
      <3>5. 1..(1 - 1) = {}
        OBVIOUS
      <3> QED BY <3>4, <3>5, <2>2, <1>6
    <2> QED BY <2>1, <2>2
  <1>13. ReadTrue'
    <2>1. ASSUME NEW part \in DOMAIN before, touched[part[1]] = 0
          PROVE  before[part] = Content(part)
      BY <2>1, <1>6 DEF IndInv, ReadTrue
    <2>2. \A part : Content(part)' = Content(part)
      BY <1>3 DEF Content
    <2> QED BY <2>1, <2>2, <1>1, <1>2, <1>3, <1>12 DEF ReadTrue
  <1>14. SeenTrue'
    <2>1. ASSUME run.mode = "check", NEW side \in Sides, <<side, "tree">> \in DOMAIN before, touched[side] <= 1
          PROVE  \/ Manifest(before[<<side, "tree">>]) = before[<<side, "manifest">>]
                 \/ StillThere(<<side, "manifest">>, Manifest(before[<<side, "tree">>]))
      <3>1. CASE <<side, "tree">> \in DOMAIN run.before
        BY <3>1, <2>1, <1>6, <1>12 DEF IndInv, SeenTrue
      <3>2. CASE <<side, "tree">> \notin DOMAIN run.before
        <4>1. before[<<side, "tree">>] = Content(<<side, "tree">>)
          BY <3>2, <2>1, <1>6
        <4>2. Content(<<side, "tree">>) = disk[side] /\ Content(<<side, "manifest">>) = Manifest(disk[side])
          BY DEF Content
        <4> QED BY <4>1, <4>2, <1>4 DEF StillThere
      <3> QED BY <3>1, <3>2
    <2>2. \A part, c : StillThere(part, c)' = StillThere(part, c)
      BY <1>1, <1>3 DEF StillThere, Content
    <2> QED BY <2>1, <2>2, <1>1, <1>2, <1>3, <1>4 DEF SeenTrue
  <1>15. FilesOK' /\ BoxOK' /\ IssuedTrue' /\ RowsWereIssued'
    BY <1>3, Untouched
  <1> QED BY <1>7, <1>9, <1>11, <1>13, <1>14, <1>15 DEF IndInv

LEMMA PreparationInv ==
    ASSUME IndInv, Inspect \/ TrustRoots \/ BindDocker PROVE IndInv'
  <1>1. PICK do \in {"inspect", "roots", "client", "image"} : Doing(do)
    BY DEF Inspect, TrustRoots, BindDocker
  <1>2. run # NoRun /\ run.todo # << >> /\ Todo.do = do /\ box = NoBox
    BY <1>1, NoCall DEF Doing
  <1>3. UNCHANGED <<fileVars, box, trials, outVars, checks>>
    BY DEF Inspect, TrustRoots, BindDocker
  <1>4. ASSUME NEW cause, GiveUp(cause) PROVE IndInv'
    BY <1>2, <1>3, <1>4, CutShortInv DEF GiveUp
  <1>5. ASSUME run.mode = "check", run' = NoContainment PROVE IndInv'
    <2>1. run' = [run EXCEPT !.todo = After, !.cause = run.cause]
      BY <1>2, <1>5 DEF NoContainment, IndInv, RunOK
    <2> QED BY <1>2, <1>3, <1>5, <2>1, CutShortInv
  <1>6. ASSUME run.mode # "check", run' = NoContainment PROVE IndInv'
    <2>1. run' = [run EXCEPT !.todo = << >>, !.cause = run.cause]
      BY <1>2, <1>6 DEF NoContainment, IndInv, RunOK
    <2> QED BY <1>2, <1>3, <2>1, CutShortInv
  <1>7. ASSUME Advance, do # "inspect" PROVE IndInv'
    <2>1. run' = [run EXCEPT !.todo = Tail(@), !.before = run.before]
      BY <1>2, <1>7 DEF Advance, IndInv, RunOK
    <2> QED BY <1>2, <1>3, <1>7, <2>1, PreparedInv
  <1>8. CASE Inspect
    <2>1. do = "inspect"
      BY <1>2, <1>8 DEF Inspect, Doing
    <2>2. ASSUME run' = [run EXCEPT !.todo = Tail(@), !.before = With(@, Todo.on, Content(Todo.on))]
          PROVE  IndInv'
      <3>1. PICK before : before = With(run.before, Todo.on, Content(Todo.on))
        OBVIOUS
      <3>2. run' = [run EXCEPT !.todo = Tail(@), !.before = before]
        BY <2>2, <3>1
      <3> QED BY <1>2, <1>3, <2>1, <3>1, <3>2, PreparedInv
    <2> QED BY <1>8, <2>2, <1>4 DEF Inspect
  <1>9. CASE TrustRoots
    <2>1. do = "roots"
      BY <1>2, <1>9 DEF TrustRoots, Doing
    <2> QED BY <1>9, <2>1, <1>4, <1>7 DEF TrustRoots
  <1>10. CASE BindDocker
    <2>1. do \in {"client", "image"}
      BY <1>2, <1>10 DEF BindDocker, Doing
    <2> QED BY <1>10, <2>1, <1>4, <1>5, <1>6, <1>7 DEF BindDocker
  <1> QED BY <1>8, <1>9, <1>10

\* Something is read again, or cannot be, and the rest is still to be.
LEMMA ReadAgainInv ==
    ASSUME IndInv, run # NoRun, run.todo # << >>, Todo.do = "again", box = NoBox,
           run' = [mode |-> run'.mode, todo |-> run'.todo, supplied |-> run'.supplied,
                   before |-> run'.before, after |-> run'.after, contained |-> run'.contained,
                   results |-> run'.results, left |-> run'.left, cause |-> run'.cause],
           run'.todo = Tail(run.todo), run'.mode = run.mode, run'.before = run.before,
           run'.contained = run.contained, run'.results = run.results, run'.left = run.left,
           DOMAIN run'.after \subseteq Parts,
           \A part, c : StillThere(part, c) => StillThere(part, c)',
           UNCHANGED <<disk, edits, touched, box, trials, files, page, checks>>
    PROVE  IndInv'
  <1>1. run' # NoRun
    BY DEF IndInv, RunOK, NoRun
  <1>2. Config' = Config
    BY DEF Config
  <1>3. /\ run.mode = "check"
        /\ \A i \in 1..Len(run.todo) : run.todo[i].do = "again"
    BY HeadAgain DEF IndInv
  <1>4. /\ run'.todo \in Seq(StepSet)
        /\ \A i \in 1..Len(run'.todo) : run'.todo[i].do = "again"
    BY <1>3, FirstStep DEF IndInv
  <1>5. RunOK'
    BY <1>1, <1>2, <1>4 DEF IndInv, RunOK
  <1>6. ~ProbeAhead'
    <2>1. SUFFICES ASSUME ProbeAhead' PROVE FALSE
      OBVIOUS
    <2>2. PICK n \in Nat : n = Len(run'.todo)
      BY <1>4
    <2>3. n > 0 /\ run'.todo[n] = Probe
      BY <2>1, <2>2 DEF ProbeAhead, Planned
    <2>4. n \in 1..n
      BY <2>3
    <2>5. Probe.do = "again"
      BY <2>2, <2>3, <2>4, <1>4
    <2> QED BY <2>5, StepFacts
  <1>7. PlanTrue'
    <2>1. Finishing'
      BY <1>3, <1>4 DEF Finishing
    <2> QED BY <2>1, <1>6 DEF IndInv, PlanTrue, Preparing
  <1>8. box.stage = "none" /\ box'.stage = "none"
    BY DEF NoBox
  <1>9. CallTrue' /\ Idle' /\ LeftTrue'
    BY <1>1, <1>8 DEF CallTrue, Idle, LeftTrue, IndInv
  <1>10. TrialsTrue'
    BY <1>1, <1>2, <1>8 DEF TrialsTrue, IndInv, BeingCounted, Counted, Tried
  <1>11. ReadTrue'
    BY <1>1 DEF ReadTrue, Content, IndInv
  <1>12. SeenTrue'
    BY <1>1 DEF SeenTrue, IndInv
  <1>13. FilesOK' /\ BoxOK' /\ IssuedTrue' /\ RowsWereIssued'
    BY Untouched
  <1> QED BY <1>5, <1>7, <1>9, <1>10, <1>11, <1>12, <1>13 DEF IndInv

\* What is read again of a file that is still there is there.
LEMMA InspectAgainInv ==
    ASSUME IndInv, InspectAgain PROVE IndInv'
  <1>1. run # NoRun /\ run.todo # << >> /\ Todo.do = "again" /\ box = NoBox
    BY NoCall DEF InspectAgain, Doing
  <1>2. UNCHANGED <<fileVars, box, trials, outVars, checks>>
    BY DEF InspectAgain
  <1>3. UNCHANGED <<disk, edits, touched, box, trials, files, page, checks>>
    BY <1>2 DEF fileVars, outVars
  <1>4. /\ ~ProbeAhead /\ run.mode = "check"
        /\ \A i \in 1..Len(run.todo) : run.todo[i].do = "again"
    BY <1>1, HeadAgain DEF IndInv
  <1>5. CASE run' = [run EXCEPT !.todo = IF Todo.on = ConfigFile THEN Tail(@) ELSE << >>, !.cause = "unreadable"]
    <2>1. CASE Todo.on # ConfigFile
      <3>1. run' = [run EXCEPT !.todo = << >>, !.cause = "unreadable"]
        BY <1>5, <2>1
      <3> QED BY <1>1, <1>2, <3>1, CutShortInv
    <2>2. CASE Todo.on = ConfigFile
      <3>1. /\ run' = [mode |-> run'.mode, todo |-> run'.todo, supplied |-> run'.supplied,
                       before |-> run'.before, after |-> run'.after, contained |-> run'.contained,
                       results |-> run'.results, left |-> run'.left, cause |-> run'.cause]
            /\ run'.todo = Tail(run.todo) /\ run'.mode = run.mode /\ run'.before = run.before
            /\ run'.after = run.after /\ run'.contained = run.contained
            /\ run'.results = run.results /\ run'.left = run.left
        BY <1>1, <1>5, <2>2 DEF IndInv, RunOK
      <3>2. DOMAIN run'.after \subseteq Parts /\ \A part, c : StillThere(part, c) => StillThere(part, c)'
        BY <3>1, <1>1, <1>3 DEF IndInv, RunOK, StillThere, Content
      <3> QED BY <1>1, <1>3, <1>4, <3>1, <3>2, ReadAgainInv
    <2> QED BY <2>1, <2>2
  <1>6. CASE run' = [run EXCEPT !.todo = Tail(@), !.after = With(@, Todo.on, Content(Todo.on))]
    <2>1. PICK on \in Parts : on = Todo.on
      BY <1>1, FirstStep, StepFacts DEF IndInv
    <2>2. PICK after : after = [p \in DOMAIN run.after \cup {on} |->
                                  IF p \in DOMAIN run.after THEN run.after[p] ELSE Content(on)]
      OBVIOUS
    <2>3. /\ run' = [mode |-> run'.mode, todo |-> run'.todo, supplied |-> run'.supplied,
                     before |-> run'.before, after |-> run'.after, contained |-> run'.contained,
                     results |-> run'.results, left |-> run'.left, cause |-> run'.cause]
          /\ run'.todo = Tail(run.todo) /\ run'.mode = run.mode /\ run'.before = run.before
          /\ run'.after = after /\ run'.contained = run.contained
          /\ run'.results = run.results /\ run'.left = run.left
      BY <1>1, <1>6, <2>1, <2>2 DEF IndInv, RunOK, With
    <2>4. DOMAIN after \subseteq Parts
      BY <1>1, <2>1, <2>2 DEF IndInv, RunOK
    <2>5. ASSUME NEW part, NEW c, StillThere(part, c) PROVE StillThere(part, c)'
      <3>1. Content(part)' = Content(part)
        BY <1>3 DEF Content
      <3>2. ASSUME part \in DOMAIN after PROVE after[part] = Content(part)
        BY <2>2, <2>5, <3>2 DEF StillThere
      <3> QED BY <2>3, <2>5, <3>1, <3>2 DEF StillThere
    <2> QED BY <1>1, <1>3, <1>4, <2>3, <2>4, <2>5, ReadAgainInv
  <1> QED BY <1>5, <1>6 DEF InspectAgain

-----------------------------------------------------------------------------
(* The Docker call.                                                          *)

\* The call gets on; no trial was made by this step.
LEMMA CallInv ==
    ASSUME IndInv, run # NoRun, UNCHANGED <<fileVars, run, trials, outVars, checks>>,
           BoxOK', CallTrue',
           \A t \in trials : BeingCounted(t) => BeingCounted(t)'
    PROVE  IndInv'
  <1>1. UNCHANGED <<disk, edits, touched, run, trials, files, page, checks>>
    BY DEF fileVars, outVars
  <1>2. FilesOK' /\ RunOK' /\ PlanTrue' /\ LeftTrue' /\ ReadTrue' /\ SeenTrue' /\ IssuedTrue' /\ RowsWereIssued'
    BY <1>1, Untouched
  <1>3. Idle'
    BY <1>1 DEF Idle
  <1>4. TrialsTrue'
    BY <1>1 DEF IndInv, TrialsTrue, Counted, Tried, Config
  <1> QED BY <1>2, <1>3, <1>4 DEF IndInv

LEMMA BoxFields ==
    ASSUME BoxOK
    PROVE  /\ box = [state |-> box.state, stage |-> box.stage, gives |-> box.gives, result |-> box.result]
           /\ box.gives \in Given /\ box.result \in Given
           /\ box.state \in {"none", "asked", "up", "exited"}
           /\ box.stage \in {"none", "run", "remove", "list", "done"}
           /\ box.state # "none" => box.stage # "none"
           /\ Hold \in Given /\ Nothing \in Given /\ Held # Hold
  BY DEF BoxOK, NoBox, Given, Held, Hold

LEMMA DockerInv ==
    ASSUME IndInv,
           CallDocker \/ ContainerStarts \/ ClientReturns \/ RemoveContainer \/ ListContainers
    PROVE  IndInv'
  <1>1. UNCHANGED <<fileVars, run, trials, outVars, checks>>
    BY DEF CallDocker, ContainerStarts, ClientReturns, RemoveContainer, ListContainers
  <1>2. BoxOK /\ CallTrue
    BY DEF IndInv
  <1>3. \A t : Todo' = Todo /\ Canary' = Canary /\ \A c, s, g : Tried(c, s, g)' = Tried(c, s, g)
    BY <1>1 DEF Todo, Canary, Tried
  <1>4. CASE CallDocker
    <2>1. run # NoRun /\ run.todo # << >> /\ Todo.do = "call" /\ box = NoBox
      BY <1>4 DEF CallDocker, Doing
    <2>2. \/ box' = [NoBox EXCEPT !.state = "asked", !.stage = "run"]
          \/ box' = [NoBox EXCEPT !.stage = "done", !.result = Hold]
      BY <1>4 DEF CallDocker
    <2>3. box'.stage \in {"run", "done"} /\ BoxOK'
      BY <2>2 DEF BoxOK, NoBox, Given
    <2>4. CallTrue'
      BY <1>1, <1>3, <2>1, <2>2 DEF CallTrue, NoBox
    <2>5. \A t \in trials : ~BeingCounted(t)
      BY <2>1 DEF BeingCounted, NoBox
    <2> QED BY <1>1, <2>1, <2>3, <2>4, <2>5, CallInv
  <1>5. ASSUME ContainerStarts \/ ClientReturns \/ RemoveContainer \/ ListContainers
        PROVE  box.stage # "none" /\ run # NoRun /\ run.todo # << >> /\ Todo.do = "call"
    <2>1. box.stage # "none"
      BY <1>2, <1>5, BoxFields DEF ContainerStarts, ClientReturns, RemoveContainer, ListContainers
    <2> QED BY <1>2, <2>1 DEF CallTrue
  <1>6. CASE ContainerStarts
    <2>1. box.state = "asked" /\ box' = [box EXCEPT !.state = "up"]
      BY <1>6 DEF ContainerStarts
    <2>2. box'.state = "up" /\ box'.stage = box.stage /\ box'.gives = box.gives /\ box'.result = box.result
      BY <1>2, <2>1, BoxFields
    <2>3. BoxOK'
      BY <1>2, <1>5, <1>6, <2>1, <2>2, BoxFields DEF BoxOK
    <2>4. box.stage \in {"remove", "list", "done"} => box.result = Hold
      BY <1>2, <1>5, <1>6, <2>1 DEF CallTrue
    <2>5. CallTrue'
      BY <1>1, <1>3, <1>5, <1>6, <2>2, <2>4 DEF CallTrue
    <2>6. \A t \in trials : BeingCounted(t) => BeingCounted(t)'
      BY <1>3, <2>1, <2>2 DEF BeingCounted
    <2> QED BY <1>1, <1>5, <1>6, <2>3, <2>5, <2>6, CallInv
  <1>7. CASE ClientReturns
    <2>1. PICK state, result :
            /\ box.stage = "run"
            /\ box' = [box EXCEPT !.result = result, !.state = state, !.stage = "remove"]
            /\ \/ box.state = "exited" /\ result = box.gives /\ state = box.state
               \/ box.state # "exited" /\ result = Hold /\ state \in {box.state, "none"}
      <3>1. CASE box.state = "exited" /\ Learns(box.gives)
        <4>1. box' = [box EXCEPT !.result = box.gives, !.state = box.state, !.stage = "remove"]
          BY <1>2, <3>1, BoxFields DEF Learns
        <4> QED BY <4>1, <3>1, <1>7 DEF ClientReturns
      <3>2. CASE box.state # "exited" /\ Learns(Hold)
        <4>1. box' = [box EXCEPT !.result = Hold, !.state = box.state, !.stage = "remove"]
          BY <1>2, <3>2, BoxFields DEF Learns
        <4> QED BY <4>1, <3>2, <1>7 DEF ClientReturns
      <3>3. CASE box.state = "asked" /\ box' = [box EXCEPT !.result = Hold, !.state = "none", !.stage = "remove"]
        BY <3>3, <1>7 DEF ClientReturns
      <3> QED BY <1>7, <3>1, <3>2, <3>3 DEF ClientReturns
    <2>2. box'.state = state /\ box'.stage = "remove" /\ box'.gives = box.gives /\ box'.result = result
      BY <1>2, <2>1, BoxFields
    <2>3. BoxOK'
      <3>1. state \in {"none", "asked", "up", "exited"} /\ result \in Given
        BY <1>2, <2>1, BoxFields
      <3> QED BY <1>2, <2>1, <2>2, <3>1, BoxFields DEF BoxOK
    <2>4. CallTrue'
      BY <1>1, <1>2, <1>3, <1>5, <1>7, <2>1, <2>2 DEF CallTrue
    <2>5. \A t \in trials : BeingCounted(t) => BeingCounted(t)'
      BY <1>3, <2>1, <2>2 DEF BeingCounted
    <2> QED BY <1>1, <1>5, <1>7, <2>3, <2>4, <2>5, CallInv
  <1>8. CASE RemoveContainer
    <2>1. PICK state, stage, result :
            /\ box.stage = "remove"
            /\ box' = [box EXCEPT !.stage = stage, !.state = state, !.result = result]
            /\ \/ /\ stage = "list" /\ result = box.result
                  /\ state = IF box.state \in {"up", "exited"} THEN "none" ELSE box.state
               \/ stage = "done" /\ result = Hold /\ state \in {"none", box.state}
      <3>1. PICK gone : gone = IF Exists THEN "none" ELSE box.state
        OBVIOUS
      <3>2. CASE box' = [box EXCEPT !.stage = "list", !.state = gone]
        <4>1. box' = [box EXCEPT !.stage = "list", !.state = gone, !.result = box.result]
          BY <1>2, <3>2, BoxFields
        <4> QED BY <4>1, <3>1, <1>8 DEF RemoveContainer, Exists
      <3>3. CASE \E state \in {gone, box.state} : box' = [box EXCEPT !.stage = "done", !.state = state, !.result = Hold]
        BY <3>3, <3>1, <1>8 DEF RemoveContainer, Exists
      <3> QED BY <1>8, <3>1, <3>2, <3>3 DEF RemoveContainer
    <2>2. box'.state = state /\ box'.stage = stage /\ box'.gives = box.gives /\ box'.result = result
      BY <1>2, <2>1, BoxFields
    <2>3. BoxOK'
      <3>1. state \in {"none", "asked", "up", "exited"} /\ result \in Given
        BY <1>2, <2>1, BoxFields
      <3> QED BY <1>2, <2>1, <2>2, <3>1, BoxFields DEF BoxOK
    <2>4. CallTrue'
      BY <1>1, <1>2, <1>3, <1>5, <1>8, <2>1, <2>2 DEF CallTrue
    <2>5. \A t \in trials : BeingCounted(t) => BeingCounted(t)'
      BY <1>3, <2>1, <2>2 DEF BeingCounted
    <2> QED BY <1>1, <1>5, <1>8, <2>3, <2>4, <2>5, CallInv
  <1>9. CASE ListContainers
    <2>1. PICK result :
            /\ box.stage = "list"
            /\ box' = [box EXCEPT !.stage = "done", !.result = result]
            /\ result = Hold \/ result = box.result
      <3>1. CASE box' = [box EXCEPT !.stage = "done"]
        <4>1. box' = [box EXCEPT !.stage = "done", !.result = box.result]
          BY <1>2, <3>1, BoxFields
        <4> QED BY <4>1, <1>9 DEF ListContainers
      <3>2. CASE box' = [box EXCEPT !.stage = "done", !.result = Hold]
        BY <3>2, <1>9 DEF ListContainers
      <3> QED BY <1>9, <3>1, <3>2 DEF ListContainers
    <2>2. box'.state = box.state /\ box'.stage = "done" /\ box'.gives = box.gives /\ box'.result = result
      BY <1>2, <2>1, BoxFields
    <2>3. BoxOK'
      BY <1>2, <2>1, <2>2, BoxFields DEF BoxOK
    <2>4. CallTrue'
      BY <1>1, <1>2, <1>3, <1>5, <1>9, <2>1, <2>2 DEF CallTrue
    <2>5. \A t \in trials : BeingCounted(t) => BeingCounted(t)'
      BY <1>3, <2>1, <2>2 DEF BeingCounted
    <2> QED BY <1>1, <1>5, <1>9, <2>3, <2>4, <2>5, CallInv
  <1> QED BY <1>4, <1>6, <1>7, <1>8, <1>9

\* A container ends: its trial is on the files as they are and is not counted yet.
LEMMA ContainerEndsInv ==
    ASSUME IndInv, ContainerEnds PROVE IndInv'
  <1>1. box.state = "up" /\ box.stage = "run" /\ UNCHANGED <<fileVars, run, outVars, checks>>
    BY DEF ContainerEnds
  <1>2. UNCHANGED <<disk, edits, touched, run, files, page, checks>>
    BY <1>1 DEF fileVars, outVars
  <1>3. BoxOK /\ CallTrue /\ PlanTrue /\ TrialsTrue /\ RunOK
    BY DEF IndInv
  <1>4. run # NoRun /\ run.todo # << >> /\ Todo.do = "call"
    BY <1>1, <1>3 DEF CallTrue
  <1>5. PICK gives \in Gives(Canary) :
          /\ box' = [box EXCEPT !.state = "exited", !.gives = gives]
          /\ trials' = IF Canary = "probe" THEN trials
                       ELSE trials \cup {[canary |-> Canary, side |-> Todo.on[2], tree |-> disk[Todo.on[2]],
                                          harness |-> disk.harness, gives |-> gives]}
    BY DEF ContainerEnds, Canary
  <1>6. /\ Canary = "probe" => gives \in {Held, Hold}
        /\ Canary # "probe" => gives = Hold \/ gives \in Outcomes
    BY DEF Gives
  <1>7. gives \in Given
    BY <1>6 DEF Given
  <1>8. box'.state = "exited" /\ box'.stage = "run" /\ box'.gives = gives /\ box'.result = box.result
    BY <1>1, <1>3, <1>5, BoxFields
  <1>9. BoxOK'
    BY <1>3, <1>5, <1>7, <1>8, BoxFields DEF BoxOK
  <1>10. FilesOK' /\ RunOK' /\ LeftTrue' /\ ReadTrue' /\ IssuedTrue' /\ RowsWereIssued'
    BY <1>2, Untouched
  <1>11. Todo' = Todo /\ Canary' = Canary /\ Config' = Config
    BY <1>2 DEF Todo, Canary, Config
  <1>12. Idle'
    BY <1>2, <1>4 DEF Idle
  <1>13. CASE Canary = "probe"
    <2>1. trials' = trials
      BY <1>5, <1>13
    <2>2. CallTrue'
      BY <1>2, <1>4, <1>8, <1>11, <1>13 DEF CallTrue
    <2>3. \A t \in trials : ~BeingCounted(t)
      BY <1>1 DEF BeingCounted
    <2> QED BY <1>1, <1>4, <1>9, <2>1, <2>2, <2>3, CallInv
  <1>14. CASE Canary # "probe"
    <2>1. /\ ~ProbeAhead /\ Canary \in Range(Config.canaries) /\ Todo.on[2] \in Sides
          /\ Todo.on = <<Canary, Todo.on[2]>> /\ run.mode = "check" /\ run.contained /\ DOMAIN run.after = {}
      BY <1>3, <1>4, <1>14, HeadCalls
    <2>2. PICK t : t = [canary |-> Canary, side |-> Todo.on[2], tree |-> disk[Todo.on[2]],
                        harness |-> disk.harness, gives |-> gives]
      OBVIOUS
    <2>3. /\ trials' = trials \cup {t} /\ t.canary = Canary /\ t.side = Todo.on[2] /\ t.tree = disk[t.side]
          /\ t.harness = disk.harness /\ t.gives = gives
      BY <1>5, <1>14, <2>2
    <2>4. PlanTrue'
      <3>1. ~ProbeAhead' /\ Finishing'
        BY <1>2, <1>3, <1>4, <2>1 DEF PlanTrue, Finishing, ProbeAhead, Planned, Trying, Config
      <3> QED BY <1>2, <1>3, <1>4, <2>1, <3>1 DEF PlanTrue, Preparing
    <2>5. CallTrue'
      <3>1. Tried(Canary, Todo.on[2], gives)'
        BY <2>3, <1>11 DEF Tried
      <3> QED BY <1>2, <1>4, <1>8, <1>11, <3>1 DEF CallTrue
    <2>6. TrialsTrue'
      <3>1. ASSUME NEW u \in trials
            PROVE  /\ u.canary \in Range(Config.canaries) /\ u.side \in Sides
                   /\ u.gives = Hold \/ u.gives \in Outcomes
                   /\ Counted(u)
        BY <1>1, <1>3, <1>4 DEF TrialsTrue, BeingCounted
      <3>2. BeingCounted(t)'
        BY <2>1, <2>3, <1>8, <1>11 DEF BeingCounted
      <3>3. /\ t.canary \in Range(Config.canaries) /\ t.side \in Sides
            /\ t.gives = Hold \/ t.gives \in Outcomes
        BY <2>1, <2>3, <1>6, <1>14
      <3>4. \A u : Counted(u)' = Counted(u)
        BY <1>2 DEF Counted
      <3>5. \A c, s, g : Tried(c, s, g) => Tried(c, s, g)'
        BY <2>3 DEF Tried
      <3>6. \A r \in run.results :
              /\ r.canary \in Range(Config.canaries) /\ r.side \in Sides
              /\ r.gives = Hold \/ Tried(r.canary, r.side, r.gives)
        BY <1>3, <1>4 DEF TrialsTrue
      <3> QED BY <1>2, <1>11, <2>3, <3>1, <3>2, <3>3, <3>4, <3>5, <3>6 DEF TrialsTrue
    <2>7. SeenTrue'
      <3>1. /\ t.tree = Content(<<t.side, "tree">>) /\ t.harness = Content(Harness)
        BY <2>3 DEF Content, Harness
      <3>2. StillThere(<<t.side, "tree">>, t.tree) /\ StillThere(Harness, t.harness)
        BY <3>1, <2>1 DEF StillThere
      <3>3. \A part, c : StillThere(part, c)' = StillThere(part, c)
        BY <1>2 DEF StillThere, Content
      <3> QED BY <1>2, <1>4, <2>3, <3>2, <3>3 DEF IndInv, SeenTrue
    <2> QED BY <1>9, <1>10, <1>12, <2>4, <2>5, <2>6, <2>7 DEF IndInv
  <1> QED BY <1>13, <1>14

\* A probe that left a container behind has not found the containment.
LEMMA ProbeLearntInv ==
    ASSUME IndInv, run # NoRun, box.stage = "done", box' = NoBox, NEW held \in BOOLEAN, held = (box.result = Held),
           UNCHANGED <<disk, edits, touched, trials, files, page, checks>>,
           run' = [mode |-> run'.mode, todo |-> run'.todo, supplied |-> run'.supplied,
                   before |-> run'.before, after |-> run'.after, contained |-> run'.contained,
                   results |-> run'.results, left |-> run'.left, cause |-> run'.cause],
           run'.mode = run.mode, run'.before = run.before, run'.after = run.after,
           run'.contained = held, run'.results = run.results,
           run'.left = (run.left \/ box.state # "none"), run'.todo \in Seq(StepSet),
           run' # NoRun, Config' = Config, ~run.left, run.results = {}, trials = {}, DOMAIN run.after = {},
           PlanTrue'
    PROVE  IndInv'
  <1>1. RunOK'
    BY DEF IndInv, RunOK, BoxOK
  <1>2. BoxOK' /\ box'.stage = "none"
    BY DEF BoxOK, NoBox, Given
  <1>3. LeftTrue'
    <2>1. box.result = Held => box.state = "none"
      BY BoxFields DEF IndInv, CallTrue
    <2> QED BY <2>1 DEF LeftTrue
  <1>4. CallTrue' /\ Idle' /\ TrialsTrue'
    BY <1>2 DEF CallTrue, Idle, TrialsTrue
  <1>5. ReadTrue' /\ SeenTrue'
    BY DEF ReadTrue, SeenTrue, StillThere, Content, IndInv
  <1>6. FilesOK' /\ IssuedTrue' /\ RowsWereIssued'
    BY Untouched
  <1> QED BY <1>1, <1>2, <1>3, <1>4, <1>5, <1>6 DEF IndInv

\* The call is over: what the probe found decides what follows ...
LEMMA ProbeEndsInv ==
    ASSUME IndInv, CallEnds, Canary = "probe" PROVE IndInv'
  <1>1. /\ box.stage = "done" /\ box' = NoBox
        /\ run' = [Learnt(Canary, Todo.on[2]) EXCEPT !.left = @ \/ box.state # "none"]
        /\ UNCHANGED <<disk, edits, touched, trials, files, page, checks>>
    BY DEF CallEnds, Canary, fileVars, outVars
  <1>2. BoxOK /\ CallTrue /\ PlanTrue /\ TrialsTrue /\ RunOK
    BY DEF IndInv
  <1>3. run # NoRun /\ run.todo # << >> /\ Todo.do = "call" /\ box.stage # "none"
    BY <1>1, <1>2 DEF CallTrue
  <1>4. ProbeAhead /\ Len(run.todo) = 1
    BY <1>2, <1>3, HeadCalls
  <1>5. PICK held \in BOOLEAN : held = (box.result = Held)
    OBVIOUS
  <1>6. PICK todo : todo = IF run.mode = "doctor" THEN << >>
                           ELSE (IF held THEN Trials(Config) ELSE << >>) \o After
    OBVIOUS
  <1>7. /\ run' = [mode |-> run'.mode, todo |-> run'.todo, supplied |-> run'.supplied,
                   before |-> run'.before, after |-> run'.after, contained |-> run'.contained,
                   results |-> run'.results, left |-> run'.left, cause |-> run'.cause]
        /\ run'.todo = todo /\ run'.mode = run.mode /\ run'.before = run.before /\ run'.after = run.after
        /\ run'.contained = held /\ run'.results = run.results
        /\ run'.left = (run.left \/ box.state # "none")
    BY <1>1, <1>2, <1>3, <1>5, <1>6 DEF Learnt, RunOK
  <1>8. run' # NoRun /\ Config' = Config
    BY <1>7, <1>2, <1>3 DEF RunOK, NoRun, Config
  <1>9. /\ ~run.left /\ run.results = {} /\ trials = {} /\ DOMAIN run.after = {}
    BY <1>2, <1>3, <1>4 DEF PlanTrue, Preparing
  <1>10. run.mode = "check" => Parts \subseteq DOMAIN run.before /\ Config \in Configs
    <2>1. run.todo[1].do = "call"
      BY <1>2, <1>3, FirstStep
    <2>2. \A part : ~ \E i \in 1..1 : Planned(i, Step("inspect", part))
      BY <2>1, StepFacts DEF Planned
    <2>3. run.mode = "check" => Parts \subseteq DOMAIN run.before
      BY <1>2, <1>3, <1>4, <2>2 DEF PlanTrue, Preparing
    <2> QED BY <2>3, <1>2, <1>3, PartFacts DEF RunOK
  <1>11. CASE run.mode = "doctor"
    <2>1. todo = << >>
      BY <1>6, <1>11
    <2>2. Len(run'.todo) = 0 /\ run'.todo \in Seq(StepSet) /\ ~ProbeAhead'
      BY <2>1, <1>7 DEF ProbeAhead
    <2>3. Finishing'
      BY <2>1, <2>2, <1>7 DEF Finishing
    <2>4. PlanTrue'
      BY <2>2, <2>3, <1>1, <1>7, <1>9, <1>11 DEF PlanTrue, Preparing
    <2> QED BY <2>2, <2>4, ProbeLearntInv, <1>1, <1>3, <1>5, <1>7, <1>8, <1>9
  <1>12. CASE run.mode = "check"
    <2>1. PICK t \in Seq(StepSet) : t = (IF held THEN Trials(Config) ELSE << >>)
      <3>1. << >> \in Seq(StepSet)
        OBVIOUS
      <3> QED BY <3>1, <1>10, <1>12, TrialsFacts
    <2>2. \A i \in 1..Len(t) : /\ t[i].do = "call" /\ t[i].on \in Range(Config.canaries) \X Sides
                               /\ t[i].on[1] # "probe" /\ held
      <3>1. CASE held
        BY <3>1, <2>1, <1>10, <1>12, TrialsFacts
      <3>2. CASE ~held
        BY <3>2, <2>1
      <3> QED BY <3>1, <3>2
    <2>3. PICK a \in Seq(StepSet) : a = After /\ \A i \in 1..Len(a) : a[i].do = "again"
      BY AfterFacts
    <2>4. todo = t \o a
      BY <1>6, <1>12, <2>1, <2>3
    <2>5. PICK m \in Nat : m = Len(t)
      OBVIOUS
    <2>6. PICK k \in Nat : k = Len(a)
      OBVIOUS
    <2>7. /\ todo \in Seq(StepSet) /\ Len(todo) = m + k
          /\ \A i \in 1..(m + k) : todo[i] = IF i <= m THEN t[i] ELSE a[i - m]
      BY <2>4, <2>5, <2>6, ConcatFacts
    <2>8. ASSUME NEW i \in 1..(m + k)
          PROVE  /\ i <= m => /\ todo[i].do = "call" /\ todo[i].on \in Range(Config.canaries) \X Sides
                              /\ todo[i].on[1] # "probe" /\ held
                 /\ i > m => todo[i].do = "again"
      <3>1. i <= m => i \in 1..m
        OBVIOUS
      <3>2. i > m => i - m \in 1..k
        OBVIOUS
      <3>3. \A j \in 1..k : a[j].do = "again"
        BY <2>3, <2>6
      <3> QED BY <3>1, <3>2, <3>3, <2>2, <2>5, <2>7
    <2>9. ~ProbeAhead'
      <3>1. SUFFICES ASSUME ProbeAhead' PROVE FALSE
        OBVIOUS
      <3>2. m + k > 0 /\ todo[m + k] = Probe
        BY <3>1, <1>7, <2>7 DEF ProbeAhead, Planned
      <3>3. m + k \in 1..(m + k)
        BY <3>2
      <3>4. Probe.do = "again" \/ Probe.on[1] # "probe"
        BY <3>2, <3>3, <2>8
      <3> QED BY <3>4, StepFacts
    <2>10. Finishing'
      <3>1. ASSUME NEW i \in 1..(m + k) PROVE todo[i].do = "again" \/ Trying(i)'
        <4>1. CASE i <= m
          BY <4>1, <2>8, <1>7, <1>8, <1>9 DEF Trying
        <4>2. CASE i > m
          BY <4>2, <2>8
        <4> QED BY <4>1, <4>2
      <3>2. ASSUME NEW i \in 1..(m + k), NEW j \in 1..(m + k), i < j, todo[i].do = "again"
            PROVE  todo[j].do = "again"
        <4>1. i > m
          BY <3>2, <2>8
        <4>2. j > m
          BY <3>2, <4>1
        <4> QED BY <4>2, <2>8
      <3> QED BY <3>1, <3>2, <1>7, <1>12, <2>7 DEF Finishing
    <2>11. PlanTrue'
      BY <2>9, <2>10, <1>1, <1>7, <1>9, <1>10, <1>12 DEF PlanTrue, Preparing
    <2> QED BY <2>7, <2>11, ProbeLearntInv, <1>1, <1>3, <1>5, <1>7, <1>8, <1>9
  <1> QED BY <1>11, <1>12, <1>2, <1>3 DEF RunOK

\* ... and what a canary gave is one of its results.
LEMMA TrialEndsInv ==
    ASSUME IndInv, CallEnds, Canary # "probe" PROVE IndInv'
  <1>1. /\ box.stage = "done" /\ box' = NoBox
        /\ run' = [Learnt(Canary, Todo.on[2]) EXCEPT !.left = @ \/ box.state # "none"]
        /\ UNCHANGED <<disk, edits, touched, trials, files, page, checks>>
    BY DEF CallEnds, Canary, fileVars, outVars
  <1>2. BoxOK /\ CallTrue /\ PlanTrue /\ TrialsTrue /\ RunOK /\ LeftTrue
    BY DEF IndInv
  <1>3. run # NoRun /\ run.todo # << >> /\ Todo.do = "call" /\ box.stage # "none"
    BY <1>1, <1>2 DEF CallTrue
  <1>4. /\ ~ProbeAhead /\ Canary \in Range(Config.canaries) /\ Todo.on[2] \in Sides
        /\ Todo.on = <<Canary, Todo.on[2]>> /\ run.mode = "check" /\ run.contained
    BY <1>2, <1>3, HeadCalls
  <1>5. PICK r : r = [canary |-> Canary, side |-> Todo.on[2], gives |-> box.result]
    OBVIOUS
  <1>6. r.canary = Canary /\ r.side = Todo.on[2] /\ r.gives = box.result
    BY <1>5
  <1>7. /\ run' = [mode |-> run'.mode, todo |-> run'.todo, supplied |-> run'.supplied,
                   before |-> run'.before, after |-> run'.after, contained |-> run'.contained,
                   results |-> run'.results, left |-> run'.left, cause |-> run'.cause]
        /\ run'.todo = Tail(run.todo) /\ run'.mode = run.mode /\ run'.before = run.before
        /\ run'.after = run.after /\ run'.contained = run.contained /\ run'.results = run.results \cup {r}
        /\ run'.left = (run.left \/ box.state # "none")
    BY <1>1, <1>2, <1>3, <1>5 DEF Learnt, RunOK
  <1>8. run' # NoRun /\ Config' = Config
    BY <1>7, <1>2, <1>3 DEF RunOK, NoRun, Config
  <1>9. PICK n \in Nat : n = Len(run'.todo)
    BY <1>2, <1>3, <1>7, FirstStep
  <1>10. /\ run'.todo \in Seq(StepSet) /\ Len(run.todo) = n + 1
         /\ \A i \in 1..n : i + 1 \in 1..(n + 1) /\ run'.todo[i] = run.todo[i + 1]
    BY <1>2, <1>3, <1>7, <1>9, FirstStep
  <1>11. RunOK'
    BY <1>1, <1>2, <1>3, <1>7, <1>8, <1>10 DEF RunOK
  <1>12. BoxOK' /\ box'.stage = "none"
    BY <1>1 DEF BoxOK, NoBox, Given
  <1>13. CallTrue' /\ Idle'
    BY <1>8, <1>12 DEF CallTrue, Idle
  <1>14. PlanTrue'
    <2>1. ~ProbeAhead'
      <3>1. SUFFICES ASSUME ProbeAhead' PROVE FALSE
        OBVIOUS
      <3>2. n > 0 /\ run'.todo[n] = Probe
        BY <3>1, <1>9 DEF ProbeAhead, Planned
      <3>3. n \in 1..n
        BY <3>2
      <3>4. run.todo[n + 1] = Probe /\ n + 1 \in DOMAIN run.todo
        BY <3>2, <3>3, <1>10, <1>2, <1>3 DEF RunOK
      <3> QED BY <3>4, <1>4, <1>10 DEF ProbeAhead, Planned
    <2>2. /\ \A i \in 1..(n + 1) : run.todo[i].do = "again" \/ Trying(i)
          /\ \A i, j \in 1..(n + 1) : i < j /\ run.todo[i].do = "again" => run.todo[j].do = "again"
      BY <1>2, <1>3, <1>4, <1>10 DEF PlanTrue, Finishing
    <2>3. ASSUME NEW i \in 1..n PROVE run'.todo[i].do = "again" \/ Trying(i)'
      <3>1. i + 1 \in 1..(n + 1) /\ run'.todo[i] = run.todo[i + 1]
        BY <1>10
      <3>2. run.todo[i + 1].do = "again" \/ Trying(i + 1)
        BY <3>1, <2>2
      <3> QED BY <3>1, <3>2, <1>7, <1>8 DEF Trying
    <2>4. ASSUME NEW i \in 1..n, NEW j \in 1..n, i < j, run'.todo[i].do = "again"
          PROVE  run'.todo[j].do = "again"
      <3>1. /\ i + 1 \in 1..(n + 1) /\ run'.todo[i] = run.todo[i + 1]
            /\ j + 1 \in 1..(n + 1) /\ run'.todo[j] = run.todo[j + 1]
            /\ i + 1 < j + 1
        BY <1>10, <2>4
      <3> QED BY <3>1, <2>2, <2>4
    <2>5. Finishing'
      BY <2>3, <2>4, <1>4, <1>7, <1>9 DEF Finishing
    <2> QED BY <2>1, <2>5, <1>2, <1>3, <1>4, <1>7 DEF PlanTrue, Preparing
  <1>15. LeftTrue'
    <2>1. box.state # "none" => r.gives = Hold
      BY <1>1, <1>2, <1>3, <1>6 DEF CallTrue
    <2> QED BY <2>1, <1>2, <1>3, <1>4, <1>7 DEF LeftTrue
  <1>16. TrialsTrue'
    <2>1. \A c, s, g : Tried(c, s, g)' = Tried(c, s, g)
      BY <1>1 DEF Tried
    <2>2. ASSUME NEW t \in trials PROVE Counted(t)'
      <3>1. CASE Counted(t)
        BY <3>1, <1>7 DEF Counted
      <3>2. CASE BeingCounted(t)
        <4>1. Todo.on = <<t.canary, t.side>> /\ box.result \in {t.gives, Hold}
          BY <3>2, <1>1 DEF BeingCounted
        <4>2. r.canary = t.canary /\ r.side = t.side /\ r.gives \in {t.gives, Hold}
          BY <4>1, <1>6 DEF Canary
        <4> QED BY <4>2, <1>7 DEF Counted
      <3> QED BY <3>1, <3>2, <1>2, <1>3 DEF TrialsTrue
    <2>3. r.gives = Hold \/ Tried(r.canary, r.side, r.gives)
      BY <1>1, <1>2, <1>3, <1>4, <1>6 DEF CallTrue
    <2>4. r.canary \in Range(Config.canaries) /\ r.side \in Sides
      BY <1>4, <1>6
    <2> QED BY <2>1, <2>2, <2>3, <2>4, <1>1, <1>2, <1>3, <1>7, <1>8 DEF TrialsTrue
  <1>17. ReadTrue' /\ SeenTrue'
    BY <1>1, <1>3, <1>7 DEF ReadTrue, SeenTrue, StillThere, Content, IndInv
  <1>18. FilesOK' /\ IssuedTrue' /\ RowsWereIssued'
    BY <1>1, Untouched
  <1> QED BY <1>11, <1>12, <1>13, <1>14, <1>15, <1>16, <1>17, <1>18 DEF IndInv

-----------------------------------------------------------------------------
(* Receipts, entries and the index.                                          *)

LEMMA VerdictSet == Verdict \in {"HOLD", "CHANGED", "SAFE"}
  BY DEF Verdict, Decided

LEMMA ReceiptsInv ==
    ASSUME IndInv, WriteReceipt \/ PublishEntry \/ DoctorAnswers \/ Interrupt \/ PublishIndex
    PROVE  IndInv'
  <1>1. FilesOK /\ IssuedTrue /\ RowsWereIssued /\ RunOK
    BY DEF IndInv
  <1>2. /\ files = [private |-> files.private, public |-> files.public, all |-> files.all]
        /\ files.private \in ReceiptSet /\ files.public \in EntrySet /\ files.all \subseteq ReceiptSet
        /\ checks \in Nat
    BY <1>1 DEF FilesOK
  <1>3. CASE WriteReceipt
    <2>1. PICK receipt : receipt = [id |-> checks, verdict |-> Verdict]
      OBVIOUS
    <2>2. receipt \in ReceiptSet
      BY <2>1, <1>2, VerdictSet DEF ReceiptSet
    <2>3. /\ files' = [files EXCEPT !.private = receipt, !.all = @ \cup {receipt}]
          /\ UNCHANGED <<disk, edits, touched, run, box, trials, page, checks>>
      BY <1>3, <2>1 DEF WriteReceipt, fileVars
    <2>4. /\ files' = [private |-> files'.private, public |-> files'.public, all |-> files'.all]
          /\ files'.private = receipt /\ files'.public = files.public /\ files'.all = files.all \cup {receipt}
      BY <2>3, <1>2
    <2>5. FilesOK'
      BY <2>2, <2>3, <2>4, <1>1, <1>2 DEF FilesOK
    <2>6. IssuedTrue' /\ RowsWereIssued'
      BY <2>3, <2>4, <1>1 DEF IssuedTrue, RowsWereIssued, EntryVerified
    <2> QED BY <2>3, <2>5, <2>6, Untouched DEF IndInv
  <1>4. CASE PublishEntry
    <2>1. /\ run # NoRun /\ files.private.id = checks /\ Over /\ UNCHANGED <<disk, edits, page, checks>>
      BY <1>4 DEF PublishEntry, Ends, NoRun
    <2>2. touched' \in [Items -> Nat]
      BY <2>1 DEF Over
    <2>3. CASE files' = files
      <3>1. FilesOK'
        BY <2>1, <2>2, <2>3, <1>1 DEF FilesOK
      <3> QED BY <2>1, <2>3, <3>1, Untouched, OverInv
    <2>4. CASE files' = [files EXCEPT !.public = Entry(files.private, "owner", TRUE)]
      <3>1. PICK entry : entry = Entry(files.private, "owner", TRUE)
        OBVIOUS
      <3>2. entry \in EntrySet /\ entry.id = files.private.id /\ entry.verdict = files.private.verdict
        BY <3>1, <1>2 DEF Entry, EntrySet, ReceiptSet
      <3>3. /\ files' = [private |-> files'.private, public |-> files'.public, all |-> files'.all]
            /\ files'.private = files.private /\ files'.public = entry /\ files'.all = files.all
        BY <2>4, <3>1, <1>2
      <3>4. FilesOK'
        BY <2>1, <2>2, <3>2, <3>3, <1>1, <1>2 DEF FilesOK
      <3>5. files.private \in files.all
        <4>1. checks > 0
          BY <2>1, <1>1 DEF RunOK
        <4> QED BY <4>1, <2>1, <1>1, <1>2 DEF IssuedTrue
      <3>6. [id |-> entry.id, verdict |-> entry.verdict] = files.private
        BY <3>2, <1>2 DEF ReceiptSet
      <3>7. IssuedTrue' /\ RowsWereIssued'
        BY <2>1, <3>3, <3>5, <3>6, <1>1 DEF IssuedTrue, RowsWereIssued
      <3> QED BY <2>1, <3>4, <3>7, OverInv
    <2> QED BY <1>4, <2>3, <2>4 DEF PublishEntry
  <1>5. CASE DoctorAnswers \/ Interrupt
    <2>1. Over /\ UNCHANGED <<disk, edits, files, page, checks>>
      BY <1>5 DEF DoctorAnswers, Interrupt, outVars
    <2>2. touched' \in [Items -> Nat]
      BY <2>1 DEF Over
    <2>3. FilesOK'
      BY <2>1, <2>2, <1>1 DEF FilesOK
    <2> QED BY <2>1, <2>3, Untouched, OverInv
  <1>6. CASE PublishIndex
    <2>1. PICK entries \in SUBSET ({files.public} \cup Forged) :
            page' = entries /\ \A entry \in entries : EntryVerified(entry)
      BY <1>6 DEF PublishIndex
    <2>2. UNCHANGED <<disk, edits, touched, run, box, trials, files, checks>>
      BY <1>6 DEF PublishIndex, fileVars
    <2>3. ASSUME NEW entry \in Forged PROVE ~EntryVerified(entry)
      <3>1. CASE entry = Entry([id |-> checks, verdict |-> "SAFE"], "stranger", TRUE)
        BY <3>1 DEF Entry, EntryVerified
      <3>2. CASE entry = [files.public EXCEPT !.verdict = "SAFE", !.intact = FALSE]
        BY <3>2, <1>2 DEF EntrySet, EntryVerified
      <3> QED BY <2>3, <3>1, <3>2 DEF Forged
    <2>4. \A entry \in page' : entry = files.public /\ EntryVerified(entry)
      BY <2>1, <2>3
    <2>5. RowsWereIssued'
      BY <2>2, <2>4, <1>1 DEF RowsWereIssued, IssuedTrue, EntryVerified
    <2> QED BY <2>2, <2>5, Untouched DEF IndInv
  <1> QED BY <1>3, <1>4, <1>5, <1>6

-----------------------------------------------------------------------------

LEMMA NextInv == IndInv /\ [Next]_vars => IndInv'
  <1> SUFFICES ASSUME IndInv, [Next]_vars PROVE IndInv'
    OBVIOUS
  <1>1. CASE FileChanges
    BY <1>1, FileChangesInv
  <1>2. CASE RunCheck
    BY <1>2, BeginInv DEF RunCheck
  <1>3. CASE RunDoctor
    BY <1>3, BeginInv DEF RunDoctor
  <1>4. CASE Inspect \/ TrustRoots \/ BindDocker
    BY <1>4, PreparationInv
  <1>5. CASE InspectAgain
    BY <1>5, InspectAgainInv
  <1>6. CASE WriteReceipt \/ PublishEntry \/ DoctorAnswers \/ Interrupt \/ PublishIndex
    BY <1>6, ReceiptsInv
  <1>7. CASE CallDocker \/ ContainerStarts \/ ClientReturns \/ RemoveContainer \/ ListContainers
    BY <1>7, DockerInv
  <1>8. CASE ContainerEnds
    BY <1>8, ContainerEndsInv
  <1>9. CASE CallEnds
    BY <1>9, ProbeEndsInv, TrialEndsInv
  <1>10. CASE UNCHANGED vars
    BY <1>10, Untouched DEF vars, IndInv
  <1> QED BY <1>1, <1>2, <1>3, <1>4, <1>5, <1>6, <1>7, <1>8, <1>9, <1>10 DEF Next, Evaluation, DockerCall

\* What holds between any two steps of an evaluation, whatever is changed, fails
\* or is killed meanwhile.
THEOREM EvaluationInvariant == Spec => []IndInv
  BY InitInv, NextInv, PTL DEF Spec

-----------------------------------------------------------------------------
(* What a verdict says.                                                      *)

LEMMA JudgedFacts ==
    ASSUME IndInv, Judged
    PROVE  /\ run # NoRun /\ run.mode = "check" /\ box.stage = "none"
           /\ run.contained /\ run.after = run.before /\ Parts \subseteq DOMAIN run.before
           /\ Config \in Configs
           /\ Version("current") # Version("candidate")
           /\ \A c \in Range(Config.canaries) : Comparable(c)
           /\ Verdict = "SAFE" => /\ Surface("current") = Surface("candidate")
                                  /\ \A c \in Range(Config.canaries) : ~Changed(c)
  <1>1. run.mode = "check" /\ box.stage = "none" /\ Verdict # "HOLD"
    BY DEF Judged, Ends, NoBox
  <1>2. run # NoRun
    BY <1>1 DEF NoRun
  <1>3. run.cause = "none" /\ run.after = run.before /\ Verdict = Decided /\ Decided # "HOLD"
    BY <1>1 DEF Verdict
  <1>4. /\ run.contained /\ Version("current") # Version("candidate")
        /\ \A c \in Range(Config.canaries) : Comparable(c)
        /\ Decided = "SAFE" => /\ Surface("current") = Surface("candidate")
                               /\ \A c \in Range(Config.canaries) : ~Changed(c)
    BY <1>3 DEF Decided
  <1>5. Parts \subseteq DOMAIN run.before
    BY <1>1, <1>2, <1>4 DEF IndInv, PlanTrue
  <1>6. Config \in Configs
    BY <1>2, <1>5, PartFacts DEF IndInv, RunOK
  <1> QED BY <1>1, <1>2, <1>3, <1>4, <1>5, <1>6

\* A comparable canary gave one and the same on each side, every time.
LEMMA ComparableFacts ==
    ASSUME NEW c, Comparable(c), NEW side \in Sides
    PROVE  /\ Aggregate(Results(c, side)) # Hold
           /\ Results(c, side) = {Aggregate(Results(c, side))}
  <1>1. Aggregate(Results(c, side)) # Hold
    BY DEF Comparable, Sides, Hold
  <1>2. PICK r \in Results(c, side) : r # Hold /\ Results(c, side) = {r}
    BY <1>1 DEF Aggregate
  <1>3. Aggregate(Results(c, side)) = CHOOSE s \in Results(c, side) : TRUE
    BY <1>2 DEF Aggregate
  <1>4. (CHOOSE s \in Results(c, side) : TRUE) \in Results(c, side)
    BY <1>2
  <1> QED BY <1>1, <1>2, <1>3, <1>4

\* Nothing that counts as a result is the absence of one.
LEMMA NoneHeld ==
    ASSUME IndInv, Judged, NEW r \in run.results
    PROVE  r.gives = Aggregate(Results(r.canary, r.side)) /\ r.gives # Hold
  <1>1. Comparable(r.canary) /\ r.side \in Sides
    BY JudgedFacts DEF IndInv, TrialsTrue
  <1>2. r.gives \in Results(r.canary, r.side)
    BY DEF Results
  <1> QED BY <1>1, <1>2, ComparableFacts

LEMMA RecordedJudged == IndInv => VerdictOfRecorded
  <1> SUFFICES ASSUME IndInv PROVE VerdictOfRecorded
    OBVIOUS
  <1>1. ASSUME Ready PROVE ~run.left
    <2>1. run # NoRun /\ run.mode = "doctor" /\ run.contained
      BY <1>1 DEF Ready, Ends, NoRun
    <2> QED BY <2>1 DEF IndInv, LeftTrue
  <1>2. ASSUME Judged PROVE ~run.left
    BY <1>2, JudgedFacts, NoneHeld DEF IndInv, LeftTrue
  <1>3. ASSUME Judged, NEW part \in Parts, NEW c, StillThere(part, c) PROVE c = run.before[part]
    BY <1>3, JudgedFacts DEF StillThere
  <1>4. ASSUME Judged, NEW t \in trials
        PROVE  /\ t.tree = run.before[<<t.side, "tree">>] \/ Restored(t.side)
               /\ t.harness = run.before[Harness] \/ Restored("harness")
    <2>1. /\ t.side \in Sides /\ t.side \in Items /\ "harness" \in Items
          /\ <<t.side, "tree">> \in Parts /\ Harness \in Parts
      BY <1>4, JudgedFacts, PartFacts DEF IndInv, TrialsTrue, Items
    <2>2. /\ touched[t.side] <= 1 => t.tree = run.before[<<t.side, "tree">>]
          /\ touched["harness"] <= 1 => t.harness = run.before[Harness]
      BY <2>1, <1>3, <1>4, JudgedFacts DEF IndInv, SeenTrue
    <2>3. touched[t.side] \in Nat /\ touched["harness"] \in Nat
      BY <2>1 DEF IndInv, FilesOK
    <2> QED BY <2>2, <2>3 DEF Restored
  <1>5. ASSUME Judged, NEW side \in Sides
        PROVE  Manifest(run.before[<<side, "tree">>]) = run.before[<<side, "manifest">>] \/ Restored(side)
    <2>1. side \in Items /\ <<side, "tree">> \in Parts /\ <<side, "manifest">> \in Parts
      BY PartFacts DEF Items
    <2>2. touched[side] <= 1 => Manifest(run.before[<<side, "tree">>]) = run.before[<<side, "manifest">>]
      BY <2>1, <1>3, <1>5, JudgedFacts DEF IndInv, SeenTrue
    <2>3. touched[side] \in Nat
      BY <2>1 DEF IndInv, FilesOK
    <2> QED BY <2>2, <2>3 DEF Restored
  <1> QED BY <1>1, <1>2, <1>4, <1>5 DEF VerdictOfRecorded

\* What all trials of a comparable canary gave.
LEMMA TrialsOf ==
    ASSUME IndInv, Judged, NEW c \in Range(Config.canaries), NEW side \in Sides,
           NEW o, o = Aggregate(Results(c, side))
    PROVE  /\ {t.gives : t \in {u \in trials : u.canary = c /\ u.side = side}} = {o}
           /\ o \in Outcomes
  <1>1. Results(c, side) = {o} /\ o # Hold
    BY JudgedFacts, ComparableFacts
  <1>2. PICK r \in run.results : r.canary = c /\ r.side = side /\ r.gives = o
    BY <1>1 DEF Results
  <1>3. PICK t \in trials : t.canary = c /\ t.side = side /\ t.gives = o
    BY <1>1, <1>2, JudgedFacts DEF IndInv, TrialsTrue, Tried
  <1>4. ASSUME NEW u \in trials, u.canary = c, u.side = side PROVE u.gives = o
    <2>1. PICK s \in run.results : s.canary = c /\ s.side = side /\ s.gives \in {u.gives, Hold}
      BY <1>4, JudgedFacts DEF IndInv, TrialsTrue, Counted, BeingCounted
    <2>2. s.gives \in Results(c, side)
      BY <2>1 DEF Results
    <2> QED BY <2>1, <2>2, <1>1
  <1>5. o \in Outcomes
    BY <1>1, <1>3, JudgedFacts DEF IndInv, TrialsTrue
  <1> QED BY <1>3, <1>4, <1>5

LEMMA UnanimousSafe == IndInv => SafeIsUnanimous
  <1> SUFFICES ASSUME IndInv, Judged, Verdict = "SAFE"
               PROVE  /\ run.contained
                      /\ Version("current") # Version("candidate") /\ Surface("current") = Surface("candidate")
                      /\ \A c \in Range(Config.canaries) : \E o \in Outcomes : o.state = "PASS" /\ \A side \in Sides :
                           {t.gives : t \in {u \in trials : u.canary = c /\ u.side = side}} = {o}
    BY DEF SafeIsUnanimous
  <1>1. ASSUME NEW c \in Range(Config.canaries)
        PROVE  \E o \in Outcomes :
                 /\ o.state = "PASS"
                 /\ \A side \in Sides : {t.gives : t \in {u \in trials : u.canary = c /\ u.side = side}} = {o}
    <2>1. PICK o : o = Aggregate(Results(c, "current"))
      OBVIOUS
    <2>2. o.state = "PASS" /\ o = Aggregate(Results(c, "candidate"))
      BY <2>1, JudgedFacts DEF Comparable, Changed
    <2>3. \A side \in Sides : o = Aggregate(Results(c, side))
      BY <2>1, <2>2 DEF Sides
    <2>4. \A side \in Sides : {t.gives : t \in {u \in trials : u.canary = c /\ u.side = side}} = {o}
      BY <2>3, TrialsOf
    <2>5. o \in Outcomes
      BY <2>3, TrialsOf DEF Sides
    <2> QED BY <2>2, <2>4, <2>5
  <1> QED BY <1>1, JudgedFacts

\* A verdict other than HOLD is about the files the receipt records, and no
\* container is left behind of an evaluation that has one, nor of a doctor who is
\* content (runUpgradeEvaluation, forceRemoveAndVerify, doctorUpgrade).
THEOREM VerdictsAreRecorded == Spec => []VerdictOfRecorded
  BY EvaluationInvariant, RecordedJudged, PTL

\* SAFE is said only of two versions on which every canary passed every time with
\* the same observation, in an evaluation whose containment held (decideUpgrade,
\* aggregateTrials, compareCanary).
THEOREM SafeIsEarned == Spec => []SafeIsUnanimous
  BY EvaluationInvariant, UnanimousSafe, PTL

\* What the index publishes was signed by the owner of the pinned key and is the
\* verdict of a receipt an evaluation ended with (createPublicCompatibilityEntry,
\* verifyPublicCompatibilityEntry, runIndex).
THEOREM RowsAreIssued == Spec => []RowsWereIssued
  BY EvaluationInvariant, PTL DEF IndInv

=============================================================================
