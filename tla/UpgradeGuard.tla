----------------------------- MODULE UpgradeGuard -----------------------------
(***************************************************************************)
(* Upgrade Guard: `vigil upgrade check` runs trusted canaries against the  *)
(* current and the candidate version of a component in containers without  *)
(* a network and says SAFE, CHANGED or HOLD; `init` lays the scaffold,     *)
(* `doctor` looks whether a check could succeed, and `index` publishes the *)
(* signed entries.  Meanwhile people edit the directories, and the Docker  *)
(* client may be killed before its daemon has done what it was asked.      *)
(***************************************************************************)
EXTENDS Naturals, Sequences, SequencesExt

CONSTANTS Trees,        \* contents of an artifact directory: version, surface, code
          Configs,      \* contents of the configuration: template?, canaries, trials
          Outcomes,     \* what a canary may report: PASS or FAIL and what it saw
          Starts,       \* what is on the disk at first
          MaxEdits,     \* bound: changes to files, `init` included
          MaxChecks,    \* bound: evaluations
          Narrow        \* bound: whether changes and mishaps come one at a time (below)

\* The configuration names its canaries; the probe is none of them.
ASSUME UpgradeAssumption ==
  /\ \A t \in Trees : {"version", "surface", "code"} \subseteq DOMAIN t
  /\ \A c \in Configs :
       /\ c.trials \in Nat /\ c.trials >= 2 /\ c.template \in BOOLEAN
       /\ c.canaries \in Seq(Range(c.canaries) \ {"probe"}) /\ c.canaries # << >>
  /\ \E c \in Configs : c.template
  /\ Starts \subseteq [config : [content : Configs, id : Nat], harness : {"own", "template"},
                      current : Trees, candidate : Trees]
  /\ MaxEdits \in Nat /\ MaxChecks \in Nat /\ Narrow \in BOOLEAN

VARIABLES disk,   \* the configuration, the harness and the two artifacts
          edits,  \* changes to files so far
          touched,\* changes to each of them during this evaluation
          setup,  \* what `init` has still to lay
          run,    \* the evaluation or the doctor's look in progress
          box,    \* the container of the Docker call in progress
          trials, \* what the trials of this evaluation saw and gave
          files,  \* the private receipt, the public entry and (for checking) all receipts there were
          page,   \* the published index
          checks  \* evaluations begun

vars == <<disk, edits, touched, setup, run, box, trials, files, page, checks>>
NoRun == [mode |-> "none"]
fileVars == <<disk, edits, touched, setup>>
outVars  == <<files, page>>

Sides == {"current", "candidate"}
Items == {"config", "harness"} \cup Sides
Hold  == [state |-> "HOLD", seen |-> "nothing"]
Held  == [state |-> "PASS", seen |-> "nothing"] \* the probe found every control in force

-----------------------------------------------------------------------------
(* Files.                                                                    *)

Manifest(tree) == [version |-> tree.version, surface |-> tree.surface]
ConfigFile == <<"config", "file">>
Harness    == <<"harness", "tree">>
Parts == {ConfigFile, Harness} \cup (Sides \X {"manifest", "tree"})
Content(part) == IF part[2] = "manifest" THEN Manifest(disk[part[1]]) ELSE disk[part[1]]

\* What was read so far, and a part more; what is read first counts.
With(seen, part, content) ==
  [p \in DOMAIN seen \cup {part} |-> IF p \in DOMAIN seen THEN seen[p] ELSE content]

\* inspectTarget reads the manifest and then the tree.
Artifact(side) == <<<<side, "manifest">>, <<side, "tree">>>>
Artifacts == Artifact("current") \o Artifact("candidate")

\* Narrow: an evaluation that already lacks a result, or has noticed a change,
\* meets no further mishap and no change.
Differs(part) == part \in DOMAIN run.after /\ run.after[part] # run.before[part]
Spoiled ==
  /\ Narrow /\ run.mode # "none"
  /\ \/ run.cause # "none" \/ \E part \in Parts : Differs(part)
     \/ \E r \in run.results : r.gives = Hold
     \/ run.mode = "check" /\ run.todo # << >> /\ Head(run.todo).do = "again" /\ ~run.contained

\* Narrow: a change is made just before the next reading of what is changed: by
\* the evaluation, or by a container, which sees the harness and one artifact.
\* (At another moment it has the same effect, and before the first reading, that
\* of another start.)
Noticeable(item) ==
  /\ ~Spoiled
  /\ run.mode # "none" /\ run.todo # << >>
  /\ LET next == Head(run.todo) IN
     \/ next.do = "again" /\ next.on[1] = item
     \/ next.do = "inspect" /\ next.on \in {ConfigFile, <<item, "tree">>} \ {Harness} /\ next.on[1] = item
     \/ box.state = "up" /\ box.stage = "run" /\ item \in {"harness", next.on[2]}

\* The configuration is its content and an identity that replacing it changes.
Original(item, content, id) ==
  IF item = "config" THEN content = run.supplied /\ id = 0
  ELSE <<item, "tree">> \in DOMAIN run.before /\ run.before[<<item, "tree">>] = content

\* Narrow: people change one item, and then change it back; `init` replaces both
\* of its own.
Telling(item, content, id) ==
  /\ Noticeable(item)
  /\ edits > 0 => setup # << >> \/ (touched[item] > 0 /\ Original(item, content, id))

\* touched counts the changes an evaluation may have missed.
Put(item, content, id) ==
  /\ Narrow => Telling(item, content, id)
  /\ edits < MaxEdits
  /\ edits' = edits + 1
  /\ touched' = IF run = NoRun THEN touched ELSE [touched EXCEPT ![item] = @ + 1]
  /\ disk' = [disk EXCEPT ![item] = IF item = "config" THEN [content |-> content, id |-> id] ELSE content]

\* Someone writes or replaces the configuration, the harness or an artifact.
Edit ==
  /\ \/ \E id \in {0, edits + 1} : Put("config", disk.config.content, id)
     \/ \E c \in Configs \ {disk.config.content} : Put("config", c, disk.config.id)
     \/ \E h \in {"own", "template"} \ {disk.harness} : Put("harness", h, 0)
     \/ \E side \in Sides : \E t \in Trees \ {disk[side]} : Put(side, t, 0)
  /\ UNCHANGED <<setup, run, box, trials, outVars, checks>>

\* What configTemplate writes.
Template == CHOOSE c \in Configs : c.template

\* writeScaffold: what is there is kept unless `init` is forced (both exist
\* here), and is replaced atomically.  The configuration comes first; after a
\* failure the canary is not laid.
InitUpgrade ==
  /\ setup = << >> /\ edits + 2 <= MaxEdits
  /\ Put("config", Template, edits + 1)
  /\ setup' = <<"harness">>
  /\ UNCHANGED <<run, box, trials, outVars, checks>>
WriteScaffold ==
  /\ setup # << >>
  /\ Put("harness", "template", 0)
  /\ setup' = << >>
  /\ UNCHANGED <<run, box, trials, outVars, checks>>

-----------------------------------------------------------------------------
(* The plan of an evaluation: its steps in order.                            *)

Step(do, on)  == [do |-> do, on |-> on]
Steps(do, on) == [i \in DOMAIN on |-> Step(do, on[i])]
Before == <<Step("inspect", ConfigFile), Step("roots", << >>)>> \o Steps("inspect", <<Harness>> \o Artifacts)
Docker == <<Step("client", << >>), Step("image", << >>), Step("call", <<"probe", "current">>)>>
After  == Steps("again", <<ConfigFile>> \o Artifacts \o <<Harness>>)

\* Canary by canary, all trials of the current version, then all of the candidate.
Trials(config) ==
  [i \in 1..(2 * config.trials * Len(config.canaries)) |->
    LET canary == config.canaries[1 + ((i - 1) \div (2 * config.trials))]
        first  == (i - 1) % (2 * config.trials) < config.trials
    IN Step("call", <<canary, IF first THEN "current" ELSE "candidate">>)]

Todo  == Head(run.todo)
Doing(do) == run # NoRun /\ run.todo # << >> /\ Todo.do = do
Advance == run' = [run EXCEPT !.todo = Tail(@)]
Config  == run.before[ConfigFile].content

\* `vigil upgrade check` loads the configuration, which the evaluation has to
\* find again; `doctor` takes some of the same steps, up to the probe.
Begin(mode, steps) ==
  /\ run = NoRun
  /\ checks < MaxChecks
  /\ checks' = checks + 1
  /\ run' = [mode |-> mode, todo |-> steps, supplied |-> disk.config.content,
              before |-> << >>, after |-> << >>,
              contained |-> FALSE, results |-> {}, left |-> FALSE, cause |-> "none"]
  /\ UNCHANGED <<fileVars, box, trials, outVars>>
RunCheck  == Begin("check", Before \o Docker)
RunDoctor == Begin("doctor", <<Step("inspect", ConfigFile)>> \o Docker)

\* An evaluation that cannot go on answers HOLD at once.
GiveUp(cause) == run' = [run EXCEPT !.todo = << >>, !.cause = cause]

Inspect ==
  /\ Doing("inspect")
  /\ \/ LET part == Todo.on
            stale == part = ConfigFile /\ run.mode = "check" /\ disk.config.content # run.supplied
        IN IF stale THEN GiveUp("config")
           ELSE run' = [run EXCEPT !.todo = Tail(@), !.before = With(@, part, Content(part))]
     \/ GiveUp("unreadable")
  /\ UNCHANGED <<fileVars, box, trials, outVars, checks>>

\* The roots must be plain directories apart from each other.
TrustRoots ==
  /\ Doing("roots")
  /\ Advance \/ GiveUp("roots")
  /\ UNCHANGED <<fileVars, box, trials, outVars, checks>>

\* The Docker client and its endpoint are bound once; a missing image holds the
\* probe, without which no trial runs.
NoContainment == [run EXCEPT !.todo = IF run.mode = "check" THEN After ELSE << >>]
BindDocker ==
  /\ \/ (Doing("client") \/ Doing("image")) /\ Advance
     \/ Doing("client") /\ GiveUp("docker")
     \/ Doing("image") /\ run' = NoContainment
  /\ UNCHANGED <<fileVars, box, trials, outVars, checks>>

-----------------------------------------------------------------------------
(* One Docker call: `run`, then `rm --force`, then `ls`.  The box is what    *)
(* the daemon knows of the container; the result, what the client learnt.    *)

Nothing == [state |-> "none", seen |-> "nothing"]
NoBox   == [state |-> "none", stage |-> "none", gives |-> Nothing, result |-> Nothing]

\* A client or a mount that is no longer what it was is not called at all.
CallDocker ==
  /\ Doing("call")
  /\ box = NoBox
  /\ \/ box' = [NoBox EXCEPT !.state = "asked", !.stage = "run"]
     \/ ~Spoiled /\ box' = [NoBox EXCEPT !.stage = "done", !.result = Hold]
  /\ UNCHANGED <<fileVars, run, trials, outVars, checks>>

\* The daemon starts the container, at once or after its client is gone.
ContainerStarts ==
  /\ box.state = "asked"
  /\ box' = [box EXCEPT !.state = "up"]
  /\ UNCHANGED <<fileVars, run, trials, outVars, checks>>

\* What runs in it: the probe, which measures the containment, or a canary, which
\* is whatever the harness holds for it.  The template as it is laid fails always;
\* one that was edited in place may do anything (only the doctor reads its name).
Gives(canary) ==
  IF canary = "probe" THEN {Held, Hold}
  ELSE IF Spoiled THEN {Hold}
  ELSE {Hold} \cup IF Config = Template /\ disk.harness = "template"
                   THEN {o \in Outcomes : o.state = "FAIL"} ELSE Outcomes

\* The container sees the files through its mounts, as they are while it runs.
\* (When its client is gone nobody learns what it gives, and nothing is recorded.)
ContainerEnds ==
  /\ box.state = "up" /\ box.stage = "run"
  /\ LET canary == Todo.on[1] IN
     \E gives \in Gives(canary) :
       /\ box' = [box EXCEPT !.state = "exited", !.gives = gives]
       /\ trials' = IF canary = "probe" THEN trials
                    ELSE trials \cup {[canary |-> canary, side |-> Todo.on[2], tree |-> disk[Todo.on[2]],
                                       harness |-> disk.harness, gives |-> gives]}
  /\ UNCHANGED <<fileVars, run, outVars, checks>>

Learns(result) == box' = [box EXCEPT !.result = result, !.stage = "remove"]

\* The client returns with what the container gave (Hold, if it could not be
\* read), or is killed at its deadline whatever the daemon is doing.
ClientReturns ==
  /\ box.stage = "run"
  /\ \/ box.state = "exited" /\ Learns(box.gives)
     \/ box.state # "exited" /\ ~Spoiled /\ Learns(Hold)
     \/ box.state = "asked" /\ ~Spoiled /\ box' = [box EXCEPT !.result = Hold, !.state = "none", !.stage = "remove"]
  /\ UNCHANGED <<fileVars, run, trials, outVars, checks>>

Exists == box.state \in {"up", "exited"}

\* Mutated form of RemoveContainer: the removal is taken to succeed.
RemoveAssumed ==
  /\ box.stage = "remove"
  /\ box' \in { [box EXCEPT !.stage = "list", !.state = IF Exists THEN "none" ELSE @], [box EXCEPT !.stage = "done"] }
  /\ UNCHANGED <<fileVars, run, trials, outVars, checks>>

\* A removal that fails, with or without effect, spoils the result.
RemoveContainer ==
  /\ box.stage = "remove"
  /\ LET gone == IF Exists THEN "none" ELSE box.state
     IN \/ box' = [box EXCEPT !.stage = "list", !.state = gone]
        \/ ~Spoiled /\ \E state \in {gone, box.state} : box' = [box EXCEPT !.stage = "done", !.state = state, !.result = Hold]
  /\ UNCHANGED <<fileVars, run, trials, outVars, checks>>

ListContainers ==
  /\ box.stage = "list"
  /\ \/ ~Exists /\ box' = [box EXCEPT !.stage = "done"]
     \/ ~Spoiled /\ box' = [box EXCEPT !.stage = "done", !.result = Hold]
  /\ UNCHANGED <<fileVars, run, trials, outVars, checks>>

\* The call is over: what it learnt is a trial's result or the containment, and
\* a container that exists, or may yet, is left behind.
Learnt(canary, side) ==
  IF canary # "probe"
  THEN [run EXCEPT !.todo = Tail(@), !.results = @ \cup {[canary |-> canary, side |-> side, gives |-> box.result]}]
  ELSE LET held == box.result = Held
       IN [run EXCEPT !.contained = held,
                      !.todo = IF run.mode = "doctor" THEN << >> ELSE (IF held THEN Trials(Config) ELSE << >>) \o After]
CallEnds ==
  /\ box.stage = "done"
  /\ run' = [Learnt(Todo.on[1], Todo.on[2]) EXCEPT !.left = @ \/ box.state # "none"]
  /\ box' = NoBox
  /\ UNCHANGED <<fileVars, trials, outVars, checks>>

\* Mutated form of InspectAgain: the configuration only is looked at again.
InspectConfigAgain ==
  /\ Doing("again")
  /\ run' = [run EXCEPT !.todo = Tail(@), !.after =
               With(@, Todo.on, IF Todo.on = ConfigFile THEN Content(Todo.on) ELSE run.before[Todo.on])]
  /\ UNCHANGED <<fileVars, box, trials, outVars, checks>>

\* Everything is read again when the trials are over; after an artifact or a
\* harness that cannot be read, nothing more.
InspectAgain ==
  /\ Doing("again")
  /\ \/ run' = [run EXCEPT !.todo = Tail(@), !.after = With(@, Todo.on, Content(Todo.on))]
     \/ /\ ~Spoiled
        /\ run' = [run EXCEPT !.todo = IF Todo.on = ConfigFile THEN Tail(@) ELSE << >>,
                              !.cause = "unreadable"]
  /\ UNCHANGED <<fileVars, box, trials, outVars, checks>>

-----------------------------------------------------------------------------
(* The verdict.                                                              *)

Results(canary, side) == {r.gives : r \in {t \in run.results : t.canary = canary /\ t.side = side}}

\* Mutated form of Aggregate: any one of the trials speaks for all.
AggregateFirst(results) == IF results = {} THEN Hold ELSE CHOOSE r \in results : TRUE

\* Trials that are incomplete or differ are no evidence.
Aggregate(results) ==
  IF \E r \in results : r # Hold /\ results = {r} THEN CHOOSE r \in results : TRUE ELSE Hold

Version(side) == run.before[<<side, "manifest">>].version
Surface(side) == run.before[<<side, "manifest">>].surface
Comparable(canary) ==
  /\ Aggregate(Results(canary, "current")).state = "PASS"
  /\ Aggregate(Results(canary, "candidate")) # Hold
Changed(canary) == Aggregate(Results(canary, "current")) # Aggregate(Results(canary, "candidate"))

Decided ==
  LET canaries == Range(Config.canaries)
  IN IF \/ ~run.contained
        \/ Version("current") = Version("candidate")
        \/ run.before[<<"current", "tree">>] = run.before[<<"candidate", "tree">>]
        \/ \E c \in canaries : ~Comparable(c)
     THEN "HOLD"
     ELSE IF Surface("current") # Surface("candidate") \/ \E c \in canaries : Changed(c)
     THEN "CHANGED" ELSE "SAFE"
Verdict == IF run.cause # "none" \/ run.after # run.before THEN "HOLD" ELSE Decided

\* The receipt: of which evaluation, its verdict, and what it identifies.
Distinct ==
  /\ DOMAIN run.before = Parts
  /\ Version("current") # Version("candidate")
  /\ run.before[<<"current", "tree">>] # run.before[<<"candidate", "tree">>]
Over == run' = NoRun /\ box' = NoBox /\ trials' = {} /\ touched' = [i \in Items |-> 0]
Ends(mode) == run.mode = mode /\ run.todo = << >> /\ box = NoBox

\* The private receipt is written, whatever the verdict, ...
WriteReceipt ==
  /\ Ends("check")
  /\ files.private.id # checks
  /\ files' = [files EXCEPT !.private = [id |-> checks, verdict |-> Verdict], !.all = @ \cup {[id |-> checks, verdict |-> Verdict]}]
  /\ UNCHANGED <<fileVars, run, box, trials, page, checks>>

\* ... and then, if asked for, the public entry, for which the key must be there
\* and the two versions different.  A failure leaves an older entry in place.
Entry(receipt, signer, intact) == [id |-> receipt.id, verdict |-> receipt.verdict, signer |-> signer, intact |-> intact]
PublishEntry ==
  /\ Ends("check")
  /\ files.private.id = checks
  /\ \/ Distinct /\ files' = [files EXCEPT !.public = Entry(files.private, "owner", TRUE)]
     \/ UNCHANGED files
  /\ Over
  /\ UNCHANGED <<disk, edits, setup, page, checks>>

\* The doctor is content with an image, a containment and a configuration that is
\* no longer the template's.
Ready == Ends("doctor") /\ run.contained /\ ~Config.template
DoctorAnswers ==
  /\ Ends("doctor")
  /\ Over
  /\ UNCHANGED <<disk, edits, setup, outVars, checks>>

\* The process is killed, anywhere; a container may stay behind.
Interrupt ==
  /\ run # NoRun
  /\ Over
  /\ UNCHANGED <<disk, edits, setup, outVars, checks>>

\* `index` takes entries of anybody; one that is not whole and signed with the
\* pinned key, and none is published.
NoEntry == [id |-> 0, verdict |-> "none", signer |-> "nobody", intact |-> FALSE]
Forged ==
  { Entry([id |-> checks, verdict |-> "SAFE"], "stranger", TRUE),
    [files.public EXCEPT !.verdict = "SAFE", !.intact = FALSE] }

\* Mutated form of EntryVerified: the key an entry names itself is good enough.
EntrySelfSigned(entry) == entry.intact

EntryVerified(entry) == entry.intact /\ entry.signer = "owner"

PublishIndex ==
  /\ run = NoRun
  /\ \E entries \in SUBSET ({files.public} \cup Forged) \ {{}} :
       /\ \A entry \in entries : EntryVerified(entry)
       /\ page' = entries
  /\ page' # page
  /\ UNCHANGED <<fileVars, run, box, trials, files, checks>>

-----------------------------------------------------------------------------
\* There may be the receipt and the entry of an earlier evaluation.
Earlier == [id |-> 0, verdict |-> "SAFE"]
Init ==
  /\ disk \in Starts
  /\ edits = 0
  /\ touched = [i \in Items |-> 0]
  /\ setup = << >>
  /\ run = NoRun
  /\ box = NoBox
  /\ trials = {}
  /\ \/ files = [private |-> [id |-> 0, verdict |-> "none"], public |-> NoEntry, all |-> {}]
     \/ files = [private |-> Earlier, public |-> Entry(Earlier, "owner", TRUE), all |-> {Earlier}]
  /\ page = {}
  /\ checks = 0

FileChanges == Edit \/ InitUpgrade \/ WriteScaffold
Evaluation  == \/ RunCheck \/ RunDoctor \/ Inspect \/ TrustRoots \/ BindDocker \/ InspectAgain
               \/ WriteReceipt \/ PublishEntry \/ DoctorAnswers \/ Interrupt
DockerCall  == \/ CallDocker \/ ContainerStarts \/ ContainerEnds \/ ClientReturns
               \/ RemoveContainer \/ ListContainers \/ CallEnds
Next == FileChanges \/ Evaluation \/ DockerCall \/ PublishIndex
Spec == Init /\ [][Next]_vars

-----------------------------------------------------------------------------
(* Properties.                                                               *)

\* A verdict of SAFE or CHANGED speaks of the recorded files: every trial ran on
\* the recorded tree with the recorded harness, unless a file was changed and
\* changed back meanwhile, and manifest and tree of each side are one version's.
\* Neither such a verdict nor the doctor's READY leaves a container behind,
\* existing or still to come (runUpgradeEvaluation: the inventories before and
\* after the trials; doctorUpgrade; forceRemoveAndVerify).
Judged == Ends("check") /\ Verdict # "HOLD"
Restored(item) == touched[item] >= 2
VerdictOfRecorded ==
  /\ Judged \/ Ready => ~run.left
  /\ Judged =>
    /\ \A t \in trials :
         /\ t.tree = run.before[<<t.side, "tree">>] \/ Restored(t.side)
         /\ t.harness = run.before[Harness] \/ Restored("harness")
    /\ \A side \in Sides :
         Manifest(run.before[<<side, "tree">>]) = run.before[<<side, "manifest">>] \/ Restored(side)

\* SAFE means that the containment held, that the versions differ and their
\* surfaces do not, and that every canary passed every time on both sides with
\* one and the same observation (decideUpgrade, aggregateTrials, compareCanary).
SafeIsUnanimous ==
  Judged /\ Verdict = "SAFE" =>
    /\ run.contained
    /\ Version("current") # Version("candidate") /\ Surface("current") = Surface("candidate")
    /\ \A c \in Range(Config.canaries) : \E o \in Outcomes : o.state = "PASS" /\ \A side \in Sides :
         {t.gives : t \in {u \in trials : u.canary = c /\ u.side = side}} = {o}

\* A published row is a receipt that an evaluation ended with and that the owner
\* of the pinned key signed, its verdict unchanged (createPublicCompatibilityEntry,
\* verifyPublicCompatibilityEntry, runIndex).
RowsWereIssued == \A entry \in page : entry.signer = "owner" /\ [id |-> entry.id, verdict |-> entry.verdict] \in files.all
=============================================================================
