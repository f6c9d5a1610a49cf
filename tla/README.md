# agent-vigil in TLA+

A verification development for agent-vigil (v0.25.0): TLA+ modules translated
from the source, TLC instances that check them, and TLAPS proofs of what they
promise. Line numbers without a path are those of
`hosted/public-app/src/index.mjs`, in what is said of the run supervisor `src/run-supervisor.ts`.

Run from this directory: `tlc -config X.cfg M` for a row of the table of runs,
`tlapm M.tla` for a module with proofs. `DeliveryProofs`,
`RunSupervisorProofs` and `VerificationProofs` take a few minutes each.


## 1. The system

agent-vigil decides whether a change made by a coding agent has evidence behind
it, and publishes PASS, FAIL or NOT CHECKED. It has hosted parts, which run for
months and talk to GitHub, and a command line, which runs once per commit.

| component | source | state it keeps | operations | what is hard |
|---|---|---|---|---|
| **delivery ledger** of the public App | `hosted/public-app/src/index.mjs` 654-838, `control-workflow.yml` | one Durable Object per webhook delivery: dispatch record, target, request, retry claim, one alarm | `fetch` (webhook, retry-source, retry-claim), `alarm` | lost answers, evictions, redeliveries, three kinds of timeout, two ledgers racing for a retry |
| **deployment ledger** of the public App | same, 840-955 | one Durable Object per repository, commit and environment: authorization, retention, decisions, one alarm, decisions in flight | register, decide, alarm | several writes per operation with evictions between, slow decisions, retention that only the alarm ends |
| router, signatures, parsers | same, 60-490, 957-1048 | none | authenticate and route a request | stateless |
| **merge-queue dispatcher** and its workflow | `hosted/merge-queue-dispatcher/src/index.mjs`, `.github/workflows/agent-vigil-merge-group.yml` | one Durable Object per delivery, no alarm; check runs of a queue head | dispatch once; verify the head; publish | redelivery during a dispatch, GitHub calls without a timeout, runs that post in any order, heads that leave the queue |
| run supervisor | `src/run-supervisor.ts`, `run-cli.ts` | child process group, first stop request, timers, output relay, receipt | start, stop, drain, receipt | exit, deadline, signals, telemetry and output failures race |
| run telemetry | `src/run-telemetry.ts`, `run-telemetry-worker.ts` | what a worker thread has read of a growing transcript, messages both ways, the poll in flight | start, append, poll, final poll, close | a worker that dies, a file that anybody may rewrite, a grace period, a poll behind a poll |
| safe output | `src/safe-output.ts`, `safe-fs.ts` | files | create exclusively, write, rename, clean up | a crash between two steps, checks that become stale |
| guard observer, admission | `src/guard-observer-server.ts`, `guard-admission*.ts`, `guard-control-protocol.ts` | an observation window and the requests seen in it; signed documents | issue, observe, drill, attest, admit, authorize, gate | requests in flight when the window closes, an operator who mixes documents of several drills |
| guard route, environment, deployment authorization | `src/guard-*.ts`, `continuity/guard.ts` | the run of a host with its hook | drill, compare, authorize | windows of validity, binding of one document to another |
| continuity | `src/continuity/*` | a directory of event files and a tip; staples | init, append, import, status, staple, plan gate | no lock: writers meet in an exclusive creation; crashes between two files; evidence that arrives twice or late |
| verification | `src/cli.ts`, `detectors/reality.ts`, `gate.ts`, `merge-group.ts`, `maintainer.ts`, `portable.ts`, `report.ts` | a worktree, its branch and base, a signed receipt that travels in the branch | verify, gate, merge-group, maintainer | everything changes under a run that takes minutes; the candidate's own code runs in the worktree |
| candidate command | `src/candidate-command.ts` | a private clone per worktree, a container per command | run, set up, clean up | a container that outlives its client, a clone that lost a race, tools that are replaced |
| Upgrade Guard | `src/upgrade/*` | configuration, harness, two artifacts, receipts, public entries | init, check, doctor, verify, index | files that change and change back during an evaluation, a Docker client that is killed |
| authority plan | `src/authority-plan.ts` | none | the agent's configuration in base and head, a policy of the base | every setting is judged alone, its effect depends on others |
| text detectors, set-up, other documents | the rest of `src/`, `scripts/` | none | text and documents in, documents out | pattern matching and wording |

How they interact. GitHub sends a signed webhook to the App's router, which
hands it to the ledger named by its delivery id. The ledger's alarm creates a
check run at GitHub, dispatches the control workflow, and at the deadline
completes the check if the workflow did not. The workflow verifies the commit
with the command line in a container and publishes the verdict on that check
run. A Re-run webhook makes a ledger of its own, which asks and claims at the
ledger of the original delivery. Deployment webhooks go to the deployment
ledger, which an operator has given a signed authorization. The merge-queue
dispatcher does the first half of the same for one repository's merge queue,
with a ledger that has no alarm.

The command line's `verify` runs the candidate's commands in a worktree and
signs a receipt; `gate` and `merge-group` check that receipt against the commit
they are asked about, in CI, and run tests of their own; `maintainer` compares
the candidate with its base. All of them run candidate commands. `run` supervises
an agent's command with its telemetry. `guard-admit` compares drills of two
versions of a host before the deployment App accepts an authorization, and
`continuity` keeps what happened to a verdict afterwards, for the jobs that ask
whether it still stands.

### What makes each part correct

* Delivery ledger: a delivery asks GitHub for one check and one workflow at
  most, whatever is lost, repeated or evicted; it is never forgotten while
  GitHub may send it again; what its record says of the check is true; no check
  stays pending with nobody told; one check admits one re-run, and only when it
  is completed; an old record is reconciled and never redone.
* Deployment ledger: a recorded decision answers every replay within the
  redelivery window and GitHub is not called again; retention is never
  shortened; an older authorization never replaces a newer one; everything is
  deleted in the end. All of this where no eviction cut off the writes of the
  decision or authorization itself; what an eviction does there is in section 5.
* Merge queue: a delivery is dispatched again only after an error; it is pending
  only while an attempt holds it, or for good when an eviction took that attempt;
  GitHub merges only heads whose own evidence passed.
* Run supervisor: the first stop request names the cause; EXITED is claimed only
  of a run that nothing stopped, whose executable was stable and whose process
  group is gone; every wait before the receipt is built is bounded, so a run comes
  to its receipt whatever hangs, but for a stop that is refused (section 5). The
  writes of the capture that `finally` awaits (1093) have no bound.
* Telemetry: a run is called clean only if the transcript, read as an
  append-only file, stayed within the limits from the start to the last answer;
  a poll is always settled, by an answer or by a failure.
* Guard: what an admission says of a version comes from one drill of it, with
  one request seen where one was allowed; a deployment is accepted only inside
  every window behind it.
* Continuity: a history that verifies holds everything that was ever reported as
  recorded in it, each delivery once; an ALLOW rests on a staple that covers the
  moment.
* Verification: what counts as tested is what the commit contains; a gate passes
  only what a developer's own run passed; a regression is shown by tests on
  exactly two commits, the head's tests on both unless the policy says otherwise;
  nothing of the candidate is left running.
* Authority plan: no change of the agent's configuration that gives it a power
  passes, unless the policy of the base approves that change. The code has
  exceptions that its document has not; they are named (`Overlooked`, section 5).
* Upgrade Guard: a verdict other than HOLD is of the files the receipt records;
  SAFE is said only when every canary agreed in every trial; a published row is
  of a receipt that was issued.

The hazards, each at its line and with the properties that are about it, are in
`PROJECT.json`.


## 2. The modules

| module | is about |
|---|---|
| `DeliveryLedger` | all delivery ledgers, GitHub and the clock; the safety and liveness properties |
| `DeliveryInv` | the inductive invariant `IndInv`, in named parts |
| `DeliveryPromise` | the abstract specification: accepted once, one check, then one run, settled, forgotten |
| `DeliveryProofs` | the theorems about `DeliveryLedger`; that it implements `DeliveryPromise` |
| `DeploymentLedger`, `DeploymentInv` | one deployment ledger; its inductive invariant |
| `MergeQueue` | dispatcher, workflow and queue |
| `DeploymentProofs` | the theorems about the deployment ledger and the merge queue, two components of which neither knows the other; therefore the queue's specification is `QueueSpec`, of `queueVars` |
| `RunOutput` | the captured stdout of a protected run: pipe, capture file, mirror |
| `RunSupervisor` | one protected run, from the first await to the receipt, with the actions of `RunOutput` |
| `RunSupervisorInv`, `RunSupervisorProofs` | its inductive invariant `IndInv`; the theorems about it |
| `TelemetryCore`, `RunTelemetry` | what a worker makes of a transcript, as operators; the monitor, the worker, their messages, the writer and the supervisor's use of them |
| `TelemetryInv`, `TelemetryProofs` | the inductive invariant of the monitor and its worker; the theorems |
| `GuardControl`, `GuardAdmission` | the guard's documents and their validation, as operators; observers, drills, authorities, the operator and the gate |
| `GuardInv`, `GuardProofs` | the inductive invariant of the documents; the theorems |
| `ContinuityHistory`, `Continuity`, `ContinuityMishap` | what a command computes from a history; the directory and the commands that share it; one accident to it |
| `ContinuityInv`, `ContinuityProofs` | the inductive invariant of a history; the theorems |
| `Verdict`, `CandidateCommand`, `Verification` | checks and statuses, as operators; one command of the candidate; the verifier's runs with the repository and the worktree under them |
| `AuthorityAtoms`, `AuthorityPlan` | what the agent's configuration declares, atom by atom; the plan of a change, and what it is judged against, as operators |
| `VerificationInv`, `VerificationProofs` | the inductive invariant of a run; the theorems |
| `UpgradeGuard` | an evaluation with its Docker calls, the scaffold, the doctor, receipts, entries and the index |
| `UpgradeInv`, `UpgradeProofs` | the inductive invariant of an evaluation; the theorems |
| `MCTelemetry`, `MCGuard`, `MCContinuity`, `MCVerification`, `MCUpgrade` | what TLC is given: values of structured constants, symmetry, a constraint |

`DeliveryLedger` composes the ledgers of any number of deliveries: a re-run's
ledger reads and claims at the original's in `ReadSource` and `ClaimRetry`.
A definition marked "Mutated form of X" is X as a plausible bug would have it;
nothing of the specification uses it. The mutants listed in `PROJECT.json` put
it in the place of X to see that the properties notice.

### DeliveryLedger

`storage[d]` is the record of the code: `status`, `terminal` (terminal_status),
`failures`, `recovery` (recovery_only), `deadline` (deadline_at), `wake`
(wake_at), `check` (check_run_id), `retry_claim`, `request`
(originalCheckRunId). `save` writes record, target and alarm in one transaction,
so `wake` is also the alarm, and the target's checkRunId is the same field.
`pc[d]` is the await at which `alarm` stands:

| `pc` | await | left by |
|---|---|---|
| `source`, `verify`, `claim`, `accept` | prepareRerequest 709-722 | `ReadSource`, `VerifyRerun`, `ClaimRetry`, `QueueRerun`, `RejectRerun` |
| `create_token`, `create` | 758, 773 | `SendCreate`, `CreateAnswered` |
| `recover` | 758-761 | `RecoverCompleted`, `RecoverLegacy`, `RecoverCreated` |
| `created` | the deadline check 786 | `CreatedInTime`, `CreatedTooLate` |
| `dispatch_token`, `dispatch` | 790, 795 | `SendDispatch`, `DispatchAnswered` |
| `finish`, `finish_patch` | 805-807, 812 | `FindCompleted`, `SendNotChecked`, `NotCheckedAnswered` |
| `report` | the save 725, after which 726-729 log the operator event | `LogOperator` |
| any of them but `created` and `report` | the catch block 819-836 | `RetryLater`, `WatchUntilDeadline`, `GiveUp` |

A request to GitHub is a state of its own (`post`, `run`, `patch`): sent, then
carried out or lost, also after the ledger has stopped waiting. An answer that
is lost is a `Fail` whose request is carried out. `Crash` is an eviction: the
record stays, the handler is gone and its alarm is delivered again.

Abstractions. Timestamps are kept as the time left, so that the state space is
finite; `t <= now` is "nothing left". All redeliveries of a delivery carry the
same payload, so the 409 for a changed identity does not arise. An alarm that
comes early only sets itself again (736) and changes nothing. The branches for
a missing target (738) or a missing check id (802) cannot be reached from
records this code writes. A storage write that fails inside `try` is a failure
at the await before it; one that fails in `catch` is a crash. A check that
names this delivery is always found by the recovery's listing or the listing
fails. Requester, pull request and refs of a re-run may be found wrong at any
time (`RejectRerun`); the state of the original check is modelled.

### DeploymentLedger

Every storage write is a step: `gate` is the next write of the operation that
holds the object's input gate, so no other event comes between two writes, but
an eviction may (`Crash`), before any of them and while GitHub is called.
`inFlight[d]` is a decision while the gate is open for GitHub. The clock is a
number that stops at `MaxTime`.

An operation that was cut off is not resumed, and the code protects nothing of
it: a decision may be stored without its retention (935-936), an authorization
without its alarm (906-914), the new phase without the new alarm (949-950). The
history variables say what no eviction cut off: `kept` are the recorded
decisions, `registered` the authorizations, of which the properties speak.
`CalledOnce` speaks of every recorded decision and is the one violation
(section 5).

### MergeQueue

The n-th sending of a delivery is attempt n, with a handler (`pc`) and, once it
dispatches, a workflow run (`run`). `check[d]` is the newest check of the head,
`live` the heads whose ref still points to them. A workflow job may fail or be
cancelled anywhere. The dispatcher's `github` (170-186 of its `index.mjs`) has no
timeout, unlike the App's, so that a handler may hang for good: nothing is said of
what happens in the end, only of who holds a delivery meanwhile.

### RunSupervisor

`executeProtectedRun` is one async function, and beside it the callbacks it has
registered act on the same variables. `pc` is the await at which it stands:

| `pc` | await | left by |
|---|---|---|
| `start`, `ready` | 741, 754 | `StartTelemetry`, `Launch`, `PreLaunchStop`, `PreLaunchError` |
| `spawning` | 885 | `Spawned`, `SpawnFails` |
| `verifying`, `hashing`, `joining` | 911, 929, 947 | `VerifyWins`, `StopWins`, `ExitWins`, `HashingEnds`, `Joined` |
| `racing`, `orphans`, `stopping` | 950, 957, 958 | `RaceEnds`, `OrphansChecked`, `Stopped` |
| `draining`, `destroying`, `flushing`, `mirroring` | 961, 967, 972, 984 | `Drained`, `DrainTimeout`, `Destroyed`, `Flushed`, `FlushFails`, `Mirrored`, `MirrorOverdue` |
| `polling`, `finalPoll`, `closing` | 995, 1001, 1011 | `NoPollLeft`, `FinalPoll`, `WorkerCloses`, `TelemetryThrows` |
| `lastStop` | 1018 | `Conclude`, which builds the receipt |
| `catch`, `catchStop`, `catchTerm` | 1051, 1057, 1060 | `CatchStopped`, `CatchLive`, `CatchEmpty`, `Caught` |
| `finally` | 1093 | `Finally` |

`term["stop"]` is the await of the stop handler (888-900), `term["catch"]` that
of the termination in the catch block; `orphanCheck` is the check 25 ms after
the exit (901-906), `verify` the hashing (907), `poll` a poll of the interval.

The event loop. JavaScript takes up every settled promise before the next timer,
signal or message. `Due` says that such a continuation is waiting, and an
`Event` comes only when none is. Without it the model would have races that the
program cannot have, such as a deadline between the exit and the `await` that
sees it. The processes of the group are not bound by it.

A rejection that nobody has subscribed to ends the process (Node's default since
version 15; `package.json` asks for 20): `Unheard` is the one await at which
`stopHandledPromise` has no subscriber, and `crashed` what follows.

Abstractions. Durations are not modelled: a bounded wait may end at any time,
before or after what it waits for. A signal to the group has no effect that its
members could not show by themselves, so `termSent` and `killSent`, which only
say that it was sent, are left out. `LooksLive` and `LooksEmpty` say what the
scan of `/proc` may answer: never empty while a member lives, and either when
only zombies are left. A descendant may leave the group (`Escape`), which the
receipt names as outside its boundary; its only effect is that it keeps stdout
open. Process ids are not reused within a run. Chunks of output are numbers. The
limit of the relay's queue (860) is never reached: one write is in flight at a
time. After `finally` has begun nothing changes the receipt and only the writes
of the capture go on. What a telemetry breach is, is left to
`RunTelemetry`: here a poll may find one at any time.


### TelemetryCore and RunTelemetry

`core` is the worker's `RunTelemetryCore`, changed only by the operators of
`TelemetryCore` (`Started`, `Captured`, `ReadExternal`, `ReadCaptured`,
`Verdict`), which are its methods. `inbox` and `outbox` are the messages between
the monitor and its worker thread, `ready`, `failed`, `closed` and `poll` the
monitor's fields and promises, `phase` the place in `executeProtectedRun`. The
actions are the handlers: `Boot`, `WorkerStarts`, `WorkerAppends`, `WorkerPolls`,
`WorkerDies`; `HandleMessage`, `WorkerGone`; `Start`, `AppendCaptured`,
`PollOnInterval`, `PollSettled`, `ChildExits`, `FinalPoll`, `FinalAnswered`,
`GiveUp`, `Close`. The writer may append, truncate, rewrite,
replace, touch or delete an external file at any time, and `ReadExternal` has a
flag for a change between its two `fstat`s. A line is a call, a result of the
call before it, without or with an error, a usage report, or junk. A later result
of a call replaces the one before it, as in the parsers (`transcript.ts` 233-241,
`Results` and `Ended`). The five JSONL parsers and OpenCode's are taken together:
formats, results that come in another order than their calls, and a transcript
that changes its format are left out; the calls are identical, and each makes
progress when it succeeds. The calls of a transcript are the set of their places
(`Actions`), `slice(count)` is the places with at least `count` calls before
them (`Slice`), and a streak is a row of calls that failed: the numbers of
`analyzeTrajectory` are cardinalities, with no recursion, so that they can be
reasoned about.

### GuardControl and GuardAdmission

A document is a record, its hash and signature the record itself. `watch[d]` is
an observer's process with its log and the requests whose body has not ended,
`run[d]` the host of a drill with its hook's log and marker files. `Open`,
`Arrives`, `Stray`, `Hang`, `BodyTimeout`, `Close` and `Abandon` are the
observer; `StartRun`, `Calls`, `FinishRun`, `SpoiledRun` the drill; `Attest`,
`Admit`, `Authorize`, `Gate`, `Register` the commands, each over any documents
that exist and with times that the operator claims, where the code takes such a
flag. What a validator refuses has no action.

### Continuity

`stored[n]` is the event file n: absent, partial, or one event; `temps` are
temporary files that a reading finds in the directory. A command is at
`proc[p].phase`:

| phase | code | left by |
|---|---|---|
| `laying` | `initializeContinuityChain` 203-222 | `LayNext` |
| `looking`, `absent` | `appendIdempotently`, `github.ts` 236-252 | `LookUp`, `AppendImported` |
| `reading` | `appendContinuityEvent`, `chain.ts` 401-404 | `ReadToAppend` |
| `verified`, `created` | the exclusive file, 405-406 | `CreateEvent`, `FillEvent` |
| `filled`, `tipping` | the atomic tip, `safe-output.ts` 128-167 | `OpenTip`, `RenameTip` |
| `renamed`, `rereading` | the second verification, 407-411 | `ReadAgain`, `Report` |
| `judging` | `status` and `staple`, `cli.ts` 271-370 | `Judge` |

Each may fail (`WriteFails`) or die (`Crash`). Hashes cover the predecessor's
hash, so a hash is the sequence of drafts it covers, and collisions are left
out. `gate` is `terraform-plan-gate` between hashing the plan, showing it and
looking again. `ContinuityMishap` adds one accident: a file removed or replaced
by another's copy, or an older tip put back.

### Verdict, CandidateCommand and Verification

`log` is the commits, `tip` and `base` two branches, `tree[dir]` a worktree: its
HEAD and what differs from it. `run` is one run of the verifier with `todo`, the
stages still to come in the order of the code (`Rank`), and `results`, its
checks. A stage that runs a command begins `cmd`, which `CandidateCommand` takes
through the steps of `runCandidateCommand` (source check, clone, comparison,
container, set-up, end, removal, check afterwards). A maintainer's profile says
whether the base is given the head's tests (`overlay`, `overlayChangedTests` of
`maintainer.ts` 332, 344-361): `MakeTrees` puts them there, or leaves the base its
own. `Disturb`, `Change` and
`Restore` change a worktree between any two steps, `ReplaceBinary` the tools.
`Start*` load the policy; a run of `gate` is given any receipt there is, or a
forged one. Text scans and claims enter by their result.

### AuthorityAtoms and AuthorityPlan

A revision is a function from paths to documents, a document the record of its
settings, `Unset` where one is absent. `McpAtoms`, `ClaudeAtoms` and `CodexAtoms`
are the three extractors, `Declared` the map of atoms by semanticKey, which is
`<<path, kind, owner, name>>`. Of an atom the code keeps two dispositions
(`added`, `removed`) and a `compare`; here they are functions of its kind and
value: `WhenAdded`, `WhenRemoved`, `Relation`. `Says` is the disposition of one
delta, with the sandbox or server it depends on; `Disposition` applies the
policy, `PlanStatus` sums up. `Public` is what an approval key shows of a value.

`Outcome` puts beside the status what the change really gives, as
`docs/AUTHORITY_PLAN.md` has it blocked: `Worth` is the set of powers a declared
value leaves the agent (an unrecognized mode is a power nobody knows, a command
is one with all its arguments), `Unsaid` what holds without it. A change is
`Loosened` when it gives a power where server and sandbox let it count. It is
`Excused` by an approval of exactly that `Delta`, or, where the policy lets
unknown changes pass, by being `NotUnderstood`. What the code lets pass beyond that is `Overlooked`, a
list of its own in which `KeyApproved`, the code's comparison of approval keys, is
the first entry; `Widened` is what is neither. None of this is part of the plan.
`Verification` makes a plan in the merge-group and maintainer modes (`PlansMade`).

### UpgradeGuard

`disk` is the configuration, the harness and the two artifacts; `run.todo` the
readings and Docker calls of `runUpgradeEvaluation` in their order, `box` the
container of the call in progress (`CallDocker`, `ContainerStarts`,
`ContainerEnds`, `ClientReturns`, `RemoveContainer`, `ListContainers`), `trials`
what each trial read and gave. The template's canary fails until its file is edited;
a check runs whatever the harness holds and does not look at the template's id, as
`doctor` does (`setup.ts` 170), so a template configuration with an edited harness
may come to any verdict (`Gives`). `WriteReceipt` and `PublishEntry` are two writes;
`PublishIndex` is given any entries, forged ones included.


## 3. The runs

| run | module, cfg | states | what it shows |
|---|---|---|---|
| `delivery_single` | `DeliveryInv`, `DeliverySingle` | 19 260 | one delivery through every stage with failures, crashes and lost requests; it implements `DeliveryPromise`, liveness included |
| `delivery_retry` | `DeliveryInv`, `DeliveryRetry` | 306 600 | the record of an older release, with or without a check and a running workflow, and two re-runs of its check, racing, with a crash |
| `deployment` | `DeploymentInv`, `Deployment` | 300 294 | two authorizations, two deliveries, evictions before any write and during calls; what no eviction cut off is answered once, kept in order and deleted |
| `deployment_crash` | `DeploymentInv`, `DeploymentCrash` | violation | section 5 |
| `merge_queue` | `MergeQueue` | 11 902 | three sendings of one delivery, a crash, lost answers, several runs |
| `run_supervisor` | `RunSupervisorInv`, `RunSupervisor` | 283 732 | a run with two descendants and a group that may be another user's, in every order of exit, deadline, signals, telemetry, verification and failures |
| `run_output` | `RunSupervisorInv`, `RunSupervisorOutput` | 241 967 | a chunk on its way to capture and mirror, through drain, flush and mirror with their deadlines; every run comes to its receipt, whatever hangs |
| `telemetry` | `MCTelemetry`, `RunTelemetry` | 2 166 714 | both transports, a writer that may do anything to the file, a worker that may die, waits that end before the answer; every poll is settled |
| `guard` | `MCGuard`, `Guard` | 319 127 | an installed version and drills of a candidate, documents mixed at will |
| `continuity` | `MCContinuity`, `Continuity` | 482 563 | concurrent appends, imports and staples with failures, crashes and one accident; a gate |
| `verification` | `MCVerification`, `Verification` | 586 822 | a developer's run, a gate, a merge group and a maintainer's comparison, with a branch, a worktree and a machine that change under them, and every change of the agent's configuration |
| `upgrade` | `MCUpgrade`, `Upgrade` | 1 692 654 | an evaluation of two artifacts with every Docker step, edits that are undone, a killed client, forged entries |

Bounds. Two check numbers suffice to show a second check of one delivery; in
`delivery_retry` there is one, the original's, for which both re-runs ask, and
only there is the original's record that of an older release (`Legacy`).
Timers of `delivery_single` keep the code's order: retry delay (2, 4, 6 with the
failure count) below the deadline (7) below the retention (10); the real ones
are 30 s, 1 h and 3 days. Where several ledgers run together all timers are one
unit and `Soon` is 0, which still lets every alarm come before or after every
deadline, failures are 1 instead of 3, and only one re-run is evicted. Crashes
are capped by `MaxCrashes`, attempts by `MaxAttempts`, time by `MaxTime`, which
leaves room for the last deletion after the last registration; the deployment
ledger is evicted as often as one likes. `run_supervisor`
has two descendants, so that a group outlives its leader, forks and dies in
parts, and leaves the chunks out; `run_output` has one chunk, which may be
anywhere between the pipe and its two destinations, and no descendants: a leader
that lives on holds stdout open as well as a descendant.

`telemetry`: two changes of the transcript, of all five kinds of line, one poll
before the final one, and a clock that reaches the grace period are enough for a
breach that appears and is hidden again; a file may hold a call, junk or an
unfinished usage report at first, or be rewritten to one of these (`Found`);
limits are set on the run of failed calls and on tokens. `guard`: one challenge of the candidate with up to three requests,
two of which its observer can record (eight in the code), and one drill of it,
beside the installed version's; one approval, authorization and acceptance, any
claimed time. `continuity`: two processes, a delivery that comes in as
a revert one key records and as an incident another records, and a repair
appended by hand; the accident happens
when no command is running, for what it does to one that is at work is an
ordinary crash or a second writer; `ClockMatters` (a constraint) stops the clock
where no comparison can change any more, and processes are symmetric.
`verification`: two commits before the first run and one after each, two runs, of
which the second is a gate when the first was a developer's and passed, one
change of a worktree per run and its undoing, four profiles of a policy (with and
without the comparison, the head's tests on the base, set-up, a review's integrity
modes); a
maintainer's run compares a branch that has a commit of its own, and what happens
when no run can follow is not looked at (`Relevant`, a constraint); forged
receipts are tried while there is no genuine one. The configuration has one
document, of any of the three kinds, in base and in head: each is a plain one
with one setting, or two that depend on each other, at another value, recognized
or not, or is absent, or cannot be read, about 3500 pairs, under eight policies
(unknown changes pass or not; approved is nothing, the connection to a new server,
that and its launch, or a hook); since a delta looks only at its own key and at its server's or
sandbox's, more documents show nothing new. `upgrade`: one canary, two
trials, and `Narrow`: one item is changed and changed back, or the two files of
`init` are; a change comes just before the next reading of what it changes, at any
other moment it has the same effect; once the verdict can only be HOLD nothing
more happens to the evaluation. These are the only places where `Narrow` occurs
(`Telling`, `Noticeable`, `Spoiled`); with `Narrow = FALSE` any edits and mishaps
come at any moment, and the proofs are for both. The proofs need none of the
bounds of this section.

Deadlock is not checked: deliveries are forgotten, the clock stops and attempts
are used up, a run ends, and then nothing happens, as intended.

Fairness. `DeliveryLedger!FairSpec`: time passes, and the runtime delivers a due
alarm, at least once, and resumes its handler, whose awaits end by an answer or
by the 15 s timeout of `github` (493-506). Nothing is assumed of GitHub, the
workflow or users, nor of the record of an older release (`Legacy`), of which
nothing is promised. `DeploymentLedger!FairSpec`: time and alarms come through
although the gate is closed now and then, and an operation makes its writes
although evictions cut it off now and then, not for ever (strong fairness). The
merge queue has none: the dispatcher's calls have no timeout, so only safety is
stated. `RunTelemetry!FairSpec`: the worker takes
up its messages while it lives and the monitor's thread its own, its timers and
promises, and its bounded waits end; nothing is assumed of the writer, nor that
a worker stays alive. `RunSupervisor!FairSpec`: the event loop runs, so timers fire and
settled promises are taken up; a dead child's exit is delivered; reading the
executable comes to an end, and so do the writes of the capture that `finally`
awaits without a bound (1093). Nothing is assumed of the command, its
descendants, the telemetry worker, the consumer of stdout or users.


## 4. What is proved

For every value of the constants that satisfies the named assumptions:

* `DeliveryProofs`: `Invariance` (`IndInv`), and from it `RequestsOnce`,
  `ChecksOnce`, `Remembered`, `Truthful`, `Watched`, `RetriesOnce`,
  `RetriesCompleted`, `NeverEarly`, `TypeCorrect`. The argument: a handler
  always finds the stage it was started in (`AwaitMatchesStage`); the stage
  bounds what was asked of GitHub (`RequestsMatchStage`), what GitHub has or
  may still do is bounded by what was asked (`RunsMatchRequests`,
  `ChecksMatchRequests`), and the ledger's check is its own (`CheckIsOwn`).
  For re-runs: an admission is backed by the claim at the original's ledger
  until that record is gone for good (`ClaimBacksRetry`, `ForgottenForGood`),
  so two admissions of one check are one (`OneAdmission`). None of the safety
  properties is inductive alone: that no second request is sent needs the
  stages, and that the stages are entered once needs that records are not
  forgotten early. The one assumption about the world is
  `RedeliveryWindow <= RedeliveryRetention` (both three days).
  The last part is `Refinement`, `Spec => Promise!Spec`: every action maps to a
  step of the promise or to a stutter.
* `DeploymentProofs`: `DecisionsRetained` (`DeploymentIndInv`), `RepliesKnown`,
  `CallsOnce`, `RemovedLate`, `NeverOlder`, `AuthorizationsKept`, with evictions
  before any write and during any call. They are about the decisions in `kept` and
  the authorizations in `registered`, those whose own writes no eviction cut off;
  of the others the run `deployment_crash` shows that no more holds. The argument:
  a kept decision is covered by the stored deletion time and, when the next alarm
  is the one that deletes everything, by that alarm, wherever the writes of other
  operations stop (`DecisionRetained`); a registered authorization has the alarm of
  its own margin (`AuthorizationCovered`). `NeverOlder` needs
  `MaxValidity <= AuthorizationRetention` (one hour, 24 hours): when an
  authorization is deleted, everything older has expired and the router would
  refuse it.
  The same module has the theorems of the merge queue, `QueueInvariance`,
  `RepeatsOnlyErrors`, `PendingHeld` and `MergesVerified` of `QueueSpec`. The one handler
  that has dispatched, or may have, holds the delivery: `pending` is stored until
  it fails or succeeds, and for good when it was evicted. A run that passed and a
  green check stand for evidence that passed.
* `RunSupervisorProofs`: `Invariance` (`IndInv`), and from it `ExitsVerified`,
  `ExitsWhole`, `Contained`, `FailuresShown`, `KeepsItsLabel`, for any number of descendants and of chunks and with or
  without a group that may not be signalled. The argument: without a stop
  request the function gets past each await only with what it waits for
  (`Passed`), nothing that loses or fails a chunk goes without a stop request
  (`Kept`, `Caused`), a stream that ended left nothing behind (`Ended`), so that
  a receipt EXITED is built from a verified executable, an exit and whole
  output, and since `finally` has begun nothing takes that back (`Backed`). A
  group that is confirmed gone stays gone because only its members fork
  (`Gone`). None of the properties is inductive alone, since each speaks of the
  receipt only.
* `TelemetryProofs`: `TelemetryInvariance` (`TelemetryInv`), `CleanRunsAreWithin`,
  `NothingIsForgotten`, for any limits, bounds, transcripts, polls and writes; of
  `None` only that it is neither a number nor a transcript. The argument: the
  worker's numbers are those of the transcript it has read (`Numbered`,
  `Counted`), less the numbers of the one before the run (`Based`). That
  transcript begins with the baseline (`FollowsFile`), or is how the captured
  stdout began (`FollowsCaptured`); a file that nobody touched since is the one
  read (`FileInv`), which is why a poll may skip it. A pending poll is one message
  or one answer (`PendingInv`), so that an answer is the answer to the poll it is
  taken for. What was captured, with the chunks on their way, is what was sent
  (`FlowInv`), and the last poll is behind all of them, so that its answer is
  about everything (`FinalInv`). `CleanMeansWithin` counts without the worker's
  operators: `OwnFailed` says that the calls behind the baseline whose last result
  in the whole transcript is an error are those that failed in what was written
  after the baseline; a late result of an earlier call is none of theirs.
  `NothingIsForgotten` needs that a transcript which begins with another has
  at least its calls. These are counts over sequences: the lemmas about `Slice`,
  `Results`, `Streak` and `Metrics` take them as cardinalities of sets of places,
  and where code would go step by step they take the least place at which a claim
  fails.

* `GuardProofs`: `GuardInvariant`, `ApprovalRestsOnOneDrill`,
  `AcceptanceIsCovered`, for any drills, artifacts, environments, windows and
  claimed times. The argument: a document is what its issuer made of the state it
  saw (`GuardInv`), an observation is closed once and its log is what came in
  whole, so documents with one drill's name are of one run of it; what `Approves`
  compares can then only be one drill on each side. The windows follow document
  by document, from the challenge to the acceptance.
* `ContinuityProofs`: `HistoryInvariant` (`IndInv`), `HistoriesAreKept`,
  `EntriesAreUnique`, `AllowsAreCovered`, for any number of commands, drafts,
  policies and pins, with failures, crashes and one accident. The argument: a
  history is `Good` or `Blocked`. Good: the files are the entries of the tip and
  at most one more, which is the work of at most one writer or was left behind;
  every reading that verified has seen a beginning of it; what was reported as
  recorded lies on it. A writer gets its place by an exclusive creation, so no
  second one is ever behind the same tip. Blocked: an accident has broken the
  chain, so no reading ever verifies, nobody writes, and every decision revokes.
  That an accident leads to one or the other is what the lengths of the hashes
  show (`GapBreaks`, `CopyBreaks`, `OldTipBreaks`). None of the three properties
  is inductive: each speaks of what a command saw, not of the files.
* `VerificationProofs`: `PassesTestTheCommit`, `GatesAreBacked`,
  `RegressionsAreShown`, `NothingIsLeftRunning`, `AuthorityIsKept`, for any
  commits, policies, profiles, changes and number of runs. The parts of the invariant
  (`VerificationInv`): stages come in the order of the plan and none is skipped;
  what a command read is the worktree, and a worktree that has changed stays
  different until somebody looks at it or undoes it; a check that counts has an
  observation behind it; a receipt is a developer's passing run or a forgery; the
  comparison's two worktrees are the head and the base, with the head's tests or,
  where the policy says so, its own; a
  container that is left makes its command an error. `AuthorityIsKept` is a
  statement about the plan, for any two revisions with any documents: every atom
  is of a known kind and value (`DeclaredMatched`, extractor by extractor), and a
  key under which a power is gained that is neither excused nor one of the cases
  of `Overlooked` (section 5) makes the plan HOLD or BLOCK
  (`PlanSound`), shown for a setting that is added, dropped and changed
  (`AddedSound`, `RemovedSound`, `ChangedSound`); `AboveGrows` is why the orders
  of modes agree with what the modes give.
* `UpgradeProofs`: `EvaluationInvariant` (`IndInv` of `UpgradeInv`), and from it
  `VerdictsAreRecorded`, `SafeIsEarned`, `RowsAreIssued`, for any configurations,
  trees, outcomes, edits and mishaps and any number of canaries and trials, with
  `Narrow` and without. The argument:
  the plan keeps its order, so nothing is tried before everything is read and the
  probe has held, and nothing is tried any more once the second reading has begun
  (`PlanTrue`); what the client learnt is what a container gave that ended and was
  removed, and a container that is left makes its trial HOLD (`CallTrue`,
  `LeftTrue`); every trial is counted as what it gave or as no evidence, and every
  result that counts is a trial's (`TrialsTrue`). What a trial saw of an item that
  was changed at most once is what the receipt records, or is still there to be
  found by the second reading (`SeenTrue`): that is why the two readings around the
  trials are enough, and why a second change, which undoes the first, is named in
  the property. The assumption on the constants is what `validateUpgradeConfig`
  lets through, at least two trials (173) and at least one canary, and that
  `"probe"` is a name the model keeps for the call that is not a canary's.

Every safety invariant and every action property that a passing run checks is
stated by one of these theorems, and what is left to TLC is liveness, which is out
of this prover's reach: `NoSilentCheck`, the fair half of `KeepsPromise`,
`CleanedUp`, `EndsWithReceipt` and `PollsSettle`; and the violation, which is
TLC's by its nature.


## 5. Where documents and code differ

`CalledOnce` (run `deployment_crash`) with an eviction between 949 and 950: the
repeated alarm deletes every decision of the ledger, about two days early, and a
replay calls GitHub again. README 119-122 says that decisions are retained for
the redelivery window.

Also worth knowing, in the order of the components; none is a run.

* README 87-88: a PASS or a real FAIL "cannot be overridden through this recovery
  path". The original check is read at 567-571; its workflow may still publish a
  verdict before the retry's check is created. The retry's result is the newer.
* A failure of a dispatch is carried into stage `dispatched` (828, 746-749),
  which then gives up after two failures of its own, while the README (57-58)
  counts three in a stage. A claim that is followed by a failed re-run is never
  released.
* A delivery that is given up is saved before its operator event is logged (725,
  726-729), and nothing logs it later: an eviction between the two loses the event
  that the README (57-58) promises. `NoSilentCheck` names this case (`"lost"`).
* An eviction between 935 and 936 of the deployment ledger stores a decision that
  no alarm will delete, unless a later event on the ledger sets one; one between
  the writes of a registration (906-914) leaves an authorization without its alarm.
  `CleanedUp` excepts both.
* A merge-queue dispatch whose answer is lost is stored as `failed`, and a
  redelivery dispatches a second run (`MergedWasVerified` holds all the same); one
  that is evicted stays `pending` for good (`PendingIsHeld` names it), and one whose
  call to GitHub hangs as long as it does.
* `docs/PROTECTED_RUN.md` 55-57: "a slow output consumer cannot [...] prevent the
  capture from draining". The child's stdout is paused while a write to the
  supervisor's stdout is in flight (868-877), as its comment says, and the drain's
  deadline may pass with chunks that the capture could have taken. The run is then
  an ERROR, never a partial EXITED (`ExitedWhole`).
* A stop that is refused with EPERM while the executable is still being hashed
  rejects a promise nobody awaits (888), and the process ends without the ERROR
  receipt of `docs/PROTECTED_RUN.md` 111-113. An executable found changed after
  another stop was requested leaves that stop's code.
* Telemetry: an external file that changed while it was read does not clear the
  time since which it was unreadable (`run-telemetry.ts` 274), so two such
  moments far apart may exhaust the grace period. A call that failed is counted
  by its last result: a second result without an error takes it off the failed
  calls and out of their longest run, so that `NeverForgets` asks of calls and
  completed ones only, and a limit on failures may be exceeded between two polls
  and met at the end. A monitor that is closed before its worker was ready leaves
  `readyPromise` unsettled (`run-telemetry.ts` 451-459): the supervisor, which gave
  up on it before, no longer waits.
* Guard: a request whose body has not ended when the window closes may leave no
  event; an observer's honest FAIL for a late close is refused by the validator,
  so that an admission ends with an error and no decision.
* Continuity: a crash between the event file and the tip (`chain.ts` 406-407)
  blocks the history for good, and a temporary file left behind makes every
  reading fail; late evidence is refused for ever (365-369); a repair that has
  expired, or a second one, leaves a history that is never CURRENT again; a staple
  may be post-dated with `--now` within the skew. `appendPrivateFileAtomic`
  (`safe-output.ts` 397), which certification uses, loses one of two concurrent
  appends.
* Verification: files that are added, untracked, after the binding are seen by a
  local test; HEAD changed and changed back goes unnoticed (so "stays different
  until undone" in `PassedAsCommitted`); the local comparison never looks at its
  worktrees again; with `overlayChangedTests` false a new test file leaves the
  isolated comparison unverifiable (`maintainer.ts` 350-361), and the message
  (378) still speaks of the candidate's changed tests, which the base was not
  given; a gate does not ask
  that the policy's ref is its base, a merge group does; the comparison uses exit
  codes only (358-376), while
  `docs/research/2026-08-23-counterfactual-proof-design.md` 76-77 has missing
  tests remain INCONCLUSIVE.
* Upgrade Guard: a template canary that is edited in place keeps its id, so that
  `doctor` says HOLD (`setup.ts` 170) of a scaffold whose check may say SAFE; a
  killed client may leave a container, whose trial is HOLD; a
  failed public entry leaves an older entry beside a newer receipt; `upgrade
  verify` without a pinned key accepts a self-signed entry.
* Authority plan, against `docs/AUTHORITY_PLAN.md`, which has "malformed or changed
  settings the installed adapter cannot interpret" blocked (70), a new "tool grant"
  and "weaker approval or sandbox settings" too (66-68), and says that an approval
  binds the "complete structural delta" and "does not approve a later command
  change" (88-93). The code lets pass, and `AuthorityKept` therefore excepts
  (`Overlooked`, case by case):
  - a delta that shows the same as an approved one: an approval key is made of what
    is public (1603-1608), and a server's arguments are not (675-677), so an approval
    of one change of a command covers every other with the same executable;
  - a first `approval_policy` or shell `inherit` that is not recognized (1402-1404,
    1454-1456), and one unrecognized reviewer after another (1435);
  - the last tool of a list of enabled tools: its removal counts as a narrowing
    (792-800), although the list was what limited the tools;
  - under `allowUnknownChanges`, a recognized mode that is declared for the first
    time, or no more: it counts as unknown, unless it is one of the boldest.

  Besides, approving the enabling of a parent covers its conditional children,
  whose widening is then reported as a narrowing (1684-1701; `Loosened` therefore
  asks that the sandbox was on before). Another `oauth_resource` in the place of one
  is no change at all (755), against the comment above it; the order of execution
  environments looks for a constraint its atoms do not have, so that remote to
  local is held too.


## 6. Not modelled, and the plan

Not modelled, each for its reason: signatures, hashes and payload syntax
(stateless), text detectors (pattern matching), rendering of documents,
transcripts' formats and the command line's parsing; `setup.ts` (writes templates
into a repository), `public-pr-receipt.ts`, `outcome.ts`, `certification.ts`,
`control-proof.ts`, `autopsy.ts`, `value.ts` and the evidence readers (one
document computed from its inputs); `guard-environment.ts` and `guard-compat.ts`
(taken by their result); a loss of power (only processes die); `/proc` as it is
scanned (`ProcessGroupScan`, 330-458: `LooksEmpty` takes its result for granted);
scripts, benchmarks and bundles.

Planned:

1. `Certification`: the hash-chained corpus of proofs and its concurrent appends.
