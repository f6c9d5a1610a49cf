----------------------------- MODULE RunSupervisor ------------------------------
(***************************************************************************)
(* One protected run (src/run-supervisor.ts, executeProtectedRun): a       *)
(* command is launched in a process group of its own, watched by a         *)
(* deadline, by telemetry polls and by signal handlers, its executable is  *)
(* verified again while it runs, and the run ends in a receipt.            *)
(*                                                                         *)
(* `pc' is the await at which the function stands.  Beside it run the      *)
(* handler that a stop request wakes (stopHandledPromise), the check for   *)
(* descendants 25 ms after the exit, the verification, the polls, and the  *)
(* handlers of RunOutput.  All run on one event loop: an event comes only  *)
(* when every continuation of a settled promise has been taken up (Due).   *)
(* The processes of the group run beside it.  A bounded wait may end at any*)
(* time: durations are not modelled.                                       *)
(***************************************************************************)
EXTENDS RunOutput

CONSTANTS
  MaxDescendants,  \* bound on the descendants alive together
  Refusable        \* whether the group may turn out to be another user's

ASSUME GroupAssumption == MaxDescendants \in Nat /\ Refusable \in BOOLEAN

VARIABLES
  mode,          \* "plain", or the transcript is "observed" or "captured"
  pc,
  stop,          \* stopRequest: the first reason to stop, or "none"
  outputFailure, \* outputFailure is set
  timers,        \* the deadline timer and the poll interval are armed
  verify,        \* hashExecutableAfterLaunch: under way, or how it ended
  stable,        \* executableIdentityStable
  confirmed,     \* processGroupTerminationConfirmed
  orphanCheck,   \* exitDescendantCheckPromise: "none", "due", "done"
  term,          \* terminateProcessGroup: for the stop handler, for the catch
  worker,        \* the telemetry worker
  poll,          \* a poll of the interval is in flight
  receipt,
  leader,        \* the command's own process
  descendants,   \* how many others of its group are alive
  unreaped,      \* one that died is still listed as a zombie
  escaped,       \* one has left the group and still holds stdout
  exitSeen       \* the "exit" event was delivered

group == <<leader, descendants, unreaped, escaped>>
main  == <<pc, receipt>>
asked == <<stop, outputFailure>>
check == <<verify, stable>>
vars  == <<mode, main, asked, timers, check, confirmed, orphanCheck, term,
           worker, poll, group, exitSeen, output>>

Codes == {"TIME_LIMIT", "TELEMETRY", "ORPHANED_DESCENDANTS", "SUPERVISOR_SIGNAL",
          "EXECUTABLE_CHANGED", "SUPERVISOR_ERROR"}

Errors == {"SUPERVISOR_ERROR", "EXECUTABLE_CHANGED"}

NoReceipt == [state |-> "none", code |-> "none", stable |-> "unchecked",
              confirmed |-> FALSE]

Receipts == [state : {"none", "EXITED", "STOPPED", "ERROR"},
             code : Codes \cup {"none"},
             stable : {"yes", "no", "unchecked"}, confirmed : BOOLEAN]

Before == {"start", "ready", "spawning"}
WrapUp == {"draining", "destroying", "flushing", "mirroring", "polling",
           "finalPoll", "closing"}
Phases == Before \cup {"verifying", "hashing", "joining", "racing", "orphans",
            "stopping"} \cup WrapUp
          \cup {"lastStop", "catch", "catchStop", "catchTerm", "finally", "done",
                    "crashed"}

Terminating == {"idle", "grace", "kill", "settle", "done", "failed"}

FlagsOK ==
  /\ outputFailure \in BOOLEAN /\ timers \in BOOLEAN /\ confirmed \in BOOLEAN
  /\ poll \in BOOLEAN /\ exitSeen \in BOOLEAN
  /\ unreaped \in BOOLEAN /\ escaped \in BOOLEAN

StatesOK ==
  /\ mode \in {"plain", "observed", "captured"}
  /\ pc \in Phases
  /\ stop \in Codes \cup {"none"}
  /\ verify \in {"none", "running", "equal", "changed", "cancelled"}
  /\ stable \in {"yes", "no", "unchecked"}
  /\ orphanCheck \in {"none", "due", "done"}
  /\ term \in [{"stop", "catch"} -> Terminating]
  /\ worker \in {"none", "starting", "ready", "failed", "closed"}
  /\ leader \in {"none", "alive", "zombie", "reaped"}
  /\ descendants \in 0 .. MaxDescendants

TypeOK == OutputTypeOK /\ FlagsOK /\ StatesOK /\ receipt \in Receipts

Init ==
  /\ OutputInit
  /\ mode \in {"plain", "observed", "captured"}
  /\ pc = "start" /\ receipt = NoReceipt
  /\ stop = "none" /\ outputFailure = FALSE
  /\ timers = FALSE /\ verify = "none" /\ stable = "unchecked"
  /\ confirmed = FALSE /\ orphanCheck = "none"
  /\ term = [o \in {"stop", "catch"} |-> "idle"]
  /\ worker = "none" /\ poll = FALSE
  /\ leader = "none" /\ descendants = 0 /\ unreaped = FALSE /\ escaped = FALSE
  /\ exitSeen = FALSE

Handled == term["stop"] \in {"done", "failed"}

\* A promise that the function or the stop handler awaits is settled.
Due ==
  \/ pc = "ready"     /\ (stop # "none" \/ worker # "starting")
  \/ pc = "verifying" /\ (stop # "none" \/ exitSeen \/ verify # "running")
  \/ pc = "hashing"   /\ verify # "running"
  \/ pc = "joining"   /\ Handled /\ (term["stop"] = "failed" \/ verify # "running")
  \/ pc = "racing"    /\ (exitSeen \/ Handled)
  \/ pc = "orphans"   /\ orphanCheck = "done"
  \/ pc = "draining"  /\ stream # "open"
  \/ pc = "mirroring" /\ mirror # "busy"
  \/ pc = "polling"   /\ ~poll
  \/ pc = "lastStop"  /\ (stop = "none" \/ Handled)
  \/ pc \in {"stopping", "catchStop"} /\ Handled
  \/ pc = "catchTerm" /\ term["catch"] \in {"done", "failed"}
  \/ pc = "catch"
  \/ pc \notin Before /\ stop # "none" /\ term["stop"] = "idle"
  \/ term["stop"] = "settle" /\ exitSeen

\* From `finally' on nothing that happens matters to the receipt.
Active == pc \notin {"finally", "done", "crashed"}

Event == Active /\ ~Due

-----------------------------------------------------------------------------
(* Why the run is asked to stop.                                            *)

\* requestStop keeps the first reason.
Requested(code) == IF stop = "none" THEN code ELSE stop

RequestStop(code) == stop' = Requested(code) /\ UNCHANGED outputFailure

RequestOutputFailure ==
  stop' = Requested("SUPERVISOR_ERROR") /\ outputFailure' = TRUE

\* An event that does no more than ask.
Asks ==
  /\ Event
  /\ UNCHANGED <<mode, main, timers, check, confirmed, orphanCheck, term, worker,
                 group, exitSeen>>

Signal ==
  /\ Asks /\ RequestStop("SUPERVISOR_SIGNAL") /\ UNCHANGED <<poll, output>>

\* enforceDeadline.
TimeLimit ==
  /\ Asks /\ timers /\ RequestStop("TIME_LIMIT") /\ UNCHANGED <<poll, output>>

\* pollTelemetry, once for all polls of the interval that find one in flight.
PollBegins ==
  /\ Asks /\ timers /\ mode # "plain" /\ ~poll
  /\ poll' = TRUE /\ UNCHANGED <<asked, output>>

PollAnswered(breach) ==
  /\ Asks /\ poll /\ worker = "ready"
  /\ poll' = FALSE /\ UNCHANGED output
  /\ IF breach THEN RequestStop("TELEMETRY") ELSE UNCHANGED asked

PollFails ==
  /\ Asks /\ poll
  /\ poll' = FALSE /\ RequestStop("SUPERVISOR_ERROR") /\ UNCHANGED output

-----------------------------------------------------------------------------
(* The telemetry worker: it answers, or fails, or hangs.                    *)

WorkerBecomes(from, to) ==
  /\ Event /\ worker \in from /\ worker' = to
  /\ UNCHANGED <<mode, main, asked, timers, check, confirmed, orphanCheck, term,
                 poll, group, exitSeen, output>>

WorkerStarts == WorkerBecomes({"starting"}, "ready")
WorkerDies   == WorkerBecomes({"starting", "ready"}, "failed")

-----------------------------------------------------------------------------
(* The captured output and what its failures ask for.                       *)

OutputStep ==
  /\ mode = "captured" /\ leader # "none"
  /\ UNCHANGED <<mode, main, timers, check, confirmed, orphanCheck, term, worker,
                 poll, group, exitSeen>>

ChunkRelayed == OutputStep /\ Event /\ worker = "ready" /\ Relay /\ UNCHANGED asked

ChunkRefused ==
  OutputStep /\ Event /\ worker = "ready" /\ RelayRefused /\ RequestStop("TELEMETRY")

ChunkLost ==
  /\ OutputStep /\ Event /\ worker \in {"failed", "closed"}
  /\ LoseChunk /\ RequestStop("SUPERVISOR_ERROR")

\* The writes go on while `finally' closes the sink.
CaptureSettles ==
  /\ OutputStep /\ (Event \/ pc = "finally")
  /\ \/ CaptureWritten /\ UNCHANGED asked
     \/ CaptureFails /\ RequestOutputFailure

MirrorSettles ==
  /\ OutputStep /\ Event
  /\ \/ MirrorWritten /\ UNCHANGED asked
     \/ MirrorFails /\ RequestOutputFailure

Live == leader = "alive" \/ descendants > 0

OutputEnds ==
  OutputStep /\ Event /\ ~Live /\ ~escaped /\ StreamEnds /\ UNCHANGED asked

OutputBreaks == OutputStep /\ Event /\ StreamCloses /\ RequestOutputFailure

-----------------------------------------------------------------------------
(* The process group.  A signal has no effect that could not come by itself *)
(* and is no more than a step of terminateProcessGroup.                     *)

\* processGroupHasLiveMembers never misses a live member, and takes a zombie for
\* one where /proc says too little (and on macOS).
LooksLive  == Live \/ leader = "zombie" \/ unreaped
LooksEmpty == ~Live

GroupStep ==
  /\ Active
  /\ UNCHANGED <<mode, main, asked, timers, check, confirmed, orphanCheck, term,
                 worker, poll, exitSeen>>

Fork ==
  /\ GroupStep /\ Live /\ descendants < MaxDescendants
  /\ descendants' = descendants + 1 /\ UNCHANGED <<leader, unreaped, escaped, output>>

LeaderDies ==
  /\ GroupStep /\ leader = "alive" /\ leader' = "zombie"
  /\ UNCHANGED <<descendants, unreaped, escaped, output>>

DescendantDies ==
  /\ GroupStep /\ descendants > 0 /\ descendants' = descendants - 1
  /\ unreaped' = TRUE /\ UNCHANGED <<leader, escaped, output>>

Reaped ==
  /\ GroupStep /\ unreaped /\ unreaped' = FALSE
  /\ UNCHANGED <<leader, descendants, escaped, output>>

\* A descendant starts a session of its own, with stdout still open.
Escape ==
  /\ GroupStep /\ mode = "captured" /\ descendants > 0 /\ ~escaped
  /\ descendants' = descendants - 1 /\ escaped' = TRUE
  /\ UNCHANGED <<leader, unreaped, output>>

EscapeeDies ==
  /\ GroupStep /\ escaped /\ escaped' = FALSE
  /\ UNCHANGED <<leader, descendants, unreaped, output>>

Write ==
  /\ GroupStep /\ mode = "captured" /\ (Live \/ escaped) /\ Produce
  /\ UNCHANGED group

\* Mutated form of Exited: the deadline stays armed.
ExitedArmed == UNCHANGED timers

\* The "exit" event clears the timers.
Exited == timers' = FALSE

ExitEvent ==
  /\ Event /\ pc # "spawning" /\ leader = "zombie"
  /\ leader' = "reaped" /\ exitSeen' = TRUE /\ orphanCheck' = "due"
  /\ Exited
  /\ UNCHANGED <<mode, main, asked, check, confirmed, term, worker, poll,
                 descendants, unreaped, escaped, output>>

SeemsAlone == LooksEmpty

\* exitDescendantCheckPromise.
OrphanCheck ==
  /\ Event /\ orphanCheck = "due" /\ orphanCheck' = "done"
  /\ \/ stop # "none" /\ UNCHANGED <<asked, confirmed>>
     \/ /\ stop = "none" /\ LooksLive
        /\ RequestStop("ORPHANED_DESCENDANTS") /\ UNCHANGED confirmed
     \/ /\ stop = "none" /\ SeemsAlone
        /\ confirmed' = TRUE /\ UNCHANGED asked
  /\ UNCHANGED <<mode, main, timers, check, term, worker, poll, group, exitSeen,
                 output>>

-----------------------------------------------------------------------------
(* terminateProcessGroup, for the stop handler or, o = "catch", for the     *)
(* catch block.                                                             *)

After(o) == IF o = "stop" THEN "settle" ELSE "done"

TermBecomes(o, t) == term' = [term EXCEPT ![o] = t]

\* SIGTERM: sent, or there is no such group, or it may not be signalled.
SendTerm(o) ==
  \/ LooksLive /\ TermBecomes(o, "grace") /\ UNCHANGED confirmed
  \/ ~LooksLive /\ TermBecomes(o, After(o)) /\ confirmed' = TRUE
  \/ /\ LooksLive /\ Refusable
     /\ TermBecomes(o, "failed") /\ UNCHANGED confirmed

\* A rejection of stopHandledPromise that nobody awaits ends the process: the
\* function awaits the verification only.
Unheard(o) == o = "stop" /\ pc = "hashing"

Crashes(o) == IF Unheard(o) THEN pc' = "crashed" ELSE UNCHANGED pc

TermStep(o) ==
  /\ Active
  /\ IF term'[o] = "failed" THEN Crashes(o) ELSE UNCHANGED pc
  /\ UNCHANGED <<mode, receipt, asked, check, orphanCheck, worker, poll, group,
                 exitSeen, output>>

\* stopHandledPromise, once the function has got past the spawn.
HandleStop ==
  /\ pc \notin Before /\ stop # "none" /\ term["stop"] = "idle"
  /\ SendTerm("stop") /\ timers' = FALSE
  /\ TermStep("stop")

\* Within the grace period the group is gone, or else SIGKILL is sent.
GraceEnds(o) ==
  /\ term[o] = "grace" /\ ~Due
  /\ \/ LooksEmpty /\ TermBecomes(o, After(o)) /\ confirmed' = TRUE
     \/ LooksLive /\ TermBecomes(o, "kill") /\ UNCHANGED confirmed
     \/ LooksLive /\ Refusable /\ TermBecomes(o, "failed") /\ UNCHANGED confirmed
  /\ UNCHANGED timers /\ TermStep(o)

\* Mutated form of KillConfirmed: a group that was killed is taken to be gone.
KillSufficed == TRUE

KillConfirmed == LooksEmpty

\* POST_KILL_WAIT_MS later.
KillEnds(o) ==
  /\ term[o] = "kill" /\ ~Due
  /\ \/ KillConfirmed /\ confirmed' = TRUE
     \/ LooksLive /\ confirmed' = FALSE
  /\ TermBecomes(o, After(o))
  /\ UNCHANGED timers /\ TermStep(o)

\* The exit is awaited for a moment more.
Settled ==
  /\ term["stop"] = "settle" /\ (exitSeen \/ ~Due) /\ TermBecomes("stop", "done")
  /\ UNCHANGED <<confirmed, timers>> /\ TermStep("stop")

Termination ==
  \/ HandleStop \/ Settled
  \/ \E o \in {"stop", "catch"} : GraceEnds(o) \/ KillEnds(o)

-----------------------------------------------------------------------------
(* hashExecutableAfterLaunch, aborted by the stop handler and the catch.    *)

VerifyEnds(v) ==
  /\ Event /\ verify = "running"
  /\ v = "cancelled" => term["stop"] # "idle" \/ pc \in {"catch", "catchStop", "catchTerm"}
  /\ verify' = v
  /\ UNCHANGED <<mode, main, asked, timers, stable, confirmed, orphanCheck, term,
                 worker, poll, group, exitSeen, output>>

-----------------------------------------------------------------------------
(* The function itself.                                                     *)

Continue(l) == pc' = l /\ UNCHANGED receipt

\* buildReceipt, then `finally'.
Report(state, code, sure) ==
  /\ receipt' = [state |-> state, code |-> code, stable |-> stable, confirmed |-> sure]
  /\ confirmed' = sure /\ pc' = "finally" /\ timers' = FALSE

Step(l) == pc = l /\ UNCHANGED <<mode, exitSeen, orphanCheck>>

Rest == UNCHANGED <<check, term, worker, poll, group, output>>

\* finishPreLaunchStop: also when the worker was late, or failed, after a stop.
PreLaunchStop ==
  /\ Step("start") \/ Step("ready")
  /\ stop # "none"
  /\ Report("STOPPED", stop, TRUE)
  /\ Rest /\ UNCHANGED asked

\* The sink, the worker or spawn throws, or the worker is not ready in time.
PreLaunchError ==
  /\ Step("start") \/ Step("ready")
  /\ stop = "none"
  /\ Report("ERROR", "SUPERVISOR_ERROR", TRUE)
  /\ Rest /\ UNCHANGED asked

StartTelemetry ==
  /\ Step("start") /\ stop = "none" /\ mode # "plain"
  /\ worker' = "starting" /\ Continue("ready")
  /\ UNCHANGED <<asked, timers, check, confirmed, term, poll, group, output>>

MayLaunch ==
  /\ (pc = "start" /\ mode = "plain") \/ (pc = "ready" /\ worker = "ready")
  /\ stop = "none"

\* spawn, whose failure is an event that comes later.
Launch ==
  /\ Step("start") \/ Step("ready")
  /\ MayLaunch
  /\ leader' \in {"alive", "none"} /\ timers' = TRUE
  /\ Continue("spawning")
  /\ UNCHANGED <<asked, check, confirmed, term, worker, poll, descendants, unreaped,
                 escaped, output>>

Spawned ==
  /\ Step("spawning") /\ leader # "none"
  /\ verify' = "running" /\ Continue("verifying")
  /\ UNCHANGED <<asked, timers, stable, confirmed, term, worker, poll, group, output>>

SpawnFails ==
  /\ Step("spawning") /\ leader = "none"
  /\ Report("ERROR", "SUPERVISOR_ERROR", TRUE)
  /\ Rest /\ UNCHANGED asked

\* With a stop request the function joins its handler, without one it goes on.
JoinOrRace == Continue(IF stop' = "none" THEN "racing" ELSE "joining")

MainStep(l) == Step(l) /\ UNCHANGED <<term, worker, poll, group>>

\* The verification wins, or ends after the exit: what it found is recorded.
Judge ==
  \/ verify = "equal" /\ stable' = "yes" /\ UNCHANGED asked
  \/ verify = "changed" /\ stable' = "no" /\ RequestStop("EXECUTABLE_CHANGED")

VerifyWins ==
  /\ MainStep("verifying") /\ stop = "none"
  /\ Judge /\ JoinOrRace
  /\ UNCHANGED <<timers, verify, confirmed, output>>

StopWins ==
  /\ MainStep("verifying") /\ stop # "none"
  /\ Continue("joining")
  /\ UNCHANGED <<asked, timers, check, confirmed, output>>

\* Mutated form of ExitWins: the exit ends the wait for the verification.
ExitUnverified ==
  /\ MainStep("verifying") /\ exitSeen
  /\ Continue("racing")
  /\ UNCHANGED <<asked, timers, check, confirmed, output>>

ExitWins ==
  /\ MainStep("verifying") /\ exitSeen
  /\ Continue("hashing")
  /\ UNCHANGED <<asked, timers, check, confirmed, output>>

HashingEnds ==
  /\ MainStep("hashing")
  /\ \/ Judge
     \/ verify = "cancelled" /\ UNCHANGED <<stable, asked>>
  /\ JoinOrRace
  /\ UNCHANGED <<timers, verify, confirmed, output>>

\* The awaits of stopHandledPromise: where its rejection is thrown.
Throws ==
  /\ term["stop"] = "failed"
  /\ \E l \in {"joining", "racing", "stopping", "lastStop"} : MainStep(l)
  /\ Continue("catch")
  /\ UNCHANGED <<asked, timers, check, confirmed, output>>

Joined ==
  /\ MainStep("joining") /\ term["stop"] = "done" /\ verify # "running"
  /\ Continue("racing")
  /\ UNCHANGED <<asked, timers, check, confirmed, output>>

First == IF mode = "captured" THEN "draining"
         ELSE IF mode = "observed" THEN "polling" ELSE "lastStop"

\* The exit or the handler, whichever is first, disarms the timers.
RaceEnds ==
  /\ MainStep("racing") /\ timers' = FALSE
  /\ \/ exitSeen /\ Continue("orphans")
     \/ term["stop"] = "done" /\ Continue(First)
  /\ UNCHANGED <<asked, check, confirmed, output>>

OrphansChecked ==
  /\ MainStep("orphans") /\ orphanCheck = "done"
  /\ Continue(IF stop = "none" THEN First ELSE "stopping")
  /\ UNCHANGED <<asked, timers, check, confirmed, output>>

Stopped ==
  /\ MainStep("stopping") /\ term["stop"] = "done"
  /\ Continue(First)
  /\ UNCHANGED <<asked, timers, check, confirmed, output>>

-----------------------------------------------------------------------------
(* The output and the telemetry are brought to their end, each wait bounded.*)

WrapStep(l) == MainStep(l) /\ UNCHANGED <<timers, check, confirmed>>

\* What ends a wait here is an event: an answer, or the wait's deadline.
WaitStep(l) == WrapStep(l) /\ ~Due

Drained ==
  /\ WrapStep("draining") /\ stream # "open"
  /\ BeginClose /\ Continue("flushing") /\ UNCHANGED asked

\* Mutated form of DrainOverdue: what could not be drained is not reported.
DrainOverdueSilent == UNCHANGED asked

DrainOverdue == RequestOutputFailure

\* STDOUT_STREAM_DRAIN_WAIT_MS; destroy() closes the stream.
DrainTimeout ==
  /\ WaitStep("draining")
  /\ StreamCloses /\ DrainOverdue /\ Continue("destroying")

Destroyed ==
  /\ WaitStep("destroying")
  /\ BeginClose /\ Continue("flushing") /\ UNCHANGED asked

Flushed ==
  /\ WaitStep("flushing")
  /\ FlushCapture /\ Continue("mirroring") /\ UNCHANGED asked

\* Mutated form of FlushFails: a write that never ends is waited for.
FlushRejected ==
  /\ WaitStep("flushing") /\ capture = "failed"
  /\ AbandonCapture /\ RequestOutputFailure /\ Continue("mirroring")

\* Rejected, or CAPTURE_FLUSH_WAIT_MS later.
FlushFails ==
  /\ WaitStep("flushing")
  /\ AbandonCapture /\ RequestOutputFailure /\ Continue("mirroring")

Mirrored ==
  /\ WrapStep("mirroring") /\ mirror = "idle"
  /\ Continue("polling") /\ UNCHANGED <<asked, output>>

MirrorOverdue ==
  /\ WrapStep("mirroring") /\ mirror # "idle"
  /\ AbandonMirror /\ RequestOutputFailure /\ Continue("polling")

NoPollLeft ==
  /\ WrapStep("polling") /\ ~poll
  /\ Continue("finalPoll") /\ UNCHANGED <<asked, output>>

\* The terminal poll.
FinalPoll(breach) ==
  /\ WaitStep("finalPoll") /\ worker = "ready"
  /\ IF breach THEN RequestStop("TELEMETRY") ELSE UNCHANGED asked
  /\ Continue("closing") /\ UNCHANGED output

WorkerCloses ==
  /\ Step("closing") /\ ~Due
  /\ worker' = "closed" /\ Continue("lastStop")
  /\ UNCHANGED <<asked, timers, check, confirmed, term, poll, group, output>>

\* A poll in flight, the final poll or the closing fails or takes too long.
TelemetryThrows ==
  /\ \/ WaitStep("polling") /\ poll
     \/ WaitStep("finalPoll") \/ WaitStep("closing")
  /\ Continue("catch") /\ UNCHANGED <<asked, output>>

\* Mutated form of Reason: an earlier stop hides the failure of the output.
ReasonFirst ==
  IF ~confirmed THEN "SUPERVISOR_ERROR"
  ELSE IF stop # "none" THEN stop
  ELSE IF outputFailure THEN "SUPERVISOR_ERROR" ELSE "none"

\* receiptStop.
Reason == IF ~confirmed \/ outputFailure THEN "SUPERVISOR_ERROR" ELSE stop

State(code) == IF code = "none" THEN "EXITED"
               ELSE IF code \in Errors THEN "ERROR" ELSE "STOPPED"

Conclude ==
  /\ Step("lastStop") /\ (stop = "none" \/ term["stop"] = "done")
  /\ Report(State(Reason), Reason, confirmed)
  /\ Rest /\ UNCHANGED asked

-----------------------------------------------------------------------------
(* The catch block after the launch, and `finally'.                         *)

CatchStopped ==
  /\ MainStep("catch") /\ stop # "none"
  /\ Continue("catchStop")
  /\ UNCHANGED <<asked, timers, check, confirmed, output>>

CatchLive ==
  /\ Step("catch") /\ stop = "none" /\ LooksLive
  /\ SendTerm("catch") /\ Continue("catchTerm")
  /\ UNCHANGED <<asked, timers, check, worker, poll, group, output>>

CatchEmpty ==
  /\ Step("catch") /\ stop = "none" /\ LooksEmpty
  /\ Report("ERROR", "SUPERVISOR_ERROR", TRUE)
  /\ Rest /\ UNCHANGED asked

\* The termination that the catch block waits for has ended, or was refused.
CaughtBy(l, o) ==
  /\ Step(l) /\ term[o] \in {"done", "failed"}
  /\ Report("ERROR", "SUPERVISOR_ERROR", confirmed /\ term[o] = "done")
  /\ Rest /\ UNCHANGED asked

Caught == CaughtBy("catchStop", "stop") \/ CaughtBy("catchTerm", "catch")

\* Without a flush before, the sink is closed here, with no bound on its writes.
Finally ==
  /\ Step("finally")
  /\ (mode = "captured" /\ sink = "open") => capture # "busy"
  /\ Continue("done")
  /\ UNCHANGED <<asked, timers, confirmed>> /\ Rest

-----------------------------------------------------------------------------

PreLaunch == PreLaunchStop \/ PreLaunchError \/ StartTelemetry \/ Launch

Verification == VerifyWins \/ StopWins \/ ExitWins \/ HashingEnds

Joining == Throws \/ Joined \/ RaceEnds \/ OrphansChecked \/ Stopped

DrainOutput ==
  \/ Drained \/ DrainTimeout \/ Destroyed
  \/ Flushed \/ FlushFails \/ Mirrored \/ MirrorOverdue

EndTelemetry ==
  \/ NoPollLeft \/ TelemetryThrows \/ WorkerCloses
  \/ \E breach \in BOOLEAN : FinalPoll(breach)

Catch == CatchStopped \/ CatchLive \/ CatchEmpty \/ Caught

Main ==
  \/ PreLaunch \/ Spawned \/ SpawnFails \/ Verification \/ Joining
  \/ DrainOutput \/ EndTelemetry \/ Conclude \/ Catch \/ Finally

Group ==
  \/ Fork \/ LeaderDies \/ DescendantDies \/ Reaped \/ Escape \/ EscapeeDies \/ Write

Output ==
  \/ ChunkRelayed \/ ChunkRefused \/ ChunkLost \/ CaptureSettles \/ MirrorSettles
  \/ OutputEnds \/ OutputBreaks

Polls == PollBegins \/ PollFails \/ \E breach \in BOOLEAN : PollAnswered(breach)

Hashed == \E v \in {"equal", "changed", "cancelled"} : VerifyEnds(v)

Next ==
  \/ Main \/ Termination \/ Hashed \/ ExitEvent \/ OrphanCheck
  \/ Signal \/ TimeLimit \/ Polls \/ WorkerStarts \/ WorkerDies
  \/ Group \/ Output

Spec == Init /\ [][Next]_vars

(***************************************************************************)
(* The event loop runs: timers fire, settled promises are taken up, the    *)
(* hashing and, when `finally' waits for them, the writes of the capture   *)
(* come to an end.  Nothing is assumed of the processes of the group, of   *)
(* the telemetry worker, of the mirror or of signals.                      *)
(***************************************************************************)
Fairness ==
  /\ WF_vars(Main) /\ WF_vars(Termination) /\ WF_vars(Hashed)
  /\ WF_vars(OrphanCheck) /\ WF_vars(ExitEvent) /\ WF_vars(TimeLimit)
  /\ WF_vars(pc = "finally" /\ CaptureSettles)

FairSpec == Spec /\ Fairness

-----------------------------------------------------------------------------
(* What a receipt may be relied on for.                                     *)

\* A run that counts as EXITED is one whose exit was seen, whose executable
\* was verified after the launch and found the same, and that nothing asked to
\* stop until the receipt was built, whichever of the exit, the verification,
\* the descendants' check, the last poll and a signal came first.
ExitedVerified ==
  receipt.state = "EXITED" => exitSeen /\ receipt.stable = "yes" /\ stop = "none"

\* "Agent Vigil does not silently certify a partial transcript": when a captured
\* run is EXITED, all that its processes wrote is in the file and on stdout.
ExitedWhole ==
  receipt.state = "EXITED" /\ mode = "captured" =>
     written = produced /\ mirrored = produced

\* A receipt that confirms the termination of the process group is never
\* wrong: no member is alive, whatever forked, died or was signalled since the
\* check that confirmed it.
ContainedMeansGone == receipt.confirmed => ~Live

\* A failure of the supervisor itself - an output it lost, a group it could not
\* end - makes the receipt an ERROR, also when a limit had stopped the run.
FailureShown ==
  receipt.state # "none" /\ (~receipt.confirmed \/ outputFailure) =>
     receipt.state = "ERROR"

\* A run whose exit was seen is not relabelled a timeout while its verification,
\* its output and its telemetry are still being brought to an end.
NotRelabelled ==
  [][exitSeen /\ stop' = "TIME_LIMIT" => stop = "TIME_LIMIT"]_vars

\* However the command, the telemetry worker, the consumer of stdout and the
\* capture behave, the run comes to a receipt.
EndsWithReceipt == <>(receipt.state # "none" /\ pc = "done")
=============================================================================
