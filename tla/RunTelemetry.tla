------------------------------ MODULE RunTelemetry ------------------------------
(***************************************************************************)
(* The telemetry of a protected run: the monitor in the supervisor's thread*)
(* (run-telemetry.ts, class RunTelemetryMonitor), the worker thread        *)
(* (run-telemetry-worker.ts) that keeps a TelemetryCore, the messages      *)
(* between them, the process that writes the transcript, and the use that  *)
(* executeProtectedRun makes of the monitor (run-supervisor.ts 747-770,    *)
(* 791-803, 993-1016, 1095).                                               *)
(*                                                                         *)
(* Anything may happen to an external file while nobody looks; the captured*)
(* stdout only grows.  The worker may die at any time, and a wait of the   *)
(* supervisor may end before the worker has answered.                      *)
(***************************************************************************)
EXTENDS TelemetryCore

CONSTANTS
  Written,                      \* the kinds of lines that are appended
  Found,                        \* what a file holds at first, or is rewritten to
  MaxTime, MaxWrites, MaxPolls  \* bounds: the clock, changes, polls

ASSUME BoundsAssumption ==
  /\ Written \subseteq LineKinds /\ Found \subseteq Transcripts
  /\ {MaxTime, MaxWrites, MaxPolls} \subseteq Nat

VARIABLES
  transport,   \* "external-file" or "supervisor-captured-stdout"
  now,         \* monotonicNowMs
  file,        \* the external file
  sent,        \* the captured stdout, as the monitor has posted it
  writes,      \* changes of the transcript so far
  worker,      \* "starting", "up", "dead"
  core,        \* the worker's RunTelemetryCore
  inbox,       \* messages to the worker
  outbox,      \* messages to the monitor
  ready,       \* readyPromise: "pending", "fulfilled", "rejected"
  failed,      \* the monitor's `failed' is set
  closed,      \* the monitor's `closed'
  polls,       \* polls so far
  poll,        \* the promise of the poll in flight: "idle" when there is none,
               \* "pending", "rejected", or the verdict it was resolved with
  phase,       \* the supervisor: "ready", "running", "waiting" (for a poll in
               \* flight), "final", "closing", "done"
  exited,      \* exitObservedAtMonotonicMs: when the child was seen to exit
  outcome,     \* "none", "clean", "error", or the first breach it was told of
  read         \* history: the transcript as the worker found it when it began
               \* and when it last answered

vars == <<transport, now, file, sent, writes, worker, core, inbox, outbox, ready,
          failed, closed, polls, poll, phase, exited, outcome, read>>

thread == <<ready, failed, closed, polls, poll, phase, exited, outcome>>
world  == <<transport, now, file, sent, writes>>

External == transport = "external-file"

Init ==
  /\ transport \in {"external-file", "supervisor-captured-stdout"}
  /\ now = 0 /\ sent = Empty /\ writes = 0
  /\ file \in [kind : {"absent"}, raw : {Empty}, replaced : {FALSE},
               touched : {FALSE}]
        \cup [kind : {"regular"}, raw : Found, replaced : {FALSE},
              touched : {FALSE}]
  /\ ~External => file.kind = "absent"
  /\ worker = "starting" /\ core = NewCore(0)
  /\ inbox = <<>> /\ outbox = <<>>
  /\ ready = "pending" /\ failed = FALSE /\ closed = FALSE
  /\ polls = 0 /\ poll = "idle" /\ phase = "ready" /\ exited = None
  /\ outcome = "none"
  /\ read = [base |-> Empty, last |-> Empty]

(***************************************************************************)
(* The world.                                                              *)
(***************************************************************************)
Chunks == Written \cup {"tail"}

\* Whether the transcript may still be looked at.
Watched == phase \notin {"closing", "done"}

Tick == /\ Watched /\ now < MaxTime /\ now' = now + 1
        /\ UNCHANGED <<transport, file, sent, writes, worker, core, inbox, outbox,
                       thread, read>>

Change(new) ==
  /\ Watched /\ External /\ writes < MaxWrites /\ writes' = writes + 1
  /\ file' = new
  /\ UNCHANGED <<transport, now, sent, worker, core, inbox, outbox, thread, read>>

\* The agent appends to its transcript, or creates it.
AppendToFile ==
  \E chunk \in Chunks :
    Change([kind |-> "regular", touched |-> TRUE,
            replaced |-> file.kind # "regular" \/ file.replaced,
            raw |-> With(IF file.kind = "regular" THEN file.raw ELSE Empty, chunk)])

\* Its time of change is set, it is truncated, rewritten in place, replaced by
\* another file, or removed.
Touch == file.kind = "regular" /\ Change([file EXCEPT !.touched = TRUE])
Truncate == file.kind = "regular" /\ file.raw # Empty
              /\ Change([file EXCEPT !.raw = Empty, !.touched = TRUE])
Rewrite == \E raw \in Found \ {Empty} :
             /\ file.kind = "regular" /\ file.raw # raw
             /\ Change([file EXCEPT !.raw = raw, !.touched = TRUE])
Replace == file.kind = "regular"
             /\ Change([file EXCEPT !.replaced = TRUE, !.touched = TRUE])
Delete == /\ file.kind = "regular"
          /\ \E kind \in {"absent", "other"} :
               Change([file EXCEPT !.kind = kind, !.raw = Empty])

\* The worker thread dies.
WorkerDies ==
  /\ Watched /\ worker # "dead" /\ worker' = "dead"
  /\ UNCHANGED <<world, core, inbox, outbox, thread, read>>

(***************************************************************************)
(* The worker.                                                             *)
(***************************************************************************)
\* The constructor reads the file that is there; what it cannot read or parse
\* is thrown, and ends the worker.
Boot ==
  /\ worker = "starting"
  /\ LET there == External /\ file.kind # "absent"
         bad   == \/ file.kind = "other" \/ Size(file.raw) > MaxSize
                  \/ Size(file.raw) > 0 /\ ~Readable(file.raw)
     IN \/ /\ there
           /\ worker' = "dead" /\ outbox' = Append(outbox, [kind |-> "error"])
           /\ UNCHANGED <<world, core, inbox, thread, read>>
        \/ /\ ~(there /\ bad)
           /\ worker' = "up" /\ outbox' = Append(outbox, [kind |-> "ready"])
           /\ core' = IF there THEN Baseline(core, file.raw) ELSE core
           /\ file' = [file EXCEPT !.touched = FALSE, !.replaced = FALSE]
           /\ read' = [read EXCEPT !.base = IF there THEN file.raw ELSE Empty]
           /\ UNCHANGED <<transport, now, sent, writes, inbox, thread>>

\* poll, in the worker: it answers with what it found.
Answer(msg, after) ==
  LET final == IF msg.enforce \/ after.breach # "none"
               THEN Verdict(after, msg.now, msg.terminal) ELSE "none"
  IN /\ core' = after
     /\ outbox' = Append(outbox, [kind |-> "result", verdict |-> final])
     /\ inbox' = Tail(inbox)

WorkerPolls ==
  /\ worker = "up" /\ inbox # <<>> /\ Head(inbox).kind = "poll"
  /\ LET msg == Head(inbox) IN
     \/ /\ core.breach # "none" /\ Answer(msg, core)
        /\ UNCHANGED <<file, read>>
     \/ /\ core.breach = "none" /\ ~External
        /\ Answer(msg, ReadCaptured(core, msg.now))
        /\ read' = [read EXCEPT !.last = core.captured]
        /\ UNCHANGED file
     \/ /\ core.breach = "none" /\ External
        /\ \E torn \in BOOLEAN :
             /\ Answer(msg, ReadExternal(core, file, torn, msg.now))
             /\ file' = IF torn \/ file.kind # "regular" THEN file
                        ELSE [file EXCEPT !.touched = FALSE, !.replaced = FALSE]
             /\ read' = [read EXCEPT !.last = file.raw]
  /\ UNCHANGED <<transport, now, sent, writes, worker, thread>>

WorkerStarts ==
  /\ worker = "up" /\ inbox # <<>> /\ Head(inbox).kind = "start"
  /\ core' = Started(core, Head(inbox).now) /\ inbox' = Tail(inbox)
  /\ UNCHANGED <<world, worker, outbox, thread, read>>

WorkerAppends ==
  /\ worker = "up" /\ inbox # <<>> /\ Head(inbox).kind = "append"
  /\ core' = Captured(core, Head(inbox).chunk) /\ inbox' = Tail(inbox)
  /\ UNCHANGED <<world, worker, outbox, thread, read>>

(***************************************************************************)
(* The monitor.                                                            *)
(***************************************************************************)
\* fail, once: everything that is pending is rejected.
Fail ==
  /\ failed' = TRUE
  /\ ready' = IF ready = "pending" THEN "rejected" ELSE ready
  /\ poll' = IF poll = "pending" THEN "rejected" ELSE poll

\* handleMessage
HandleMessage ==
  /\ outbox # <<>> /\ outbox' = Tail(outbox)
  /\ LET msg == Head(outbox) IN
     \/ /\ msg.kind = "ready"
        /\ ready' = IF ready = "pending" THEN "fulfilled" ELSE ready
        /\ UNCHANGED <<failed, poll>>
     \/ /\ msg.kind = "result"
        /\ poll' = IF poll = "pending" THEN msg.verdict ELSE poll
        /\ UNCHANGED <<failed, ready>>
     \/ /\ msg.kind = "error"
        /\ IF failed THEN UNCHANGED <<failed, ready, poll>> ELSE Fail
  /\ UNCHANGED <<world, worker, core, inbox, closed, polls, phase, exited,
                 outcome, read>>

\* The worker's "error" or "exit" event.
WorkerGone ==
  /\ worker = "dead" /\ ~closed /\ ~failed /\ Fail
  /\ UNCHANGED <<world, worker, core, inbox, outbox, closed, polls, phase,
                 exited, outcome, read>>

(***************************************************************************)
(* The supervisor.                                                         *)
(***************************************************************************)
Post(msg) == inbox' = Append(inbox, msg)

First(what) == IF outcome = "none" THEN what ELSE outcome

\* Awaiting ready() came to an end; the launch follows it.
Start ==
  /\ phase = "ready"
  /\ IF ready = "fulfilled" /\ ~failed
     THEN /\ phase' = "running" /\ Post([kind |-> "start", now |-> now])
          /\ UNCHANGED outcome
     ELSE /\ ready # "pending" /\ phase' = "closing" /\ outcome' = "error"
          /\ UNCHANGED inbox
  /\ UNCHANGED <<world, worker, core, outbox, ready, failed, closed, polls, poll,
                 exited, read>>

\* The child writes to the stdout that is captured.
AppendCaptured ==
  /\ phase = "running" /\ ~External /\ writes < MaxWrites
  /\ \E chunk \in Chunks :
       IF failed
       THEN /\ outcome' = First("error")
            /\ UNCHANGED <<sent, inbox>>
       ELSE /\ Post([kind |-> "append", chunk |-> chunk])
            /\ sent' = With(sent, chunk)
            /\ outcome' = IF Size(sent') > MaxSize THEN First("TRANSCRIPT_SIZE")
                          ELSE outcome
  /\ writes' = writes + 1
  /\ UNCHANGED <<transport, now, file, worker, core, outbox, ready, failed, closed,
                 polls, poll, phase, exited, read>>

\* poll: it is refused when the worker has failed.
Ask(time, terminal) ==
  /\ polls' = polls + 1
  /\ IF failed THEN poll' = "rejected" /\ UNCHANGED inbox
     ELSE /\ poll' = "pending"
          /\ Post([kind |-> "poll", now |-> time, enforce |-> TRUE,
                   terminal |-> terminal])

\* The interval asks when no poll is in flight (792).
PollOnInterval ==
  /\ phase = "running" /\ poll = "idle" /\ polls < MaxPolls /\ Ask(now, FALSE)
  /\ UNCHANGED <<world, worker, core, outbox, ready, failed, closed, phase, outcome,
                 exited, read>>

\* A poll of the interval was settled (793-802).
PollSettled ==
  /\ phase \in {"running", "waiting"} /\ poll \notin {"idle", "pending"}
  /\ outcome' = CASE poll = "none" -> outcome
                  [] poll = "rejected" -> First("error")
                  [] OTHER -> First(poll)
  /\ poll' = "idle"
  /\ UNCHANGED <<world, worker, core, inbox, outbox, ready, failed, closed, polls,
                 phase, exited, read>>

\* The child was seen to exit, or a stop ended the wait for that.
ChildExits ==
  /\ phase = "running" /\ phase' = "waiting"
  /\ exited' \in {now, None}
  /\ UNCHANGED <<world, worker, core, inbox, outbox, ready, failed, closed, polls,
                 poll, outcome, read>>

\* The last poll is judged at the time of the exit, not of the poll.
FinalPoll ==
  /\ phase = "waiting" /\ poll = "idle" /\ phase' = "final"
  /\ Ask(IF exited = None THEN now ELSE exited, TRUE)
  /\ UNCHANGED <<world, worker, core, outbox, ready, failed, closed, exited, outcome,
                 read>>

FinalAnswered ==
  /\ phase = "final" /\ poll # "pending" /\ phase' = "closing"
  /\ outcome' = CASE poll = "rejected" -> First("error")
                  [] poll = "none" -> First("clean")
                  [] OTHER -> First(poll)
  /\ UNCHANGED <<world, worker, core, inbox, outbox, ready, failed, closed, polls,
                 poll, exited, read>>

\* settlementWithin gives up on ready, on the poll in flight or on the final one.
GiveUp ==
  /\ \/ phase = "ready" /\ ready = "pending"
     \/ phase \in {"waiting", "final"} /\ poll = "pending"
  /\ phase' = "closing" /\ outcome' = First("error")
  /\ UNCHANGED <<world, worker, core, inbox, outbox, ready, failed, closed, polls,
                 poll, exited, read>>

\* Mutated form of Close: a poll that is pending is left to the worker.
CloseOnly ==
  /\ phase = "closing" /\ phase' = "done"
  /\ closed' = TRUE /\ worker' = "dead"
  /\ UNCHANGED <<world, core, inbox, outbox, ready, failed, polls, poll, exited,
                 outcome, read>>

\* close: what is still pending is rejected, and the worker ended.
Close ==
  /\ phase = "closing" /\ phase' = "done"
  /\ closed' = TRUE /\ worker' = "dead"
  /\ poll' = IF poll = "pending" THEN "rejected" ELSE poll
  /\ UNCHANGED <<world, core, inbox, outbox, ready, failed, polls, exited, outcome, read>>

Next ==
  \/ Tick \/ AppendToFile \/ Touch \/ Truncate \/ Rewrite \/ Replace \/ Delete
  \/ WorkerDies \/ Boot \/ WorkerPolls \/ WorkerStarts \/ WorkerAppends
  \/ HandleMessage \/ WorkerGone
  \/ Start \/ AppendCaptured \/ PollOnInterval \/ PollSettled \/ ChildExits
  \/ FinalPoll \/ FinalAnswered \/ GiveUp \/ Close

Spec == Init /\ [][Next]_vars

\* The event loop runs, and the wall clock ends the run; of the worker nothing is
\* assumed.
FairSpec ==
  /\ Spec
  /\ WF_vars(Start) /\ WF_vars(ChildExits) /\ WF_vars(PollSettled)
  /\ WF_vars(FinalPoll) /\ WF_vars(FinalAnswered)
  /\ WF_vars(GiveUp) /\ WF_vars(Close)

(***************************************************************************)
(* Properties.                                                             *)
(***************************************************************************)
\* What the lines say, counted without the worker's operators.
Of(kind, lines) == {i \in DOMAIN lines : lines[i] = kind}
Calls(lines) == Of("call", lines)
\* A call failed if an error follows it and neither a call in between nor, before
\* the next call, a success.
Failed(lines) ==
  {i \in Calls(lines) : \E j \in Of("error", lines) :
     /\ i < j /\ \A k \in Calls(lines) : ~(i < k /\ k < j)
     /\ \A k \in Of("ok", lines) :
          j < k => \E l \in Calls(lines) : j < l /\ l < k}
FailedRow(lines, n) ==
  \E first, last \in Calls(lines) :
    LET row == {i \in Calls(lines) : first <= i /\ i <= last} IN
    Cardinality(row) = n /\ row \subseteq Failed(lines)

Within(lines, base) ==
  LET own == SubSeq(lines, Len(base) + 1, Len(lines)) IN
  /\ Limits.calls # None => Cardinality(Calls(own)) <= Limits.calls
  /\ Limits.failed # None => Cardinality(Failed(own)) <= Limits.failed
  /\ Limits.identical # None => Cardinality(Calls(own)) <= Limits.identical
  /\ Limits.streak # None => ~FailedRow(own, Limits.streak + 1)
  /\ Limits.tokens # None =>
       /\ Of("usage", lines) # {}
       /\ Cardinality(Of("usage", own)) <= Limits.tokens

\* A run that ends without a breach had a transcript that was whole when it was
\* read for the last time, began with what was there before the run, held all
\* that was captured, and kept every limit (run-telemetry.ts, poll; 1001-1009).
CleanMeansWithin ==
  outcome = "clean" =>
    /\ ~read.last.tail /\ Of("junk", read.last.lines) = {}
    /\ Extends(read.last, read.base)
    /\ ~External => read.last = sent
    /\ \/ \A limit \in DOMAIN Limits : Limits[limit] = None
       \/ read.last.lines # <<>> /\ Within(read.last.lines, read.base.lines)

\* A breach of the transcript's integrity is never taken back, and what was
\* counted is never counted away: no call is forgotten, nor that one was completed
\* (run-telemetry.ts 178, 208-211, 303-309).  That a call failed may be: a later
\* result replaces the one before it (transcript.ts 233-241).
NeverForgets ==
  [][ /\ core.breach # "none" => core'.breach # "none"
      /\ core.completed \subseteq core'.completed
      /\ \A number \in {"calls", "identical"} :
           core'.metrics[number] >= core.metrics[number] ]_vars

\* In the end the monitor is closed and no poll is left pending, whether the
\* worker answers, hangs or dies.  The promise of ready() may be: where waiting
\* for it was given up, close does not reject it (run-telemetry.ts 451-459).
PollsSettle == <>[](phase = "done" /\ poll # "pending")

=============================================================================
