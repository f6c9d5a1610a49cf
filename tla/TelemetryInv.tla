------------------------------ MODULE TelemetryInv ------------------------------
(***************************************************************************)
(* The inductive invariant of RunTelemetry: the worker's numbers are those *)
(* of the transcript that it has read, a poll that is pending is one       *)
(* message or one answer, and the last poll is behind everything else that *)
(* was sent to the worker.                                                 *)
(***************************************************************************)
EXTENDS RunTelemetry

Breaches ==
  {"TRANSCRIPT_SIZE", "TELEMETRY_INTEGRITY", "TELEMETRY_MISSING",
   "TELEMETRY_UNREADABLE", "TOKEN_USAGE_UNAVAILABLE", "TOOL_CALL_LIMIT",
   "FAILED_TOOL_CALL_LIMIT", "IDENTICAL_TOOL_CALL_LIMIT",
   "CONSECUTIVE_FAILURE_LIMIT", "OBSERVED_TOKEN_LIMIT", "NO_PROGRESS"}

Files == [kind : {"absent", "regular", "other"}, raw : Transcripts,
          replaced : BOOLEAN, touched : BOOLEAN]

Numbers == [calls : Nat, failed : Nat, identical : Nat, streak : Nat]

Cores ==
  [known : BOOLEAN, previous : Transcripts, latest : Transcripts \cup {None},
   baseCalls : Nat, baseTokens : Nat,
   status : {"WAITING", "READY", "PARTIAL", "UNREADABLE"},
   errorSince : Nat \cup {None}, partialSince : Nat \cup {None},
   metrics : Numbers, tokens : Nat \cup {None}, completed : SUBSET Nat,
   startedAt : Nat, progressAt : Nat, captured : Transcripts, dirty : BOOLEAN,
   breach : Breaches \cup {"none"}]

Messages ==
  [kind : {"start"}, now : Nat]
    \cup [kind : {"append"}, chunk : LineKinds \cup {"tail"}]
    \cup [kind : {"poll"}, now : Nat, enforce : BOOLEAN, terminal : BOOLEAN]

Reports ==
  [kind : {"ready", "error"}]
    \cup [kind : {"result"}, verdict : Breaches \cup {"none"}]

TypeOK ==
  /\ transport \in {"external-file", "supervisor-captured-stdout"}
  /\ now \in Nat /\ file \in Files /\ sent \in Transcripts /\ writes \in Nat
  /\ worker \in {"starting", "up", "dead"} /\ core \in Cores
  /\ inbox \in Seq(Messages) /\ outbox \in Seq(Reports)
  /\ ready \in {"pending", "fulfilled", "rejected"}
  /\ failed \in BOOLEAN /\ closed \in BOOLEAN /\ polls \in Nat
  /\ poll \in {"idle", "pending", "rejected", "none"} \cup Breaches
  /\ phase \in {"ready", "running", "waiting", "final", "closing", "done"}
  /\ exited \in Nat \cup {None}
  /\ outcome \in {"none", "clean", "error"} \cup Breaches
  /\ read \in [base : Transcripts, last : Transcripts]

\* Nothing has been sent to a worker that is starting, and nothing said by it.
StartInv ==
  /\ worker = "starting" =>
       /\ core = NewCore(0) /\ inbox = <<>> /\ outbox = <<>>
       /\ ready # "fulfilled" /\ sent = Empty /\ read.base = Empty
  /\ phase \in {"running", "waiting", "final"} => ready = "fulfilled"

\* The transcript that a worker's numbers are about.
Seen(c, base) == IF c.latest = None THEN base ELSE c.latest

\* What is remembered of the transcript before the run.
Based(c, base) ==
  /\ c.baseCalls = Cardinality(Actions(base.lines))
  /\ c.baseTokens = Count("usage", base.lines)

\* The numbers are those of what was seen, if it could be parsed.
Counted(c, lines) ==
  /\ c.metrics = Metrics(lines, Slice(Actions(lines), c.baseCalls))
  /\ c.tokens # None =>
       /\ Of("usage", lines) # {}
       /\ c.tokens = Count("usage", lines) - c.baseTokens

Numbered(c, base) ==
  c.breach = "none" =>
    /\ Whole(Seen(c, base).lines) => Counted(c, Seen(c, base).lines)
    /\ c.errorSince = None =>
         /\ Whole(Seen(c, base).lines)
         /\ c.partialSince = None => ~Seen(c, base).tail
    /\ c.status = "UNREADABLE" => c.errorSince # None

\* What was seen of a file is what was read of it.
FollowsFile(c, base) ==
  /\ Seen(c, base) = c.previous /\ Extends(c.previous, base)
  /\ ~c.known => c.latest = None /\ base = Empty
  /\ c.latest # None => Size(c.previous) > 0
  /\ ~c.known /\ c.errorSince = None /\ c.breach = "none" => c.status = "WAITING"

\* What was seen of the captured stdout is how it began.
FollowsCaptured(c, base) ==
  /\ base = Empty
  /\ IsPrefix(Seen(c, base).lines, c.captured.lines)
  /\ ~c.dirty => Seen(c, base) = c.captured
  /\ c.dirty => Size(c.captured) > 0

CoreInv(c, base, external) ==
  /\ Based(c, base) /\ Numbered(c, base)
  /\ external => FollowsFile(c, base)
  /\ ~external => FollowsCaptured(c, base)

\* A file that nobody touched is the one that was read.
FileInv ==
  /\ file.kind # "regular" => file.raw = Empty
  /\ External /\ core.known /\ core.breach = "none" /\ file.kind = "regular"
       /\ ~file.touched => file.raw = core.previous

\* Where the messages of a kind are.
Where(kind, box) == {i \in DOMAIN box : box[i].kind = kind}

PollsIn(box) == Where("poll", box)
ResultsIn(box) == Where("result", box)

\* A poll that is pending is one message, or one answer, and nothing else is.
PendingInv ==
  /\ failed => poll # "pending"
  /\ phase = "final" => poll # "idle"
  /\ ~failed /\ phase \notin {"closing", "done"} =>
       /\ poll # "pending" => PollsIn(inbox) = {} /\ ResultsIn(outbox) = {}
       /\ poll = "pending" =>
            \/ ResultsIn(outbox) = {} /\ \A i, j \in PollsIn(inbox) : i = j
            \/ PollsIn(inbox) = {} /\ \A i, j \in ResultsIn(outbox) : i = j

\* What CleanMeansWithin says of a run that was clean.
Kept ==
  /\ ~read.last.tail /\ Of("junk", read.last.lines) = {}
  /\ Extends(read.last, read.base)
  /\ ~External => read.last = sent
  /\ \/ \A limit \in DOMAIN Limits : Limits[limit] = None
     \/ read.last.lines # <<>> /\ Within(read.last.lines, read.base.lines)

\* The last poll is the last message; its answer tells the truth.
FinalInv ==
  /\ phase = "final" /\ poll = "pending" =>
       \/ /\ inbox # <<>> /\ ResultsIn(outbox) = {}
          /\ PollsIn(inbox) = {Len(inbox)}
          /\ inbox[Len(inbox)].enforce /\ inbox[Len(inbox)].terminal
       \/ /\ inbox = <<>>
          /\ \A i \in ResultsIn(outbox) : outbox[i].verdict = "none" => Kept
  /\ phase = "final" /\ poll = "none" => inbox = <<>> /\ Kept
  /\ outcome = "clean" =>
       phase \in {"closing", "done"} /\ worker # "starting" /\ inbox = <<>> /\ Kept

\* What a message does to the transcript that is captured.
Effect(raw, msg) ==
  IF msg.kind = "append" THEN With(raw, msg.chunk) ELSE raw

\* The messages of the box, one by one, make `last' of `first'.
Carries(first, box, last) ==
  \E h \in [1 .. Len(box) + 1 -> Transcripts] :
    /\ h[1] = first /\ h[Len(box) + 1] = last
    /\ \A i \in 1 .. Len(box) : h[i + 1] = Effect(h[i], box[i])

\* The captured transcript with what is on its way is the one that was sent.
FlowInv ==
  ~External /\ core.breach = "none" => Carries(core.captured, inbox, sent)

TelemetryInv ==
  /\ TypeOK /\ StartInv /\ CoreInv(core, read.base, External) /\ FileInv
  /\ PendingInv /\ FinalInv /\ FlowInv
=============================================================================
