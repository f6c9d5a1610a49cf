----------------------------- MODULE TelemetryCore ------------------------------
(***************************************************************************)
(* What the telemetry worker makes of a transcript (run-telemetry.ts, class*)
(* RunTelemetryCore): an append-only file, or the captured stdout, is read *)
(* at each poll, parsed, compared with what was read before, and held      *)
(* against the limits of the run.  Operators on the worker's state `core'; *)
(* RunTelemetry says when they are called.                                 *)
(*                                                                         *)
(* A transcript is its complete lines and whether an unfinished line       *)
(* follows.  A line is a call of a tool, a result of the call before it    *)
(* (without or with an error; the last one counts), a report of token      *)
(* usage, or junk that no parser accepts.  The calls are the same one,     *)
(* which makes progress when it succeeds.  Calls whose results come in     *)
(* another order, and transcripts that change their format, are left out.  *)
(***************************************************************************)
EXTENDS Integers, SequencesExt

CONSTANTS
  MaxSize,      \* MAX_TRANSCRIPT_BYTES, in lines
  Grace,        \* telemetryGraceMs
  None,         \* undefined
  Limits        \* RunTrajectoryLimits; a limit may be None

LineKinds == {"call", "ok", "error", "usage", "junk"}

Transcripts == [lines : Seq(LineKinds), tail : BOOLEAN]

ASSUME TelemetryAssumption ==
  /\ MaxSize \in Nat /\ Grace \in Nat
  /\ None \notin Nat /\ None \notin Transcripts
  /\ Limits \in [{"calls", "failed", "identical", "streak", "tokens", "idle"}
                 -> Nat \cup {None}]

Empty == [lines |-> <<>>, tail |-> FALSE]

Size(raw) == Len(raw.lines) + IF raw.tail THEN 1 ELSE 0

\* A transcript with one chunk more: the beginning of a line, or the line.
With(raw, chunk) ==
  IF chunk = "tail" THEN [raw EXCEPT !.tail = TRUE]
  ELSE [lines |-> Append(raw.lines, chunk), tail |-> FALSE]

\* Mutated form of Extends: only the size is compared.
ExtendsInSize(new, old) == Size(new) >= Size(old)

\* The bytes of `old' are the first bytes of `new'.
Extends(new, old) ==
  /\ IsPrefix(old.lines, new.lines)
  /\ old.tail => new.tail \/ Len(new.lines) > Len(old.lines)

\* parseTranscript: every line is a record of the transcript's format.
Whole(lines) == \A i \in DOMAIN lines : lines[i] # "junk"

\* parseLive: an unfinished last line is left out, unless nothing is left.
Readable(raw) == Whole(raw.lines) /\ (raw.tail => raw.lines # <<>>)

\* classifyTranscriptActions: where the calls are.
Actions(lines) == {i \in DOMAIN lines : lines[i] = "call"}

\* actions.slice(count)
Slice(actions, count) ==
  {i \in actions : Cardinality({j \in actions : j < i}) >= count}

\* Where the results of the call at i are: before the next call.
Results(lines, i) ==
  {j \in DOMAIN lines : /\ i < j /\ lines[j] \in {"ok", "error"}
                        /\ \A k \in Actions(lines) : k <= i \/ j < k}

\* The calls whose last result is of this kind.
Ended(kind, lines, actions) ==
  {i \in actions : /\ Results(lines, i) # {}
                   /\ lines[Max(Results(lines, i))] = kind}

Count(kind, lines) == Cardinality({i \in DOMAIN lines : lines[i] = kind})

Usage(lines) ==
  IF Count("usage", lines) = 0 THEN None ELSE Count("usage", lines)

\* The longest run of failed calls with no other call between them.
Streak(failed, actions) ==
  LET rows == {{i \in actions : first <= i /\ i <= last} : first, last \in actions}
  IN Max({0} \cup {Cardinality(row) : row \in {r \in rows : r \subseteq failed}})

\* analyzeTrajectory.  The calls are identical.
Metrics(lines, actions) ==
  LET failed == Ended("error", lines, actions) IN
  [calls     |-> Cardinality(actions),
   failed    |-> Cardinality(failed),
   identical |-> Cardinality(actions),
   streak    |-> Streak(failed, actions)]

NewCore(now) ==
  [known |-> FALSE, previous |-> Empty, latest |-> None, baseCalls |-> 0,
   baseTokens |-> 0, status |-> "WAITING", errorSince |-> None,
   partialSince |-> None, metrics |-> Metrics(<<>>, {}), tokens |-> None,
   completed |-> {}, startedAt |-> now, progressAt |-> now,
   captured |-> Empty, dirty |-> FALSE, breach |-> "none"]

\* establishExternalBaseline, of a file that Readable accepts or that is empty.
Baseline(core, raw) ==
  LET base == [core EXCEPT !.known = TRUE, !.previous = raw] IN
  IF Size(raw) = 0 THEN base
  ELSE [base EXCEPT
         !.baseCalls    = Cardinality(Actions(raw.lines)),
         !.baseTokens   = Count("usage", raw.lines),
         !.status       = IF raw.tail THEN "PARTIAL" ELSE "READY",
         !.partialSince = IF raw.tail THEN core.startedAt ELSE None]

\* start
Started(core, now) ==
  [core EXCEPT !.startedAt = now, !.progressAt = now,
               !.partialSince = IF @ = None THEN None ELSE now,
               !.errorSince = IF @ = None THEN None ELSE now]

\* appendCaptured: a chunk that does not fit is not kept.
Captured(core, chunk) ==
  IF Size(With(core.captured, chunk)) > MaxSize
  THEN [core EXCEPT !.breach = "TRANSCRIPT_SIZE"]
  ELSE [core EXCEPT !.captured = With(@, chunk), !.dirty = TRUE]

Unreadable(core, now) ==
  [core EXCEPT !.status = "UNREADABLE",
               !.errorSince = IF @ = None THEN now ELSE @]

Broken(core) == [core EXCEPT !.breach = "TELEMETRY_INTEGRITY"]

\* updateParsed: bytes that were parsed already are not parsed again.
Parsed(core, raw, now) ==
  LET seen    == [core EXCEPT !.latest = raw]
      actions == Actions(raw.lines)
      own     == Slice(actions, core.baseCalls)
      usage   == Usage(raw.lines)
      done    == Ended("ok", raw.lines, own)
      read    == [seen EXCEPT
                   !.status = IF raw.tail THEN "PARTIAL" ELSE "READY",
                   !.partialSince = IF ~raw.tail THEN None
                                    ELSE IF @ = None THEN now ELSE @,
                   !.errorSince = None]
  IN IF core.latest = raw THEN core
     ELSE IF ~Readable(raw) THEN Unreadable(seen, now)
     ELSE IF Cardinality(actions) < core.baseCalls THEN Broken(read)
     ELSE IF usage # None /\ usage < core.baseTokens
     THEN Broken([read EXCEPT !.metrics = Metrics(raw.lines, own)])
     ELSE [read EXCEPT
            !.metrics = Metrics(raw.lines, own),
            !.tokens = IF usage = None THEN None ELSE usage - core.baseTokens,
            !.completed = @ \cup done,
            !.progressAt = IF done \subseteq core.completed THEN @ ELSE now]

\* poll, the captured stdout.
ReadCaptured(core, now) ==
  IF core.dirty THEN Parsed([core EXCEPT !.dirty = FALSE], core.captured, now)
  ELSE IF Size(core.captured) = 0 THEN [core EXCEPT !.status = "WAITING"]
  ELSE core

\* poll, the external file.  `file.touched' says that size, mtime or ctime are
\* not those of the last snapshot, `torn' that they change while it is read.
ReadExternal(core, file, torn, now) ==
  CASE file.kind = "absent" -> IF core.known THEN Broken(core) ELSE core
    [] file.kind = "other" -> Broken(core)
    [] file.kind = "regular" /\ core.known /\ file.replaced -> Broken(core)
    [] file.kind = "regular" /\ ~(core.known /\ file.replaced) ->
         IF Size(file.raw) > MaxSize
         THEN [core EXCEPT !.breach = "TRANSCRIPT_SIZE"]
         ELSE IF core.known /\ ~file.touched
         THEN IF Size(core.previous) = 0 THEN [core EXCEPT !.status = "WAITING"]
              ELSE core
         ELSE IF torn THEN Unreadable(core, now)
         ELSE IF core.known /\ ~Extends(file.raw, core.previous)
         THEN Broken(core)
         ELSE LET kept == [core EXCEPT !.known = TRUE, !.previous = file.raw]
              IN IF Size(file.raw) = 0 THEN [kept EXCEPT !.status = "WAITING"]
                 ELSE Parsed(kept, file.raw, now)

Above(observed, limit) == limit # None /\ observed # None /\ observed > limit

\* Mutated form of Overdue: the last poll waits for the grace like any other.
OverdueInTime(since, now, terminal) == now - since >= Grace

Overdue(since, now, terminal) == terminal \/ now - since >= Grace

\* limitBreach: the first limit, in this order, that is exceeded.
Checks(core, now, terminal) ==
  LET unread(since) == since # None /\ Overdue(since, now, terminal) IN
  << <<"TELEMETRY_MISSING",
       core.status = "WAITING" /\ (\E l \in DOMAIN Limits : Limits[l] # None)
         /\ Overdue(core.startedAt, now, terminal)>>,
     <<"TELEMETRY_UNREADABLE",
       unread(core.errorSince) \/ unread(core.partialSince)>>,
     <<"TOKEN_USAGE_UNAVAILABLE",
       Limits.tokens # None /\ core.tokens = None
         /\ core.status \in {"READY", "PARTIAL"}
         /\ Overdue(core.startedAt, now, terminal)>>,
     <<"TOOL_CALL_LIMIT", Above(core.metrics.calls, Limits.calls)>>,
     <<"FAILED_TOOL_CALL_LIMIT", Above(core.metrics.failed, Limits.failed)>>,
     <<"IDENTICAL_TOOL_CALL_LIMIT",
       Above(core.metrics.identical, Limits.identical)>>,
     <<"CONSECUTIVE_FAILURE_LIMIT", Above(core.metrics.streak, Limits.streak)>>,
     <<"OBSERVED_TOKEN_LIMIT", Above(core.tokens, Limits.tokens)>>,
     <<"NO_PROGRESS", Above(now - core.progressAt, Limits.idle)>> >>

LimitBreach(core, now, terminal) ==
  LET checks == Checks(core, now, terminal)
      met    == {i \in DOMAIN checks : checks[i][2]}
  IN IF met = {} THEN "none" ELSE checks[Min(met)][1]

\* What a poll finds: a breach of integrity is for good.
Verdict(core, now, terminal) ==
  IF core.breach # "none" THEN core.breach
  ELSE LimitBreach(core, now, terminal)
=============================================================================
