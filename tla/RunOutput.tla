------------------------------- MODULE RunOutput --------------------------------
(***************************************************************************)
(* The captured stdout of a protected run (run-supervisor.ts, the handlers *)
(* of child.stdout; safe-output.ts, createPrivateFileSink and              *)
(* createAsyncDescriptorSink): each chunk read from the pipe is written to *)
(* the private capture file and to the supervisor's own stdout, the mirror,*)
(* and the pipe is not read while one of the two writes is under way.      *)
(*                                                                         *)
(* The actions say what happens to the output.  RunSupervisor composes them*)
(* with the run they belong to and says which of them ask it to stop.      *)
(***************************************************************************)
EXTENDS Naturals

CONSTANT MaxChunks    \* bound on the chunks that the processes write

ASSUME OutputAssumption == MaxChunks \in Nat

VARIABLES
  produced,    \* chunks written to the pipe
  unread,      \* of these, the chunks still in the pipe
  written,     \* chunks in the capture file
  mirrored,    \* chunks on the supervisor's stdout
  capture,     \* the sink's write: "idle", "busy", or for good "failed", or
               \* "full" when a chunk was refused
  mirror,      \* the mirror's write: "idle", "busy", "failed"
  stream,      \* "open", "ended" at EOF, or "closed" before it
  sink         \* the capture file: "open", "closing", "closed", "aborted"

output == <<produced, unread, written, mirrored, capture, mirror, stream, sink>>

Writing == {"idle", "busy", "failed", "full"}

OutputTypeOK ==
  /\ produced \in 0 .. MaxChunks /\ unread \in 0 .. MaxChunks
  /\ written \in 0 .. MaxChunks  /\ mirrored \in 0 .. MaxChunks
  /\ capture \in Writing /\ mirror \in Writing
  /\ stream \in {"open", "ended", "closed"}
  /\ sink \in {"open", "closing", "closed", "aborted"}

OutputInit ==
  /\ produced = 0 /\ unread = 0 /\ written = 0 /\ mirrored = 0
  /\ capture = "idle" /\ mirror = "idle"
  /\ stream = "open" /\ sink = "open"

\* A process of the run writes to the pipe.
Produce ==
  /\ stream = "open" /\ produced < MaxChunks
  /\ produced' = produced + 1 /\ unread' = unread + 1
  /\ UNCHANGED <<written, mirrored, capture, mirror, stream, sink>>

Paused == capture = "busy" \/ mirror = "busy"

Begun(w) == IF w = "idle" THEN "busy" ELSE w

TakeChunk == stream = "open" /\ unread > 0 /\ ~Paused /\ unread' = unread - 1

\* The "data" handler: a chunk goes to both, unless their writes have failed.
Relay ==
  /\ TakeChunk /\ capture # "full"
  /\ capture' = Begun(capture) /\ mirror' = Begun(mirror)
  /\ UNCHANGED <<produced, written, mirrored, stream, sink>>

\* A chunk that crosses the cap of the capture, or comes after such a chunk,
\* is only mirrored.
RelayRefused ==
  /\ TakeChunk
  /\ capture' = (IF capture = "idle" THEN "full" ELSE capture)
  /\ mirror' = Begun(mirror)
  /\ UNCHANGED <<produced, written, mirrored, stream, sink>>

\* The telemetry worker has failed: the handler throws and the chunk is lost.
LoseChunk ==
  /\ TakeChunk
  /\ UNCHANGED <<produced, written, mirrored, capture, mirror, stream, sink>>

CaptureWritten ==
  /\ capture = "busy"
  /\ capture' = "idle" /\ written' = written + 1
  /\ UNCHANGED <<produced, unread, mirrored, mirror, stream, sink>>

CaptureFails ==
  /\ capture = "busy" /\ capture' = "failed"
  /\ UNCHANGED <<produced, unread, written, mirrored, mirror, stream, sink>>

MirrorWritten ==
  /\ mirror = "busy"
  /\ mirror' = "idle" /\ mirrored' = mirrored + 1
  /\ UNCHANGED <<produced, unread, written, capture, stream, sink>>

MirrorFails ==
  /\ mirror = "busy" /\ mirror' = "failed"
  /\ UNCHANGED <<produced, unread, written, mirrored, capture, stream, sink>>

\* Only a stream that is read to its end says so.
StreamEnds ==
  /\ stream = "open" /\ unread = 0 /\ ~Paused
  /\ stream' = "ended"
  /\ UNCHANGED <<produced, unread, written, mirrored, capture, mirror, sink>>

\* "error" or "close" before EOF; also the supervisor's destroy().
StreamCloses ==
  /\ stream = "open" /\ stream' = "closed"
  /\ UNCHANGED <<produced, unread, written, mirrored, capture, mirror, sink>>

\* sink.close: nothing more is accepted; the write under way comes first.
BeginClose ==
  /\ sink' = "closing"
  /\ UNCHANGED <<produced, unread, written, mirrored, capture, mirror, stream>>

FlushCapture ==
  /\ sink = "closing" /\ capture \in {"idle", "full"}
  /\ sink' = "closed"
  /\ UNCHANGED <<produced, unread, written, mirrored, capture, mirror, stream>>

\* The write or the flush failed, or took too long: sink.abort ends it.
AbandonCapture ==
  /\ sink = "closing"
  /\ sink' = "aborted"
  /\ capture' = (IF capture = "busy" THEN "failed" ELSE capture)
  /\ UNCHANGED <<produced, unread, written, mirrored, mirror, stream>>

\* stdoutRelay.abort, when the last write has not ended well in time.
AbandonMirror ==
  /\ mirror' = "failed"
  /\ UNCHANGED <<produced, unread, written, mirrored, capture, stream, sink>>
=============================================================================
