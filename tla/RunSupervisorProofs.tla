-------------------------- MODULE RunSupervisorProofs ---------------------------
(***************************************************************************)
(* Theorems about RunSupervisor, for any number of descendants and of      *)
(* chunks of output, and whether the group may refuse a signal or not.     *)
(*                                                                         *)
(* One lemma for each part of IndInv says that no step breaks it.  Its     *)
(* first cases are the steps that leave the part alone; the others are the *)
(* groups of actions of Main and Next.  The frames of the actions are      *)
(* expanded throughout.                                                    *)
(***************************************************************************)
EXTENDS RunSupervisorInv, TLAPS


USE DEF Step, MainStep, WrapStep, WaitStep, Rest, Continue, Asks, Event,
    Active, OutputStep, GroupStep, TermStep, main, group, asked, check, output

-----------------------------------------------------------------------------
\* The counts of the chunks stay within the chunks that were produced.
LEMMA OutputStepOK == IndInv /\ [Next]_vars => OutputTypeOK'
<1> SUFFICES ASSUME OutputTypeOK, Counted, [Next]_vars
             PROVE  OutputTypeOK'
  BY DEF IndInv, TypeOK
<1> USE DEF Counted, InFlight, OutputTypeOK, Writing
<1>1. CASE PreLaunch \/ Spawned \/ SpawnFails \/ Verification \/ Joining \/
            EndTelemetry
  BY <1>1, SMTT(20)
  DEF EndTelemetry, ExitWins, FinalPoll, HashingEnds, Joined, Joining, Launch,
      NoPollLeft, OrphansChecked, PreLaunch, PreLaunchError, PreLaunchStop,
      RaceEnds, Report, SpawnFails, Spawned, StartTelemetry, StopWins,
      Stopped, TelemetryThrows, Throws, Verification, VerifyWins, WorkerCloses
<1>2. CASE Conclude \/ Catch \/ Finally \/ Termination \/ Hashed \/ ExitEvent
  BY <1>2, SMTT(20)
  DEF Catch, CatchEmpty, CatchLive, CatchStopped, Caught, CaughtBy, Conclude,
      ExitEvent, Finally, GraceEnds, HandleStop, Hashed, KillEnds, Report,
      Settled, Termination, VerifyEnds
<1>3. CASE OrphanCheck \/ Signal \/ TimeLimit \/ Polls \/ WorkerStarts \/
            WorkerDies
  BY <1>3, SMTT(20)
  DEF OrphanCheck, PollAnswered, PollBegins, PollFails, Polls, Signal,
      TimeLimit, WorkerBecomes, WorkerDies, WorkerStarts
<1>4. CASE DrainOutput
  BY <1>4, OutputAssumption, GroupAssumption, SMTT(20)
  DEF AbandonCapture, AbandonMirror, BeginClose, Destroyed, DrainOutput,
      DrainTimeout, Drained, FlushCapture, FlushFails, Flushed, MirrorOverdue,
      Mirrored, StreamCloses
<1>5. CASE Group
  BY <1>5, OutputAssumption, GroupAssumption, SMTT(20)
  DEF DescendantDies, Escape, EscapeeDies, Fork, Group, LeaderDies, Produce,
      Reaped, Write
<1>6. CASE Output
  BY <1>6, OutputAssumption, GroupAssumption, SMTT(20)
  DEF Begun, CaptureFails, CaptureSettles, CaptureWritten, ChunkLost,
      ChunkRefused, ChunkRelayed, LoseChunk, MirrorFails, MirrorSettles,
      MirrorWritten, Output, OutputBreaks, OutputEnds, Paused, Relay,
      RelayRefused, StreamCloses, StreamEnds, TakeChunk
<1>7. CASE UNCHANGED vars
  BY <1>7 DEF vars
<1> QED BY <1>1, <1>2, <1>3, <1>4, <1>5, <1>6, <1>7
  DEF Next, Main

\* The flags stay Boolean.
LEMMA FlagStep == IndInv /\ [Next]_vars => FlagsOK'
<1> SUFFICES ASSUME FlagsOK, [Next]_vars
             PROVE  FlagsOK'
  BY DEF IndInv, TypeOK
<1> USE DEF FlagsOK
<1>1. CASE Spawned \/ Verification \/ EndTelemetry \/ Finally \/ Hashed \/
            WorkerStarts \/ WorkerDies
  BY <1>1, SMTT(20)
  DEF EndTelemetry, ExitWins, FinalPoll, Finally, Hashed, HashingEnds, Judge,
      NoPollLeft, RequestStop, Requested, Spawned, StopWins, TelemetryThrows,
      Verification, VerifyEnds, VerifyWins, WorkerBecomes, WorkerCloses,
      WorkerDies, WorkerStarts
<1>2. CASE PreLaunch
  BY <1>2
  DEF Launch, PreLaunch, PreLaunchError, PreLaunchStop, Report, StartTelemetry
<1>3. CASE SpawnFails
  BY <1>3
  DEF Report, SpawnFails
<1>4. CASE Joining
  BY <1>4
  DEF Joined, Joining, OrphansChecked, RaceEnds, Stopped, Throws
<1>5. CASE DrainOutput
  BY <1>5
  DEF Destroyed, DrainOutput, DrainOverdue, DrainTimeout, Drained, FlushFails,
      Flushed, MirrorOverdue, Mirrored, RequestOutputFailure, Requested
<1>6. CASE Conclude
  BY <1>6
  DEF Conclude, Report
<1>7. CASE Catch
  BY <1>7
  DEF After, Catch, CatchEmpty, CatchLive, CatchStopped, Caught, CaughtBy,
      Report, SendTerm, TermBecomes
<1>8. CASE Termination
  <2>1. CASE HandleStop
    BY <2>1 DEF HandleStop, SendTerm
  <2>2. CASE Settled
    BY <2>2 DEF Settled
  <2>3. ASSUME NEW o \in {"stop", "catch"}, GraceEnds(o)
        PROVE  FlagsOK'
    BY <2>3 DEF GraceEnds
  <2>4. ASSUME NEW o \in {"stop", "catch"}, KillEnds(o)
        PROVE  FlagsOK'
    BY <2>4 DEF KillEnds
  <2> QED BY <1>8, <2>1, <2>2, <2>3, <2>4 DEF Termination
<1>9. CASE ExitEvent
  BY <1>9
  DEF ExitEvent, Exited
<1>10. CASE OrphanCheck
  BY <1>10
  DEF OrphanCheck, RequestStop, Requested
<1>11. CASE Signal \/ TimeLimit \/ Polls
  BY <1>11
  DEF PollAnswered, PollBegins, PollFails, Polls, RequestStop, Requested,
      Signal, TimeLimit
<1>12. CASE Group
  BY <1>12
  DEF DescendantDies, Escape, EscapeeDies, Fork, Group, LeaderDies, Reaped,
      Write
<1>13. CASE Output
  BY <1>13
  DEF CaptureSettles, ChunkLost, ChunkRefused, ChunkRelayed, MirrorSettles,
      Output, OutputBreaks, OutputEnds, RequestOutputFailure, RequestStop,
      Requested
<1>14. CASE UNCHANGED vars
  BY <1>14 DEF vars
<1> QED BY <1>1, <1>2, <1>3, <1>4, <1>5, <1>6, <1>7, <1>8, <1>9, <1>10, <1>11,
       <1>12, <1>13, <1>14
  DEF Next, Main

\* The other variables but the receipt keep their types.
LEMMA StateStep == IndInv /\ [Next]_vars => StatesOK'
<1> SUFFICES ASSUME StatesOK, FlagsOK, [Next]_vars
             PROVE  StatesOK'
  BY DEF IndInv, TypeOK
<1> USE DEF Before, Codes, FlagsOK, Phases, StatesOK, Terminating, WrapUp
<1>1. CASE PreLaunch
  BY <1>1, OutputAssumption, GroupAssumption
  DEF Launch, PreLaunch, PreLaunchError, PreLaunchStop, Report, StartTelemetry
<1>2. CASE Spawned
  BY <1>2, OutputAssumption, GroupAssumption
  DEF Spawned
<1>3. CASE SpawnFails
  BY <1>3, OutputAssumption, GroupAssumption
  DEF Report, SpawnFails
<1>4. CASE Verification
  BY <1>4, OutputAssumption, GroupAssumption
  DEF ExitWins, HashingEnds, JoinOrRace, Judge, RequestStop, Requested,
      StopWins, Verification, VerifyWins
<1>5. CASE Joining
  BY <1>5, OutputAssumption, GroupAssumption
  DEF First, Joined, Joining, OrphansChecked, RaceEnds, Stopped, Throws
<1>6. CASE DrainOutput
  BY <1>6, OutputAssumption, GroupAssumption
  DEF Destroyed, DrainOutput, DrainOverdue, DrainTimeout, Drained, FlushFails,
      Flushed, MirrorOverdue, Mirrored, RequestOutputFailure, Requested
<1>7. CASE EndTelemetry
  BY <1>7, OutputAssumption, GroupAssumption
  DEF EndTelemetry, FinalPoll, NoPollLeft, RequestStop, Requested,
      TelemetryThrows, WorkerCloses
<1>8. CASE Conclude
  BY <1>8, OutputAssumption, GroupAssumption
  DEF Conclude, Report
<1>9. CASE Catch
  BY <1>9, OutputAssumption, GroupAssumption
  DEF After, Catch, CatchEmpty, CatchLive, CatchStopped, Caught, CaughtBy,
      Report, SendTerm, TermBecomes
<1>10. CASE Finally
  BY <1>10, OutputAssumption, GroupAssumption
  DEF Finally
<1>11. CASE Termination
  BY <1>11, OutputAssumption, GroupAssumption
  DEF After, Crashes, GraceEnds, HandleStop, KillEnds, SendTerm, Settled,
      TermBecomes, Termination, Unheard
<1>12. CASE Hashed
  BY <1>12, OutputAssumption, GroupAssumption
  DEF Hashed, VerifyEnds
<1>13. CASE ExitEvent
  BY <1>13, OutputAssumption, GroupAssumption
  DEF ExitEvent
<1>14. CASE OrphanCheck
  BY <1>14, OutputAssumption, GroupAssumption
  DEF OrphanCheck, RequestStop, Requested
<1>15. CASE Signal \/ TimeLimit \/ Polls
  BY <1>15, OutputAssumption, GroupAssumption
  DEF PollAnswered, PollBegins, PollFails, Polls, RequestStop, Requested,
      Signal, TimeLimit
<1>16. CASE WorkerStarts \/ WorkerDies
  BY <1>16, OutputAssumption, GroupAssumption
  DEF WorkerBecomes, WorkerDies, WorkerStarts
<1>17. CASE Group
  BY <1>17, OutputAssumption, GroupAssumption
  DEF DescendantDies, Escape, EscapeeDies, Fork, Group, LeaderDies, Reaped,
      Write
<1>18. CASE Output
  BY <1>18, OutputAssumption, GroupAssumption
  DEF Begun, CaptureSettles, ChunkLost, ChunkRefused, ChunkRelayed,
      MirrorSettles, Output, OutputBreaks, OutputEnds, RequestOutputFailure,
      RequestStop, Requested
<1>19. CASE UNCHANGED vars
  BY <1>19 DEF vars
<1> QED BY <1>1, <1>2, <1>3, <1>4, <1>5, <1>6, <1>7, <1>8, <1>9, <1>10, <1>11,
       <1>12, <1>13, <1>14, <1>15, <1>16, <1>17, <1>18, <1>19
  DEF Next, Main

\* What `Report' is given decides the type of the receipt.
LEMMA ReportTyped ==
  ASSUME StatesOK, NEW s \in {"EXITED", "STOPPED", "ERROR"},
         NEW c \in Codes \cup {"none"}, NEW b \in BOOLEAN, Report(s, c, b)
  PROVE  receipt' \in Receipts
BY DEF Report, StatesOK, Receipts

\* A receipt is one of the receipts.
LEMMA ReceiptStep == IndInv /\ [Next]_vars => receipt' \in Receipts
<1> SUFFICES ASSUME StatesOK, FlagsOK, receipt \in Receipts, [Next]_vars
             PROVE  receipt' \in Receipts
  BY DEF IndInv, TypeOK
<1> USE DEF Before, Codes, FlagsOK, NoReceipt, Phases, Receipts, StatesOK,
    Terminating, WrapUp
<1>1. CASE Spawned \/ Joining \/ DrainOutput \/ EndTelemetry \/ Finally \/
            Hashed
  BY <1>1, SMTT(20)
  DEF Destroyed, DrainOutput, DrainTimeout, Drained, EndTelemetry, FinalPoll,
      Finally, FlushFails, Flushed, Hashed, Joined, Joining, MirrorOverdue,
      Mirrored, NoPollLeft, OrphansChecked, RaceEnds, Spawned, Stopped,
      TelemetryThrows, Throws, VerifyEnds, WorkerCloses
<1>2. CASE ExitEvent \/ Signal \/ TimeLimit \/ Polls \/ WorkerStarts \/
            WorkerDies \/ Group \/ Output
  BY <1>2, SMTT(20)
  DEF CaptureSettles, ChunkLost, ChunkRefused, ChunkRelayed, DescendantDies,
      Escape, EscapeeDies, ExitEvent, Fork, Group, LeaderDies, MirrorSettles,
      Output, OutputBreaks, OutputEnds, PollAnswered, PollBegins, PollFails,
      Polls, Reaped, Signal, TimeLimit, WorkerBecomes, WorkerDies,
      WorkerStarts, Write
<1>3. CASE PreLaunch
  <2>1. CASE PreLaunchStop
    <3>1. stop \in Codes \cup {"none"} /\ Report("STOPPED", stop, TRUE)
      BY <2>1 DEF PreLaunchStop
    <3> QED BY <3>1, ReportTyped
  <2>2. CASE PreLaunchError
    <3>1. Report("ERROR", "SUPERVISOR_ERROR", TRUE)
      BY <2>2 DEF PreLaunchError
    <3> QED BY <3>1, ReportTyped
  <2>3. CASE StartTelemetry \/ Launch
    BY <2>3 DEF StartTelemetry, Launch
  <2> QED BY <1>3, <2>1, <2>2, <2>3 DEF PreLaunch
<1>4. CASE SpawnFails
  BY <1>4, SMTT(20)
  DEF Report, SpawnFails
<1>5. CASE Verification
  BY <1>5, SMTT(20)
  DEF ExitWins, HashingEnds, JoinOrRace, StopWins, Verification, VerifyWins
<1>6. CASE Conclude
  BY <1>6, SMTT(20)
  DEF Conclude, Errors, Reason, Report, State
<1>7. CASE Catch
  <2>1. CASE CatchStopped \/ CatchLive
    BY <2>1 DEF CatchStopped, CatchLive
  <2>2. CASE CatchEmpty
    <3>1. Report("ERROR", "SUPERVISOR_ERROR", TRUE)
      BY <2>2 DEF CatchEmpty
    <3> QED BY <3>1, ReportTyped
  <2>3. ASSUME NEW l, NEW o, CaughtBy(l, o)
        PROVE  receipt' \in Receipts
    <3>1. (confirmed /\ term[o] = "done") \in BOOLEAN
      OBVIOUS
    <3>2. Report("ERROR", "SUPERVISOR_ERROR", confirmed /\ term[o] = "done")
      BY <2>3 DEF CaughtBy
    <3> QED BY <3>1, <3>2, ReportTyped
  <2> QED BY <1>7, <2>1, <2>2, <2>3 DEF Catch, Caught
<1>8. CASE Termination
  BY <1>8, SMTT(20)
  DEF GraceEnds, HandleStop, KillEnds, Settled, Termination
<1>9. CASE OrphanCheck
  BY <1>9, SMTT(20)
  DEF OrphanCheck
<1>10. CASE UNCHANGED vars
  BY <1>10 DEF vars
<1> QED BY <1>1, <1>2, <1>3, <1>4, <1>5, <1>6, <1>7, <1>8, <1>9, <1>10
  DEF Next, Main

\* Only `finally' and what follows it knows a receipt.
LEMMA ReceiptAtEndStep == IndInv /\ [Next]_vars => ReceiptAtEnd'
<1> SUFFICES ASSUME ReceiptAtEnd, [Next]_vars
             PROVE  ReceiptAtEnd'
  BY DEF IndInv
<1> USE DEF NoReceipt, Over, ReceiptAtEnd
<1>1. CASE Hashed \/ ExitEvent \/ Signal \/ TimeLimit \/ Polls \/ WorkerStarts
            \/ WorkerDies \/ Group \/ Output
  BY <1>1, SMTT(20)
  DEF CaptureSettles, ChunkLost, ChunkRefused, ChunkRelayed, DescendantDies,
      Escape, EscapeeDies, ExitEvent, Fork, Group, Hashed, LeaderDies,
      MirrorSettles, Output, OutputBreaks, OutputEnds, PollAnswered,
      PollBegins, PollFails, Polls, Reaped, Signal, TimeLimit, VerifyEnds,
      WorkerBecomes, WorkerDies, WorkerStarts, Write
<1>2. CASE PreLaunch
  BY <1>2, SMTT(20)
  DEF Launch, PreLaunch, PreLaunchError, PreLaunchStop, Report, StartTelemetry
<1>3. CASE Spawned
  BY <1>3, SMTT(20)
  DEF Spawned
<1>4. CASE SpawnFails
  BY <1>4, SMTT(20)
  DEF Report, SpawnFails
<1>5. CASE Verification
  BY <1>5, SMTT(20)
  DEF ExitWins, HashingEnds, JoinOrRace, StopWins, Verification, VerifyWins
<1>6. CASE Joining
  BY <1>6, SMTT(20)
  DEF Joined, Joining, OrphansChecked, RaceEnds, Stopped, Throws
<1>7. CASE DrainOutput
  BY <1>7, SMTT(20)
  DEF Before, Destroyed, DrainOutput, DrainTimeout, Drained, FlushFails,
      Flushed, MirrorOverdue, Mirrored
<1>8. CASE EndTelemetry
  BY <1>8, SMTT(20)
  DEF Before, EndTelemetry, FinalPoll, NoPollLeft, TelemetryThrows,
      WorkerCloses
<1>9. CASE Conclude
  BY <1>9, SMTT(20)
  DEF Conclude, Report
<1>10. CASE Catch
  BY <1>10, SMTT(20)
  DEF Catch, CatchEmpty, CatchLive, CatchStopped, Caught, CaughtBy, Report
<1>11. CASE Finally
  BY <1>11, SMTT(20)
  DEF Finally
<1>12. CASE Termination
  BY <1>12, SMTT(20)
  DEF Before, GraceEnds, HandleStop, KillEnds, Settled, Termination
<1>13. CASE OrphanCheck
  BY <1>13, SMTT(20)
  DEF OrphanCheck
<1>14. CASE UNCHANGED vars
  BY <1>14 DEF vars
<1> QED BY <1>1, <1>2, <1>3, <1>4, <1>5, <1>6, <1>7, <1>8, <1>9, <1>10, <1>11,
       <1>12, <1>13, <1>14
  DEF Next, Main

\* Nothing of the process, its output or its verification precedes the launch.
LEMMA UnlaunchedStep == IndInv /\ [Next]_vars => Unlaunched'
<1> SUFFICES ASSUME Unlaunched, TypeOK, [Next]_vars
             PROVE  Unlaunched'
  BY DEF IndInv
<1> USE DEF Before, FlagsOK, OutputTypeOK, Over, Phases, StatesOK,
    Terminating, TypeOK, Unlaunched, WrapUp
<1>1. CASE WorkerStarts \/ WorkerDies
  BY <1>1, SMTT(20)
  DEF WorkerBecomes, WorkerDies, WorkerStarts
<1>2. CASE PreLaunch
  BY <1>2, SMTT(20)
  DEF Launch, PreLaunch, PreLaunchError, PreLaunchStop, Report, StartTelemetry
<1>3. CASE Spawned
  BY <1>3, SMTT(20)
  DEF Spawned
<1>4. CASE SpawnFails
  BY <1>4, SMTT(20)
  DEF Report, SpawnFails
<1>5. CASE Verification
  BY <1>5, SMTT(20)
  DEF ExitWins, HashingEnds, JoinOrRace, StopWins, Verification, VerifyWins
<1>6. CASE Joining
  BY <1>6, SMTT(20)
  DEF First, Joined, Joining, OrphansChecked, RaceEnds, Stopped, Throws
<1>7. CASE DrainOutput
  BY <1>7, SMTT(20)
  DEF Destroyed, DrainOutput, DrainTimeout, Drained, FlushFails, Flushed,
      MirrorOverdue, Mirrored
<1>8. CASE EndTelemetry
  BY <1>8, SMTT(20)
  DEF EndTelemetry, FinalPoll, NoPollLeft, TelemetryThrows, WorkerCloses
<1>9. CASE Conclude
  BY <1>9, SMTT(20)
  DEF Conclude, Report
<1>10. CASE Catch
  BY <1>10, SMTT(20)
  DEF Catch, CatchEmpty, CatchLive, CatchStopped, Caught, CaughtBy, Report
<1>11. CASE Finally
  BY <1>11, SMTT(20)
  DEF Finally
<1>12. CASE Termination
  BY <1>12, SMTT(20)
  DEF After, Crashes, GraceEnds, HandleStop, KillEnds, SendTerm, Settled,
      TermBecomes, Termination, Unheard
<1>13. CASE Hashed
  BY <1>13, SMTT(20)
  DEF Hashed, VerifyEnds
<1>14. CASE ExitEvent
  BY <1>14, SMTT(20)
  DEF ExitEvent
<1>15. CASE OrphanCheck
  BY <1>15, SMTT(20)
  DEF OrphanCheck
<1>16. CASE Signal \/ TimeLimit \/ Polls
  BY <1>16, SMTT(20)
  DEF PollAnswered, PollBegins, PollFails, Polls, RequestStop, Requested,
      Signal, TimeLimit
<1>17. CASE Group
  BY <1>17, SMTT(20)
  DEF DescendantDies, Escape, EscapeeDies, Fork, Group, LeaderDies, Live,
      Reaped, Write
<1>18. CASE Output
  BY <1>18, SMTT(20)
  DEF CaptureSettles, ChunkLost, ChunkRefused, ChunkRelayed, MirrorSettles,
      Output, OutputBreaks, OutputEnds
<1>19. CASE UNCHANGED vars
  BY <1>19 DEF vars
<1> QED BY <1>1, <1>2, <1>3, <1>4, <1>5, <1>6, <1>7, <1>8, <1>9, <1>10, <1>11,
       <1>12, <1>13, <1>14, <1>15, <1>16, <1>17, <1>18, <1>19
  DEF Next, Main

\* A group without a live member forks no more, and only such a group is
\* confirmed to be gone.
LEMMA GoneStep == IndInv /\ [Next]_vars => Gone'
<1> SUFFICES ASSUME Gone, ReceiptAtEnd, Unlaunched, TypeOK, [Next]_vars
             PROVE  Gone'
  BY DEF IndInv
<1> USE DEF Before, FlagsOK, Gone, Live, NoReceipt, OutputTypeOK, Over,
    Phases, ReceiptAtEnd, StatesOK, Terminating, TypeOK, Unlaunched, WrapUp
<1>1. CASE Spawned \/ Verification \/ Joining \/ DrainOutput \/ EndTelemetry
            \/ Finally
  BY <1>1, SMTT(20)
  DEF Destroyed, DrainOutput, DrainTimeout, Drained, EndTelemetry, ExitWins,
      FinalPoll, Finally, FlushFails, Flushed, HashingEnds, JoinOrRace,
      Joined, Joining, MirrorOverdue, Mirrored, NoPollLeft, OrphansChecked,
      RaceEnds, Spawned, StopWins, Stopped, TelemetryThrows, Throws,
      Verification, VerifyWins, WorkerCloses
<1>2. CASE Hashed \/ Signal \/ TimeLimit \/ Polls \/ WorkerStarts \/
            WorkerDies \/ Output
  BY <1>2, SMTT(20)
  DEF CaptureSettles, ChunkLost, ChunkRefused, ChunkRelayed, Hashed,
      MirrorSettles, Output, OutputBreaks, OutputEnds, PollAnswered,
      PollBegins, PollFails, Polls, Signal, TimeLimit, VerifyEnds,
      WorkerBecomes, WorkerDies, WorkerStarts
<1>3. CASE PreLaunch
  BY <1>3, SMTT(20)
  DEF Launch, PreLaunch, PreLaunchError, PreLaunchStop, Report, StartTelemetry
<1>4. CASE SpawnFails
  BY <1>4, SMTT(20)
  DEF SpawnFails
<1>5. CASE Conclude
  BY <1>5, SMTT(20)
  DEF Conclude, Report
<1>6. CASE Catch
  BY <1>6, SMTT(20)
  DEF After, Catch, CatchEmpty, CatchLive, CatchStopped, Caught, CaughtBy,
      LooksEmpty, LooksLive, Report, SendTerm, TermBecomes
<1>7. CASE Termination
  BY <1>7, SMTT(20)
  DEF After, Crashes, GraceEnds, HandleStop, KillConfirmed, KillEnds,
      LooksEmpty, LooksLive, SendTerm, Settled, TermBecomes, Termination,
      Unheard
<1>8. CASE ExitEvent
  BY <1>8, SMTT(20)
  DEF ExitEvent
<1>9. CASE OrphanCheck
  BY <1>9, SMTT(20)
  DEF LooksEmpty, LooksLive, OrphanCheck, SeemsAlone
<1>10. CASE Group
  BY <1>10, SMTT(20)
  DEF DescendantDies, Escape, EscapeeDies, Fork, Group, LeaderDies, Reaped,
      Write
<1>11. CASE UNCHANGED vars
  BY <1>11 DEF vars
<1> QED BY <1>1, <1>2, <1>3, <1>4, <1>5, <1>6, <1>7, <1>8, <1>9, <1>10, <1>11
  DEF Next, Main

\* A stop request is never taken back, and a cancellation has a cause.
LEMMA CausedStep == IndInv /\ [Next]_vars => Caused'
<1> SUFFICES ASSUME Caused, TypeOK, Unlaunched, [Next]_vars
             PROVE  Caused'
  BY DEF IndInv
<1> USE DEF Before, Caused, FlagsOK, OutputTypeOK, Over, Phases, StatesOK,
    Terminating, TypeOK, Unlaunched, WrapUp
<1>1. CASE ExitEvent \/ WorkerStarts \/ WorkerDies \/ Group
  BY <1>1, SMTT(20)
  DEF DescendantDies, Escape, EscapeeDies, ExitEvent, Fork, Group, LeaderDies,
      Reaped, WorkerBecomes, WorkerDies, WorkerStarts, Write
<1>2. CASE PreLaunch
  BY <1>2, SMTT(20)
  DEF Launch, PreLaunch, PreLaunchError, PreLaunchStop, Report, StartTelemetry
<1>3. CASE Spawned
  BY <1>3, SMTT(20)
  DEF Spawned
<1>4. CASE SpawnFails
  BY <1>4, SMTT(20)
  DEF SpawnFails
<1>5. CASE Verification
  BY <1>5, SMTT(20)
  DEF ExitWins, HashingEnds, Judge, RequestStop, Requested, StopWins,
      Verification, VerifyWins
<1>6. CASE Joining
  BY <1>6, SMTT(20)
  DEF Joined, Joining, OrphansChecked, RaceEnds, Stopped, Throws
<1>7. CASE DrainOutput
  BY <1>7, SMTT(20)
  DEF Destroyed, DrainOutput, DrainOverdue, DrainTimeout, Drained, FlushFails,
      Flushed, MirrorOverdue, Mirrored, RequestOutputFailure, Requested
<1>8. CASE EndTelemetry
  BY <1>8, SMTT(20)
  DEF EndTelemetry, FinalPoll, NoPollLeft, RequestStop, Requested,
      TelemetryThrows, WorkerCloses
<1>9. CASE Conclude
  BY <1>9, SMTT(20)
  DEF Conclude
<1>10. CASE Catch
  BY <1>10, SMTT(20)
  DEF After, Catch, CatchEmpty, CatchLive, CatchStopped, Caught, CaughtBy,
      Report, SendTerm, TermBecomes
<1>11. CASE Finally
  BY <1>11, SMTT(20)
  DEF Finally
<1>12. CASE Termination
  BY <1>12, SMTT(20)
  DEF After, Crashes, GraceEnds, HandleStop, KillEnds, SendTerm, Settled,
      TermBecomes, Termination, Unheard
<1>13. CASE Hashed
  BY <1>13, SMTT(20)
  DEF Hashed, VerifyEnds
<1>14. CASE OrphanCheck
  BY <1>14, SMTT(20)
  DEF OrphanCheck, RequestStop, Requested
<1>15. CASE Signal \/ TimeLimit \/ Polls
  BY <1>15, SMTT(20)
  DEF PollAnswered, PollBegins, PollFails, Polls, RequestStop, Requested,
      Signal, TimeLimit
<1>16. CASE Output
  BY <1>16, SMTT(20)
  DEF CaptureSettles, ChunkLost, ChunkRefused, ChunkRelayed, MirrorSettles,
      Output, OutputBreaks, OutputEnds, RequestOutputFailure, RequestStop,
      Requested
<1>17. CASE UNCHANGED vars
  BY <1>17 DEF vars
<1> QED BY <1>1, <1>2, <1>3, <1>4, <1>5, <1>6, <1>7, <1>8, <1>9, <1>10, <1>11,
       <1>12, <1>13, <1>14, <1>15, <1>16, <1>17
  DEF Next, Main

\* Without a stop the function waits for the verification and for the exit.
LEMMA PassedStep == IndInv /\ [Next]_vars => Passed'
<1> SUFFICES ASSUME Passed, Caused, TypeOK, [Next]_vars
             PROVE  Passed'
  BY DEF IndInv
<1> USE DEF Before, Caused, FlagsOK, OutputTypeOK, Over, Passed, Phases,
    StatesOK, Terminating, TypeOK, WrapUp
<1>1. CASE Hashed \/ WorkerStarts \/ WorkerDies \/ Group
  BY <1>1, SMTT(20)
  DEF DescendantDies, Escape, EscapeeDies, Fork, Group, Hashed, LeaderDies,
      Reaped, VerifyEnds, WorkerBecomes, WorkerDies, WorkerStarts, Write
<1>2. CASE PreLaunch
  BY <1>2, SMTT(20)
  DEF Launch, PreLaunch, PreLaunchError, PreLaunchStop, Report, StartTelemetry
<1>3. CASE Spawned
  BY <1>3, SMTT(20)
  DEF Spawned
<1>4. CASE SpawnFails
  BY <1>4, SMTT(20)
  DEF Report, SpawnFails
<1>5. CASE Verification
  BY <1>5, SMTT(20)
  DEF ExitWins, HashingEnds, JoinOrRace, Judge, RequestStop, Requested,
      StopWins, Verification, VerifyWins
<1>6. CASE Joining
  BY <1>6, SMTT(20)
  DEF Joined, Joining, OrphansChecked, RaceEnds, Stopped, Throws
<1>7. CASE DrainOutput
  BY <1>7, SMTT(20)
  DEF Destroyed, DrainOutput, DrainOverdue, DrainTimeout, Drained, FlushFails,
      Flushed, MirrorOverdue, Mirrored, RequestOutputFailure, Requested
<1>8. CASE EndTelemetry
  BY <1>8, SMTT(20)
  DEF EndTelemetry, FinalPoll, NoPollLeft, RequestStop, Requested,
      TelemetryThrows, WorkerCloses
<1>9. CASE Conclude
  BY <1>9, SMTT(20)
  DEF Conclude
<1>10. CASE Catch
  BY <1>10, SMTT(20)
  DEF Catch, CatchEmpty, CatchLive, CatchStopped, Caught, CaughtBy, Report
<1>11. CASE Finally
  BY <1>11, SMTT(20)
  DEF Finally
<1>12. CASE Termination
  BY <1>12, SMTT(20)
  DEF After, Crashes, GraceEnds, HandleStop, KillEnds, SendTerm, Settled,
      TermBecomes, Termination, Unheard
<1>13. CASE ExitEvent
  BY <1>13, SMTT(20)
  DEF ExitEvent
<1>14. CASE OrphanCheck
  BY <1>14, SMTT(20)
  DEF OrphanCheck
<1>15. CASE Signal \/ TimeLimit \/ Polls
  BY <1>15, SMTT(20)
  DEF PollAnswered, PollBegins, PollFails, Polls, RequestStop, Requested,
      Signal, TimeLimit
<1>16. CASE Output
  BY <1>16, SMTT(20)
  DEF CaptureSettles, ChunkLost, ChunkRefused, ChunkRelayed, MirrorSettles,
      Output, OutputBreaks, OutputEnds, RequestOutputFailure, RequestStop,
      Requested
<1>17. CASE UNCHANGED vars
  BY <1>17 DEF vars
<1> QED BY <1>1, <1>2, <1>3, <1>4, <1>5, <1>6, <1>7, <1>8, <1>9, <1>10, <1>11,
       <1>12, <1>13, <1>14, <1>15, <1>16, <1>17
  DEF Next, Main

\* The timers are armed once, at the launch.
LEMMA DisarmedStep == IndInv /\ [Next]_vars => Disarmed'
<1> SUFFICES ASSUME Disarmed, Unlaunched, [Next]_vars
             PROVE  Disarmed'
  BY DEF IndInv
<1> USE DEF Disarmed, Unlaunched
<1>1. CASE Spawned \/ Verification \/ DrainOutput \/ EndTelemetry \/ Finally
            \/ Hashed
  BY <1>1
  DEF Destroyed, DrainOutput, DrainTimeout, Drained, EndTelemetry, ExitWins,
      FinalPoll, Finally, FlushFails, Flushed, Hashed, HashingEnds,
      MirrorOverdue, Mirrored, NoPollLeft, Spawned, StopWins, TelemetryThrows,
      Verification, VerifyEnds, VerifyWins, WorkerCloses
<1>2. CASE OrphanCheck \/ Signal \/ TimeLimit \/ Polls \/ WorkerStarts \/
            WorkerDies \/ Group \/ Output
  BY <1>2
  DEF CaptureSettles, ChunkLost, ChunkRefused, ChunkRelayed, DescendantDies,
      Escape, EscapeeDies, Fork, Group, LeaderDies, MirrorSettles,
      OrphanCheck, Output, OutputBreaks, OutputEnds, PollAnswered, PollBegins,
      PollFails, Polls, Reaped, Signal, TimeLimit, WorkerBecomes, WorkerDies,
      WorkerStarts, Write
<1>3. CASE PreLaunch
  BY <1>3
  DEF Launch, PreLaunch, PreLaunchError, PreLaunchStop, StartTelemetry
<1>4. CASE SpawnFails
  BY <1>4
  DEF SpawnFails
<1>5. CASE Joining
  BY <1>5
  DEF Joined, Joining, OrphansChecked, RaceEnds, Stopped, Throws
<1>6. CASE Conclude
  BY <1>6
  DEF Conclude, Report
<1>7. CASE Catch
  BY <1>7
  DEF Catch, CatchEmpty, CatchLive, CatchStopped, Caught, CaughtBy, Report
<1>8. CASE Termination
  BY <1>8
  DEF GraceEnds, HandleStop, KillEnds, Settled, Termination
<1>9. CASE ExitEvent
  BY <1>9
  DEF ExitEvent, Exited
<1>10. CASE UNCHANGED vars
  BY <1>10 DEF vars
<1> QED BY <1>1, <1>2, <1>3, <1>4, <1>5, <1>6, <1>7, <1>8, <1>9, <1>10
  DEF Next, Main

\* Each step moves a chunk on, or loses it.
LEMMA CountedStep == IndInv /\ [Next]_vars => Counted'
<1> SUFFICES ASSUME TypeOK, Counted, [Next]_vars
             PROVE  Counted'
  BY DEF IndInv
<1> USE DEF Counted, FlagsOK, InFlight, OutputTypeOK, StatesOK, TypeOK,
    Writing
<1>1. CASE PreLaunch \/ Spawned \/ SpawnFails \/ Verification \/ Joining \/
            EndTelemetry
  BY <1>1, SMTT(20)
  DEF EndTelemetry, ExitWins, FinalPoll, HashingEnds, Joined, Joining, Launch,
      NoPollLeft, OrphansChecked, PreLaunch, PreLaunchError, PreLaunchStop,
      RaceEnds, Report, SpawnFails, Spawned, StartTelemetry, StopWins,
      Stopped, TelemetryThrows, Throws, Verification, VerifyWins, WorkerCloses
<1>2. CASE Conclude \/ Catch \/ Finally \/ Termination \/ Hashed \/ ExitEvent
  BY <1>2, SMTT(20)
  DEF Catch, CatchEmpty, CatchLive, CatchStopped, Caught, CaughtBy, Conclude,
      ExitEvent, Finally, GraceEnds, HandleStop, Hashed, KillEnds, Report,
      Settled, Termination, VerifyEnds
<1>3. CASE OrphanCheck \/ Signal \/ TimeLimit \/ Polls \/ WorkerStarts \/
            WorkerDies
  BY <1>3, SMTT(20)
  DEF OrphanCheck, PollAnswered, PollBegins, PollFails, Polls, Signal,
      TimeLimit, WorkerBecomes, WorkerDies, WorkerStarts
<1>4. CASE DrainOutput
  BY <1>4, OutputAssumption, GroupAssumption, SMTT(20)
  DEF AbandonCapture, AbandonMirror, BeginClose, Destroyed, DrainOutput,
      DrainTimeout, Drained, FlushCapture, FlushFails, Flushed, MirrorOverdue,
      Mirrored, StreamCloses
<1>5. CASE Group
  BY <1>5, OutputAssumption, GroupAssumption, SMTT(20)
  DEF DescendantDies, Escape, EscapeeDies, Fork, Group, LeaderDies, Produce,
      Reaped, Write
<1>6. CASE Output
  BY <1>6, OutputAssumption, GroupAssumption, SMTT(20)
  DEF Begun, CaptureFails, CaptureSettles, CaptureWritten, ChunkLost,
      ChunkRefused, ChunkRelayed, LoseChunk, MirrorFails, MirrorSettles,
      MirrorWritten, Output, OutputBreaks, OutputEnds, Paused, Relay,
      RelayRefused, StreamCloses, StreamEnds, TakeChunk
<1>7. CASE UNCHANGED vars
  BY <1>7 DEF vars
<1> QED BY <1>1, <1>2, <1>3, <1>4, <1>5, <1>6, <1>7
  DEF Next, Main

\* What loses a chunk, or fails a write, asks for a stop.
LEMMA KeptStep == IndInv /\ [Next]_vars => Kept'
<1> SUFFICES ASSUME Kept, TypeOK, Caused, [Next]_vars
             PROVE  Kept'
  BY DEF IndInv
<1> USE DEF Caused, FlagsOK, InFlight, Kept, OutputTypeOK, StatesOK, TypeOK,
    Writing
<1>1. CASE PreLaunch \/ Spawned \/ SpawnFails \/ Joining \/ Conclude \/ Catch
  BY <1>1, SMTT(20)
  DEF Catch, CatchEmpty, CatchLive, CatchStopped, Caught, CaughtBy, Conclude,
      Joined, Joining, Launch, OrphansChecked, PreLaunch, PreLaunchError,
      PreLaunchStop, RaceEnds, Report, SpawnFails, Spawned, StartTelemetry,
      Stopped, Throws
<1>2. CASE Finally \/ Termination \/ Hashed \/ ExitEvent \/ WorkerStarts \/
            WorkerDies
  BY <1>2, SMTT(20)
  DEF ExitEvent, Finally, GraceEnds, HandleStop, Hashed, KillEnds, Settled,
      Termination, VerifyEnds, WorkerBecomes, WorkerDies, WorkerStarts
<1>3. CASE Verification
  BY <1>3, OutputAssumption, GroupAssumption, SMTT(20)
  DEF ExitWins, HashingEnds, Judge, RequestStop, Requested, StopWins,
      Verification, VerifyWins
<1>4. CASE DrainOutput
  BY <1>4, OutputAssumption, GroupAssumption, SMTT(20)
  DEF AbandonCapture, AbandonMirror, BeginClose, Destroyed, DrainOutput,
      DrainOverdue, DrainTimeout, Drained, FlushCapture, FlushFails, Flushed,
      MirrorOverdue, Mirrored, RequestOutputFailure, Requested, StreamCloses
<1>5. CASE EndTelemetry
  BY <1>5, OutputAssumption, GroupAssumption, SMTT(20)
  DEF EndTelemetry, FinalPoll, NoPollLeft, RequestStop, Requested,
      TelemetryThrows, WorkerCloses
<1>6. CASE OrphanCheck
  BY <1>6, OutputAssumption, GroupAssumption, SMTT(20)
  DEF OrphanCheck
<1>7. CASE Signal \/ TimeLimit \/ Polls
  BY <1>7, OutputAssumption, GroupAssumption, SMTT(20)
  DEF PollAnswered, PollBegins, PollFails, Polls, RequestStop, Requested,
      Signal, TimeLimit
<1>8. CASE Group
  BY <1>8, OutputAssumption, GroupAssumption, SMTT(20)
  DEF DescendantDies, Escape, EscapeeDies, Fork, Group, LeaderDies, Produce,
      Reaped, Write
<1>9. CASE Output
  BY <1>9, OutputAssumption, GroupAssumption, SMTT(20)
  DEF Begun, CaptureFails, CaptureSettles, CaptureWritten, ChunkLost,
      ChunkRefused, ChunkRelayed, LoseChunk, MirrorFails, MirrorSettles,
      MirrorWritten, Output, OutputBreaks, OutputEnds, Paused, Relay,
      RelayRefused, RequestOutputFailure, RequestStop, Requested,
      StreamCloses, StreamEnds, TakeChunk
<1>10. CASE UNCHANGED vars
  BY <1>10 DEF vars
<1> QED BY <1>1, <1>2, <1>3, <1>4, <1>5, <1>6, <1>7, <1>8, <1>9, <1>10
  DEF Next, Main

\* Nothing is read or written any more once the stream has ended.
LEMMA EndedStep == IndInv /\ [Next]_vars => Ended'
<1> SUFFICES ASSUME Ended, TypeOK, Flushing, [Next]_vars
             PROVE  Ended'
  BY DEF IndInv
<1> USE DEF Ended, FlagsOK, Flushing, OutputTypeOK, StatesOK, TypeOK, Writing
<1>1. CASE PreLaunch \/ Spawned \/ SpawnFails \/ Verification \/ Joining \/
            EndTelemetry
  BY <1>1, SMTT(20)
  DEF EndTelemetry, ExitWins, FinalPoll, HashingEnds, Joined, Joining, Launch,
      NoPollLeft, OrphansChecked, PreLaunch, PreLaunchError, PreLaunchStop,
      RaceEnds, Report, SpawnFails, Spawned, StartTelemetry, StopWins,
      Stopped, TelemetryThrows, Throws, Verification, VerifyWins, WorkerCloses
<1>2. CASE Conclude \/ Catch \/ Finally \/ Termination \/ Hashed \/ ExitEvent
  BY <1>2, SMTT(20)
  DEF Catch, CatchEmpty, CatchLive, CatchStopped, Caught, CaughtBy, Conclude,
      ExitEvent, Finally, GraceEnds, HandleStop, Hashed, KillEnds, Report,
      Settled, Termination, VerifyEnds
<1>3. CASE OrphanCheck \/ Signal \/ TimeLimit \/ Polls \/ WorkerStarts \/
            WorkerDies
  BY <1>3, SMTT(20)
  DEF OrphanCheck, PollAnswered, PollBegins, PollFails, Polls, Signal,
      TimeLimit, WorkerBecomes, WorkerDies, WorkerStarts
<1>4. CASE DrainOutput
  BY <1>4, SMTT(20)
  DEF AbandonCapture, AbandonMirror, BeginClose, Destroyed, DrainOutput,
      DrainTimeout, Drained, FlushCapture, FlushFails, Flushed, MirrorOverdue,
      Mirrored, StreamCloses
<1>5. CASE Group
  BY <1>5, SMTT(20)
  DEF DescendantDies, Escape, EscapeeDies, Fork, Group, LeaderDies, Produce,
      Reaped, Write
<1>6. CASE Output
  BY <1>6, SMTT(20)
  DEF Begun, CaptureFails, CaptureSettles, CaptureWritten, ChunkLost,
      ChunkRefused, ChunkRelayed, LoseChunk, MirrorFails, MirrorSettles,
      MirrorWritten, Output, OutputBreaks, OutputEnds, Paused, Relay,
      RelayRefused, StreamCloses, StreamEnds, TakeChunk
<1>7. CASE UNCHANGED vars
  BY <1>7 DEF vars
<1> QED BY <1>1, <1>2, <1>3, <1>4, <1>5, <1>6, <1>7
  DEF Next, Main

\* The phases of the wrap-up come in their order.
LEMMA FlushingStep == IndInv /\ [Next]_vars => Flushing'
<1> SUFFICES ASSUME Flushing, Ended, TypeOK, [Next]_vars
             PROVE  Flushing'
  BY DEF IndInv
<1> USE DEF Before, Ended, FlagsOK, Flushing, OutputTypeOK, Phases, StatesOK,
    Terminating, TypeOK, WrapUp, Writing
<1>1. CASE Hashed \/ ExitEvent \/ OrphanCheck \/ Signal \/ TimeLimit \/ Polls
            \/ WorkerStarts \/ WorkerDies \/ Group
  BY <1>1, SMTT(20)
  DEF DescendantDies, Escape, EscapeeDies, ExitEvent, Fork, Group, Hashed,
      LeaderDies, OrphanCheck, PollAnswered, PollBegins, PollFails, Polls,
      Produce, Reaped, Signal, TimeLimit, VerifyEnds, WorkerBecomes,
      WorkerDies, WorkerStarts, Write
<1>2. CASE PreLaunch
  BY <1>2, SMTT(20)
  DEF Launch, PreLaunch, PreLaunchError, PreLaunchStop, Report, StartTelemetry
<1>3. CASE Spawned
  BY <1>3, SMTT(20)
  DEF Spawned
<1>4. CASE SpawnFails
  BY <1>4, SMTT(20)
  DEF Report, SpawnFails
<1>5. CASE Verification
  BY <1>5, SMTT(20)
  DEF ExitWins, HashingEnds, JoinOrRace, StopWins, Verification, VerifyWins
<1>6. CASE Joining
  BY <1>6, SMTT(20)
  DEF First, Joined, Joining, OrphansChecked, RaceEnds, Stopped, Throws
<1>7. CASE DrainOutput
  BY <1>7, SMTT(20)
  DEF AbandonCapture, AbandonMirror, BeginClose, Destroyed, DrainOutput,
      DrainTimeout, Drained, FlushCapture, FlushFails, Flushed, MirrorOverdue,
      Mirrored, StreamCloses
<1>8. CASE EndTelemetry
  BY <1>8, SMTT(20)
  DEF EndTelemetry, FinalPoll, NoPollLeft, TelemetryThrows, WorkerCloses
<1>9. CASE Conclude
  BY <1>9, SMTT(20)
  DEF Conclude
<1>10. CASE Catch
  BY <1>10, SMTT(20)
  DEF Catch, CatchEmpty, CatchLive, CatchStopped, Caught, CaughtBy, Report
<1>11. CASE Finally
  BY <1>11, SMTT(20)
  DEF Finally
<1>12. CASE Termination
  BY <1>12, SMTT(20)
  DEF After, Crashes, GraceEnds, HandleStop, KillEnds, SendTerm, Settled,
      TermBecomes, Termination, Unheard
<1>13. CASE Output
  BY <1>13, SMTT(20)
  DEF Begun, CaptureFails, CaptureSettles, CaptureWritten, ChunkLost,
      ChunkRefused, ChunkRelayed, LoseChunk, MirrorFails, MirrorSettles,
      MirrorWritten, Output, OutputBreaks, OutputEnds, Paused, Relay,
      RelayRefused, StreamCloses, StreamEnds, TakeChunk
<1>14. CASE UNCHANGED vars
  BY <1>14 DEF vars
<1> QED BY <1>1, <1>2, <1>3, <1>4, <1>5, <1>6, <1>7, <1>8, <1>9, <1>10, <1>11,
       <1>12, <1>13, <1>14
  DEF Next, Main

\* Conclude builds the receipt from what the other parts say, and nothing
\* changes it.
LEMMA BackedStep == IndInv /\ [Next]_vars => Backed'
<1> SUFFICES ASSUME Backed, TypeOK, ReceiptAtEnd, Unlaunched, Caused, Passed,
                 Flushing, Kept, [Next]_vars
             PROVE  Backed'
  BY DEF IndInv
<1> USE DEF Backed, Before, Caused, Codes, FlagsOK, Flushing, InFlight, Kept,
    NoReceipt, OutputTypeOK, Over, Passed, Phases, ReceiptAtEnd, Receipts,
    StatesOK, Terminating, TypeOK, Unlaunched, WrapUp, Writing
<1>1. CASE Spawned \/ Joining \/ Finally \/ Hashed \/ WorkerStarts \/
            WorkerDies \/ Group
  BY <1>1, SMTT(20)
  DEF DescendantDies, Escape, EscapeeDies, Finally, Fork, Group, Hashed,
      Joined, Joining, LeaderDies, OrphansChecked, RaceEnds, Reaped, Spawned,
      Stopped, Throws, VerifyEnds, WorkerBecomes, WorkerDies, WorkerStarts,
      Write
<1>2. CASE PreLaunch
  BY <1>2, SMTT(20)
  DEF Launch, PreLaunch, PreLaunchError, PreLaunchStop, Report, StartTelemetry
<1>3. CASE SpawnFails
  BY <1>3, SMTT(20)
  DEF Report, SpawnFails
<1>4. CASE Verification
  BY <1>4, SMTT(20)
  DEF ExitWins, HashingEnds, JoinOrRace, StopWins, Verification, VerifyWins
<1>5. CASE DrainOutput
  BY <1>5, SMTT(20)
  DEF Destroyed, DrainOutput, DrainTimeout, Drained, FlushFails, Flushed,
      MirrorOverdue, Mirrored
<1>6. CASE EndTelemetry
  BY <1>6, SMTT(20)
  DEF EndTelemetry, FinalPoll, NoPollLeft, TelemetryThrows, WorkerCloses
<1>7. CASE Conclude
  <2> USE <1>7 DEF Conclude, Report, State, Reason
  <2>1. /\ receipt'.state = State(Reason) /\ receipt'.confirmed = confirmed
        /\ receipt'.stable = stable
    OBVIOUS
  <2>2. UNCHANGED <<stop, outputFailure, exitSeen, mode, capture, stream>>
    OBVIOUS
  <2>3. CASE State(Reason) = "ERROR"
    BY <2>1, <2>3
  <2>4. CASE State(Reason) # "ERROR"
    <3>1. confirmed /\ ~outputFailure
      BY <2>4 DEF Errors
    <3>2. mode = "captured" => capture # "busy"
      OBVIOUS
    <3>3. ASSUME State(Reason) = "EXITED" PROVE stop = "none"
      BY <3>1, <3>3
    <3> QED BY <2>1, <2>2, <3>1, <3>2, <3>3
  <2> QED BY <2>3, <2>4
<1>8. CASE Catch
  BY <1>8, SMTT(20)
  DEF Catch, CatchEmpty, CatchLive, CatchStopped, Caught, CaughtBy, Report
<1>9. CASE Termination
  BY <1>9, SMTT(20)
  DEF GraceEnds, HandleStop, KillEnds, Settled, Termination
<1>10. CASE ExitEvent
  BY <1>10, SMTT(20)
  DEF ExitEvent
<1>11. CASE OrphanCheck
  BY <1>11, SMTT(20)
  DEF OrphanCheck
<1>12. CASE Signal \/ TimeLimit \/ Polls
  BY <1>12, SMTT(20)
  DEF PollAnswered, PollBegins, PollFails, Polls, Signal, TimeLimit
<1>13. CASE Output
  BY <1>13, SMTT(20)
  DEF Begun, CaptureFails, CaptureSettles, CaptureWritten, ChunkLost,
      ChunkRefused, ChunkRelayed, LoseChunk, MirrorFails, MirrorSettles,
      MirrorWritten, Output, OutputBreaks, OutputEnds, Paused, Relay,
      RelayRefused, StreamCloses, StreamEnds, TakeChunk
<1>14. CASE UNCHANGED vars
  BY <1>14 DEF vars
<1> QED BY <1>1, <1>2, <1>3, <1>4, <1>5, <1>6, <1>7, <1>8, <1>9, <1>10, <1>11,
       <1>12, <1>13, <1>14
  DEF Next, Main

-----------------------------------------------------------------------------

\* A run begins with nothing launched, reported or written.
LEMMA InitInv == Init => IndInv
<1> SUFFICES ASSUME Init PROVE IndInv
  OBVIOUS
<1> USE DEF Init, OutputInit
<1>1. OutputTypeOK
  BY OutputAssumption DEF OutputTypeOK, Writing
<1>2. FlagsOK /\ receipt \in Receipts
  BY DEF FlagsOK, NoReceipt, Receipts
<1>3. StatesOK
  BY GroupAssumption DEF StatesOK, Phases, Before, Terminating
<1>4. ReceiptAtEnd /\ Gone /\ Caused /\ Passed
  BY DEF ReceiptAtEnd, Gone, Live, NoReceipt, Caused, Passed, WrapUp
<1>5. Unlaunched
  BY DEF Unlaunched, Before
<1>6. Disarmed /\ Counted /\ Kept /\ Ended /\ Flushing /\ Backed
  BY DEF Disarmed, Counted, InFlight, Kept, Ended, Flushing, WrapUp, Backed,
         NoReceipt
<1> QED BY <1>1, <1>2, <1>3, <1>4, <1>5, <1>6 DEF IndInv, TypeOK

\* The inductive invariant holds in every state of a run.
THEOREM Invariance == Spec => []IndInv
<1>1. IndInv /\ [Next]_vars => TypeOK'
  BY OutputStepOK, FlagStep, StateStep, ReceiptStep DEF TypeOK
<1>2. IndInv /\ [Next]_vars => IndInv'
  BY <1>1, ReceiptAtEndStep, UnlaunchedStep, GoneStep, CausedStep, PassedStep,
     DisarmedStep, CountedStep, KeptStep, EndedStep, FlushingStep, BackedStep
  DEF IndInv
<1> QED BY <1>2, InitInv, PTL DEF Spec

\* An EXITED receipt is of a run whose exit was seen, whose executable was
\* verified after the launch, and that nothing asked to stop.
THEOREM ExitsVerified == Spec => []ExitedVerified
<1>1. IndInv => ExitedVerified
  BY DEF IndInv, Backed, ExitedVerified
<1> QED BY <1>1, Invariance, PTL

\* An EXITED receipt of a captured run means that the capture file and stdout
\* hold all that the processes wrote: the stream was read to its end, nothing
\* was in flight any more, and nothing had been lost.
THEOREM ExitsWhole == Spec => []ExitedWhole
<1>1. IndInv => ExitedWhole
  <2> SUFFICES ASSUME IndInv, receipt.state = "EXITED", mode = "captured"
               PROVE  written = produced /\ mirrored = produced
    BY DEF ExitedWhole
  <2>1. stop = "none" /\ stream = "ended"
    BY DEF IndInv, Backed
  <2>2. unread = 0 /\ InFlight(capture) = 0 /\ InFlight(mirror) = 0
    BY <2>1 DEF IndInv, Ended, InFlight
  <2>3. unread + written = produced /\ unread + mirrored = produced
    BY <2>1, <2>2, OutputAssumption DEF IndInv, Kept, TypeOK, OutputTypeOK
  <2> QED BY <2>2, <2>3, OutputAssumption DEF IndInv, TypeOK, OutputTypeOK
<1> QED BY <1>1, Invariance, PTL

\* A receipt that confirms the termination of the process group stays true:
\* no member is alive.
THEOREM Contained == Spec => []ContainedMeansGone
<1>1. IndInv => ContainedMeansGone
  BY DEF IndInv, Gone, ContainedMeansGone
<1> QED BY <1>1, Invariance, PTL

\* A termination that was not confirmed, or an output that failed, makes the
\* receipt an ERROR, whatever had stopped the run before.
THEOREM FailuresShown == Spec => []FailureShown
<1>1. IndInv => FailureShown
  BY DEF IndInv, TypeOK, Receipts, Backed, FailureShown
<1> QED BY <1>1, Invariance, PTL

\* Only the deadline asks for a TIME_LIMIT, and the exit has disarmed it.
THEOREM KeepsItsLabel == Spec => NotRelabelled
<1> DEFINE Label == exitSeen /\ stop' = "TIME_LIMIT" => stop = "TIME_LIMIT"
<1>1. Next /\ stop # "TIME_LIMIT" /\ stop' = "TIME_LIMIT" => TimeLimit
  <2> SUFFICES ASSUME Next, ~TimeLimit, stop # "TIME_LIMIT"
               PROVE  stop' # "TIME_LIMIT"
    OBVIOUS
  <2>1. CASE PreLaunch \/ Spawned \/ SpawnFails \/ Joining \/ Conclude \/ Catch \/
             Finally \/ Termination
    BY <2>1
    DEF PreLaunch, PreLaunchStop, PreLaunchError, StartTelemetry, Launch, Spawned,
        SpawnFails, Joining, Throws, Joined, RaceEnds, OrphansChecked, Stopped,
        Conclude, Catch, CatchStopped, CatchLive, CatchEmpty, Caught, CaughtBy,
        Finally, Termination, HandleStop, GraceEnds, KillEnds, Settled
  <2>2. CASE Verification \/ DrainOutput \/ EndTelemetry
    BY <2>2, SMTT(20)
    DEF Verification, VerifyWins, StopWins, ExitWins, HashingEnds, Judge,
        DrainOutput, Drained, DrainTimeout, DrainOverdue, Destroyed, Flushed,
        FlushFails, Mirrored, MirrorOverdue, EndTelemetry, NoPollLeft, FinalPoll,
        WorkerCloses, TelemetryThrows, RequestStop, RequestOutputFailure, Requested
  <2>3. CASE Signal \/ Polls
    BY <2>3, SMTT(20)
    DEF Signal, Polls, PollBegins, PollAnswered, PollFails,
        RequestStop, Requested
  <2>4. CASE Hashed \/ ExitEvent \/ OrphanCheck \/ WorkerStarts \/ WorkerDies \/
             Group
    BY <2>4, SMTT(20)
    DEF Hashed, VerifyEnds, ExitEvent, OrphanCheck, WorkerStarts, WorkerDies,
        WorkerBecomes, Group, Fork, LeaderDies, DescendantDies, Reaped, Escape,
        EscapeeDies, Write, RequestStop, Requested
  <2>5. CASE Output
    BY <2>5, SMTT(20)
    DEF Output, ChunkRelayed, ChunkRefused, ChunkLost, CaptureSettles,
        MirrorSettles, OutputEnds, OutputBreaks, RequestStop,
        RequestOutputFailure, Requested
  <2> QED BY <2>1, <2>2, <2>3, <2>4, <2>5 DEF Next, Main
<1>2. TimeLimit => timers
  BY DEF TimeLimit
<1>3. IndInv /\ [Next]_vars => Label
  BY <1>1, <1>2 DEF IndInv, Disarmed, vars
<1> QED BY <1>3, Invariance, PTL DEF Spec, NotRelabelled
=============================================================================
