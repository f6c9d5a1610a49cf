---------------------------- MODULE GuardProofs ----------------------------
(***************************************************************************)
(* For any number of drills, artifacts, environments and commits and any   *)
(* lengths of the windows: an approval rests on single drills, and what is *)
(* accepted is covered by every document behind it.                        *)
(***************************************************************************)
EXTENDS GuardInv, TLAPS

-----------------------------------------------------------------------------

LEMMA PathFacts ==
    /\ Nowhere \in [Paths -> Nat] /\ Exact \in [Paths -> Nat]
    /\ Total(Exact) = 1 /\ Total(Nowhere) = 0
  BY DEF Nowhere, Exact, Paths, Total

(* One more request keeps the record true, whether it is kept or not.       *)
LEMMA RecordedKeeps ==
    ASSUME NEW log \in [seen : [Paths -> Nat], odd : BOOLEAN],
           NEW path \in Paths, NEW proper \in BOOLEAN,
           NEW came \in [Paths -> Nat],
           ~log.odd /\ Total(log.seen) < MaxRecorded => log.seen = came,
           NEW new, new = Recorded(log, path, proper),
           NEW now2, now2 = [came EXCEPT ![path] = @ + 1]
    PROVE  /\ new \in [seen : [Paths -> Nat], odd : BOOLEAN]
           /\ now2 \in [Paths -> Nat]
           /\ ~new.odd /\ Total(new.seen) < MaxRecorded => new.seen = now2
  <1>1. now2 \in [Paths -> Nat]
    OBVIOUS
  <1>2. CASE Total(log.seen) < MaxRecorded
    <2> DEFINE more == [log.seen EXCEPT ![path] = @ + 1]
    <2>1. new = [seen |-> more, odd |-> log.odd \/ ~proper]
      BY <1>2 DEF Recorded
    <2>2. new.seen = more /\ new.odd = (log.odd \/ ~proper)
      BY <2>1
    <2>3. more \in [Paths -> Nat]
      OBVIOUS
    <2>4. new \in [seen : [Paths -> Nat], odd : BOOLEAN]
      BY <2>1, <2>3
    <2>5. ~new.odd => new.seen = now2
      BY <1>2, <2>2
    <2> QED BY <1>1, <2>4, <2>5
  <1>3. CASE ~(Total(log.seen) < MaxRecorded)
    <2>1. new = log
      BY <1>3 DEF Recorded
    <2> QED BY <1>1, <1>3, <2>1
  <1> QED BY <1>2, <1>3

(* A request cut off by its timer shows in the record, unless it is full.   *)
LEMMA UnfinishedShows ==
    ASSUME NEW log \in [seen : [Paths -> Nat], odd : BOOLEAN],
           NEW path \in Paths, NEW proper \in BOOLEAN, ~proper,
           NEW new, new = Recorded(log, path, proper)
    PROVE  /\ new \in [seen : [Paths -> Nat], odd : BOOLEAN]
           /\ new.odd \/ ~(Total(new.seen) < MaxRecorded)
  <1>1. CASE Total(log.seen) < MaxRecorded
    <2> DEFINE more == [log.seen EXCEPT ![path] = @ + 1]
    <2>1. more \in [Paths -> Nat]
      OBVIOUS
    <2>2. new = [seen |-> more, odd |-> log.odd \/ ~proper]
      BY <1>1 DEF Recorded
    <2>3. new \in [seen : [Paths -> Nat], odd : BOOLEAN]
      BY <2>1, <2>2
    <2>4. new.odd = (log.odd \/ ~proper)
      BY <2>2
    <2> QED BY <2>3, <2>4
  <1>2. CASE ~(Total(log.seen) < MaxRecorded)
    BY <1>2 DEF Recorded
  <1> QED BY <1>1, <1>2

LEMMA ChallengeKnown ==
    ASSUME NEW d \in Drills, Issued(d), IssuedTrue
    PROVE  ChallengeOf(d) \in challenges /\ ChallengeOf(d).drill = d
  BY DEF Issued, ChallengeOf

LEMMA InitInv == Init => IndInv
  <1> SUFFICES ASSUME Init PROVE IndInv
    OBVIOUS
  <1> USE ControlAssumption, AdmissionAssumption, PathFacts
  <1>1. TypeOK
    BY DEF Init, TypeOK, Idle, Silent, NoRun, BaseRun, BaseClosed, Paths, Exact,
           Nowhere
  <1>2. LogTrue
    BY DEF Init, LogTrue, Idle, Silent
  <1>3. ObservationTrue
    BY DEF Init, ObservationTrue, Observation, ObservationStatus, BaseChallenge,
           Challenge, BaseClosed
  <1>4. IssuedTrue
    BY DEF Init, IssuedTrue, Issued, BaseChallenge, Challenge, Idle, BaseEnv
  <1>5. ReceiptTrue
    <2>1. /\ BaseReceipt.hook["ALLOW"] = 1 /\ BaseReceipt.hook["DENY"] = 1
          /\ ~BaseReceipt.marked["DENY"]
      BY DEF BaseReceipt, Receipt, BaseRun, Paths
    <2> QED BY <2>1 DEF Init, ReceiptTrue
  <1>6. AdmissionTrue /\ AuthorizationTrue /\ AcceptedTrue
    BY DEF Init, AdmissionTrue, AuthorizationTrue, AcceptedTrue
  <1> QED BY <1>1, <1>2, <1>3, <1>4, <1>5, <1>6 DEF IndInv

-----------------------------------------------------------------------------
(* The documents only grow, and an admission keeps what it rests on.        *)

LEMMA PapersStable ==
    ASSUME AdmissionTrue, AuthorizationTrue, AcceptedTrue,
           challenges \subseteq challenges', observations \subseteq observations',
           receipts \subseteq receipts',
           admissions' = admissions, authorizations' = authorizations,
           accepted' = accepted
    PROVE  AdmissionTrue' /\ AuthorizationTrue' /\ AcceptedTrue'
  BY DEF AdmissionTrue, AuthorizationTrue, AcceptedTrue

(* A request, hanging or whole, at an observer that is open.                *)
LEMMA OpenObserverInv ==
    ASSUME IndInv, NEW d \in Drills, NEW entry, watch[d].stage = "open",
           entry \in [stage : {"open"},
                      log : [seen : [Paths -> Nat], odd : BOOLEAN],
                      hanging : SUBSET Paths],
           watch' = [watch EXCEPT ![d] = entry],
           reached' \in [Drills -> [Paths -> Nat]],
           \A e \in Drills : e # d => reached'[e] = reached[e],
           ~entry.log.odd /\ Total(entry.log.seen) < MaxRecorded
               => entry.log.seen = reached'[d],
           challenges' = challenges, observations' = observations
    PROVE  LogTrue' /\ ObservationTrue' /\ IssuedTrue'
  <1> USE DEF IndInv
  <1>1. /\ watch'[d] = entry
        /\ \A e \in Drills : e # d => watch'[e] = watch[e]
    BY DEF TypeOK
  <1>2. LogTrue'
    BY <1>1 DEF LogTrue
  <1>3. ObservationTrue'
    BY <1>1 DEF ObservationTrue
  <1>4. IssuedTrue'
    BY <1>1 DEF IssuedTrue, Issued
  <1> QED BY <1>2, <1>3, <1>4

LEMMA ArrivesInv ==
    ASSUME IndInv, NEW d \in Drills, NEW path \in Paths, NEW proper \in BOOLEAN,
           watch[d].stage = "open", Arrives(d, path, proper),
           challenges' = challenges, observations' = observations
    PROVE  /\ LogTrue' /\ ObservationTrue' /\ IssuedTrue'
           /\ watch' \in [Drills -> [stage : {"idle", "open", "closed", "gone"},
                               log : [seen : [Paths -> Nat], odd : BOOLEAN],
                               hanging : SUBSET Paths]]
           /\ reached' \in [Drills -> [Paths -> Nat]]
  <1> DEFINE log == Recorded(watch[d].log, path, proper)
             came == [reached[d] EXCEPT ![path] = @ + 1]
             entry == [stage |-> "open", log |-> log, hanging |-> watch[d].hanging]
  <1>1. /\ watch[d] \in [stage : {"idle", "open", "closed", "gone"},
                          log : [seen : [Paths -> Nat], odd : BOOLEAN],
                          hanging : SUBSET Paths]
        /\ watch[d].log \in [seen : [Paths -> Nat], odd : BOOLEAN]
        /\ reached[d] \in [Paths -> Nat]
    BY DEF IndInv, TypeOK
  <1>2. ~watch[d].log.odd /\ Total(watch[d].log.seen) < MaxRecorded
            => watch[d].log.seen = reached[d]
    BY DEF IndInv, LogTrue
  <1>3. /\ log \in [seen : [Paths -> Nat], odd : BOOLEAN]
        /\ came \in [Paths -> Nat]
        /\ ~log.odd /\ Total(log.seen) < MaxRecorded => log.seen = came
    BY <1>1, <1>2, RecordedKeeps
  <1>4. /\ watch' = [watch EXCEPT ![d] = entry]
        /\ reached' = [reached EXCEPT ![d] = came]
    <2>1. [watch[d] EXCEPT !.log = log] = entry
      BY <1>1
    <2> QED BY <2>1 DEF Arrives
  <1> HIDE DEF log, came
  <1>5. /\ entry \in [stage : {"open"},
                       log : [seen : [Paths -> Nat], odd : BOOLEAN],
                       hanging : SUBSET Paths]
        /\ entry.log = log
    BY <1>1, <1>3
  <1> HIDE DEF entry
  <1>6. /\ reached' \in [Drills -> [Paths -> Nat]]
        /\ reached'[d] = came
        /\ \A e \in Drills : e # d => reached'[e] = reached[e]
    BY <1>3, <1>4 DEF IndInv, TypeOK
  <1>7. LogTrue' /\ ObservationTrue' /\ IssuedTrue'
    BY <1>3, <1>4, <1>5, <1>6, OpenObserverInv
  <1>8. watch' \in [Drills -> [stage : {"idle", "open", "closed", "gone"},
                               log : [seen : [Paths -> Nat], odd : BOOLEAN],
                               hanging : SUBSET Paths]]
    BY <1>4, <1>5 DEF IndInv, TypeOK
  <1> QED BY <1>6, <1>7, <1>8

(* A step that leaves the observers alone.                                  *)
LEMMA ObserversStable ==
    ASSUME IndInv, UNCHANGED <<watch, reached, challenges, observations>>
    PROVE  LogTrue' /\ ObservationTrue' /\ IssuedTrue'
  BY DEF IndInv, LogTrue, ObservationTrue, IssuedTrue, Issued

-----------------------------------------------------------------------------
(* The observer's actions.                                                  *)

LEMMA OpenInv ==
    ASSUME IndInv, NEW d \in Drills, NEW art \in Artifacts,
           NEW env \in Environments, Open(d, art, env)
    PROVE  IndInv'
  <1> USE DEF IndInv
  <1> DEFINE c == Challenge(d, art, env, now, now + Duration)
             entry == [watch[d] EXCEPT !.stage = "open"]
  <1>1. watch[d].stage = "idle" /\ watch[d] \in
            [stage : {"idle", "open", "closed", "gone"},
             log : [seen : [Paths -> Nat], odd : BOOLEAN], hanging : SUBSET Paths]
    BY DEF Open, IssuedTrue, TypeOK
  <1>2. /\ watch' = [watch EXCEPT ![d] = entry]
        /\ entry.stage = "open" /\ entry.log = watch[d].log
        /\ entry \in [stage : {"idle", "open", "closed", "gone"},
                      log : [seen : [Paths -> Nat], odd : BOOLEAN],
                      hanging : SUBSET Paths]
    BY <1>1 DEF Open
  <1> HIDE DEF entry
  <1>3. /\ watch'[d] = entry
        /\ \A e \in Drills : e # d => watch'[e] = watch[e]
        /\ UNCHANGED <<now, reached, observations, run, receipts>>
    BY <1>2 DEF Open, TypeOK, host
  <1>4. TypeOK'
    BY <1>2, <1>3 DEF TypeOK
  <1>5. LogTrue'
    BY <1>1, <1>2, <1>3 DEF LogTrue
  <1>6. ObservationTrue'
    BY <1>1, <1>3 DEF ObservationTrue
  <1>7. IssuedTrue'
    <2>1. challenges' = challenges \union {c} /\ c.drill = d /\ c.env = env
      BY DEF Open, Challenge
    <2> HIDE DEF c
    <2>2. \A e \in Drills : Issued(e) => Issued(e)'
      BY <2>1 DEF Issued
    <2>3. Issued(d)'
      BY <2>1 DEF Issued
    <2>4. \A e \in Drills : watch'[e].stage # "idle" => Issued(e)'
      BY <1>3, <2>2, <2>3 DEF IssuedTrue
    <2>5. \A k \in challenges' : /\ k.drill \in Drills /\ k.env \in Environments
                                /\ watch'[k.drill].stage # "idle"
      BY <1>2, <1>3, <2>1 DEF IssuedTrue
    <2> QED BY <2>4, <2>5 DEF IssuedTrue
  <1>8. ReceiptTrue' /\ AdmissionTrue' /\ AuthorizationTrue' /\ AcceptedTrue'
    BY PapersStable DEF Open, host, papers, ReceiptTrue
  <1> QED BY <1>4, <1>5, <1>6, <1>7, <1>8

(* What the requests leave alone.                                           *)
LEMMA OthersStable ==
    ASSUME IndInv, NEW f,
           UNCHANGED <<now, challenges, observations, receipts, papers>>,
           run' = f, f \in [Drills -> [stage : {"none", "running", "done"},
               serial : Nat, began : Nat, hook : [Paths -> Nat],
               marked : [Paths -> BOOLEAN]]]
    PROVE  /\ now' \in Nat
           /\ run' \in [Drills -> [stage : {"none", "running", "done"},
               serial : Nat, began : Nat, hook : [Paths -> Nat],
               marked : [Paths -> BOOLEAN]]]
           /\ ReceiptTrue' /\ AdmissionTrue' /\ AuthorizationTrue' /\ AcceptedTrue'
  BY PapersStable DEF IndInv, TypeOK, papers, ReceiptTrue

LEMMA StrayInv ==
    ASSUME IndInv, NEW d \in Drills, NEW path \in Paths, NEW proper \in BOOLEAN,
           Stray(d, path, proper)
    PROVE  IndInv'
  <1>1. /\ LogTrue' /\ ObservationTrue' /\ IssuedTrue'
        /\ watch' \in [Drills -> [stage : {"idle", "open", "closed", "gone"},
                               log : [seen : [Paths -> Nat], odd : BOOLEAN],
                               hanging : SUBSET Paths]]
        /\ reached' \in [Drills -> [Paths -> Nat]]
    BY ArrivesInv DEF Stray, Reachable
  <1>2. ReceiptTrue' /\ AdmissionTrue' /\ AuthorizationTrue' /\ AcceptedTrue'
    BY OthersStable DEF Stray, host, IndInv, TypeOK
  <1>3. TypeOK'
    BY <1>1 DEF Stray, host, IndInv, TypeOK
  <1> QED BY <1>1, <1>2, <1>3 DEF IndInv

LEMMA HangInv ==
    ASSUME IndInv, NEW d \in Drills, NEW path \in Paths, Hang(d, path)
    PROVE  IndInv'
  <1> DEFINE entry == [watch[d] EXCEPT !.hanging = @ \union {path}]
  <1>1. /\ watch[d] \in [stage : {"idle", "open", "closed", "gone"},
                          log : [seen : [Paths -> Nat], odd : BOOLEAN],
                          hanging : SUBSET Paths]
        /\ watch[d].stage = "open"
    BY DEF IndInv, TypeOK, Hang, Reachable
  <1>2. /\ watch' = [watch EXCEPT ![d] = entry]
        /\ entry \in [stage : {"open"},
                      log : [seen : [Paths -> Nat], odd : BOOLEAN],
                      hanging : SUBSET Paths]
        /\ entry.log = watch[d].log
    BY <1>1 DEF Hang
  <1> HIDE DEF entry
  <1>3. /\ ~entry.log.odd /\ Total(entry.log.seen) < MaxRecorded
                => entry.log.seen = reached'[d]
        /\ reached' \in [Drills -> [Paths -> Nat]] /\ reached' = reached
        /\ challenges' = challenges /\ observations' = observations
    BY <1>1, <1>2 DEF Hang, IndInv, LogTrue, TypeOK
  <1>7. LogTrue' /\ ObservationTrue' /\ IssuedTrue'
    BY <1>1, <1>2, <1>3, OpenObserverInv
  <1>4. ReceiptTrue' /\ AdmissionTrue' /\ AuthorizationTrue' /\ AcceptedTrue'
    BY OthersStable DEF Hang, host, IndInv, TypeOK
  <1>5. watch' \in [Drills -> [stage : {"idle", "open", "closed", "gone"},
                               log : [seen : [Paths -> Nat], odd : BOOLEAN],
                               hanging : SUBSET Paths]]
    BY <1>2 DEF IndInv, TypeOK
  <1>6. TypeOK'
    BY <1>5 DEF Hang, host, IndInv, TypeOK
  <1> QED BY <1>7, <1>4, <1>6 DEF IndInv

LEMMA BodyTimeoutInv ==
    ASSUME IndInv, NEW d \in Drills, NEW path \in Paths, BodyTimeout(d, path)
    PROVE  IndInv'
  <1>2. PICK proper \in BOOLEAN : proper = FALSE
    OBVIOUS
  <1> DEFINE log == Recorded(watch[d].log, path, proper)
             entry == [stage |-> "open", log |-> log,
                       hanging |-> watch[d].hanging \ {path}]
  <1>1. /\ watch[d] \in [stage : {"idle", "open", "closed", "gone"},
                          log : [seen : [Paths -> Nat], odd : BOOLEAN],
                          hanging : SUBSET Paths]
        /\ watch[d].log \in [seen : [Paths -> Nat], odd : BOOLEAN]
        /\ watch[d].stage = "open"
        /\ reached[d] \in [Paths -> Nat]
    BY DEF IndInv, TypeOK, BodyTimeout
  <1>3. /\ log \in [seen : [Paths -> Nat], odd : BOOLEAN]
        /\ log.odd \/ ~(Total(log.seen) < MaxRecorded)
    BY <1>1, <1>2, UnfinishedShows
  <1>4. watch' = [watch EXCEPT ![d] = entry]
    BY <1>1, <1>2 DEF BodyTimeout, IndInv, TypeOK
  <1> HIDE DEF log
  <1>5. /\ entry \in [stage : {"open"},
                       log : [seen : [Paths -> Nat], odd : BOOLEAN],
                       hanging : SUBSET Paths]
        /\ entry.log = log
    BY <1>1, <1>3
  <1> HIDE DEF entry
  <1>6. LogTrue' /\ ObservationTrue' /\ IssuedTrue'
    <2>1. /\ reached' \in [Drills -> [Paths -> Nat]] /\ reached' = reached
          /\ challenges' = challenges /\ observations' = observations
      BY DEF BodyTimeout, IndInv, TypeOK
    <2> QED BY <1>1, <1>3, <1>4, <1>5, <2>1, OpenObserverInv
  <1>7. ReceiptTrue' /\ AdmissionTrue' /\ AuthorizationTrue' /\ AcceptedTrue'
    BY OthersStable DEF BodyTimeout, host, IndInv, TypeOK
  <1>8. watch' \in [Drills -> [stage : {"idle", "open", "closed", "gone"},
                               log : [seen : [Paths -> Nat], odd : BOOLEAN],
                               hanging : SUBSET Paths]]
    BY <1>4, <1>5 DEF IndInv, TypeOK
  <1>9. TypeOK'
    BY <1>8 DEF BodyTimeout, host, IndInv, TypeOK
  <1> QED BY <1>6, <1>7, <1>9 DEF IndInv

LEMMA CloseInv ==
    ASSUME IndInv, NEW d \in Drills, Close(d)
    PROVE  IndInv'
  <1> DEFINE c == ChallengeOf(d)
             o == Observation(c, watch[d].log, now)
             entry == [stage |-> "closed", log |-> watch[d].log, hanging |-> {}]
  <1>1. /\ watch[d].stage = "open"
        /\ watch[d].log \in [seen : [Paths -> Nat], odd : BOOLEAN]
        /\ watch' = [watch EXCEPT ![d] = entry]
        /\ observations' = observations \union {o}
        /\ UNCHANGED <<now, reached, challenges, run, receipts>>
    BY DEF Close, IndInv, TypeOK, host
  <1>2. Issued(d) /\ IssuedTrue
    BY <1>1 DEF IndInv, IssuedTrue
  <1>3. c.drill = d
    BY <1>2, ChallengeKnown
  <1>4. /\ o.drill = d /\ o.closed = now /\ o.seen = watch[d].log.seen
        /\ o.status = "PASS" => o.seen = Exact /\ ~watch[d].log.odd
    BY <1>3 DEF Observation, ObservationStatus
  <1> HIDE DEF c, o
  <1>5. /\ entry \in [stage : {"closed"},
                       log : [seen : [Paths -> Nat], odd : BOOLEAN],
                       hanging : SUBSET Paths]
        /\ entry.log = watch[d].log
    BY <1>1
  <1> HIDE DEF entry
  <1>6. /\ watch'[d] = entry
        /\ \A e \in Drills : e # d => watch'[e] = watch[e]
        /\ watch' \in [Drills -> [stage : {"idle", "open", "closed", "gone"},
                               log : [seen : [Paths -> Nat], odd : BOOLEAN],
                               hanging : SUBSET Paths]]
    BY <1>1, <1>5 DEF IndInv, TypeOK
  <1>7. TypeOK'
    BY <1>1, <1>6 DEF IndInv, TypeOK
  <1>8. LogTrue'
    BY <1>1, <1>5, <1>6 DEF IndInv, LogTrue
  <1>9. ObservationTrue'
    <2>1. o.closed \in Nat
      BY <1>4 DEF IndInv, TypeOK
    <2>2. \A k \in observations : k.drill # d
      BY <1>1 DEF IndInv, ObservationTrue
    <2> QED BY <1>1, <1>4, <1>5, <1>6, <2>1, <2>2 DEF IndInv, ObservationTrue
  <1>10. IssuedTrue'
    BY <1>1, <1>5, <1>6, <1>2 DEF IssuedTrue, Issued
  <1>11. ReceiptTrue' /\ AdmissionTrue' /\ AuthorizationTrue' /\ AcceptedTrue'
    <2>1. /\ observations \subseteq observations' /\ receipts \subseteq receipts'
          /\ challenges \subseteq challenges' /\ UNCHANGED papers
      BY <1>1 DEF Close
    <2> QED BY <1>1, <2>1, PapersStable DEF papers, IndInv, ReceiptTrue
  <1> QED BY <1>7, <1>8, <1>9, <1>10, <1>11 DEF IndInv

LEMMA AbandonInv ==
    ASSUME IndInv, NEW d \in Drills, Abandon(d)
    PROVE  IndInv'
  <1> DEFINE entry == [stage |-> "gone", log |-> Silent, hanging |-> {}]
  <1>1. /\ watch[d].stage = "open"
        /\ watch' = [watch EXCEPT ![d] = entry]
        /\ UNCHANGED <<now, reached, observations, challenges, run, receipts>>
    BY DEF Abandon, host
  <1>2. /\ entry \in [stage : {"gone"},
                       log : [seen : [Paths -> Nat], odd : BOOLEAN],
                       hanging : SUBSET Paths]
    BY PathFacts DEF Silent
  <1> HIDE DEF entry
  <1>3. /\ watch'[d] = entry
        /\ \A e \in Drills : e # d => watch'[e] = watch[e]
        /\ watch' \in [Drills -> [stage : {"idle", "open", "closed", "gone"},
                               log : [seen : [Paths -> Nat], odd : BOOLEAN],
                               hanging : SUBSET Paths]]
    BY <1>1, <1>2 DEF IndInv, TypeOK
  <1>4. TypeOK'
    BY <1>1, <1>3 DEF IndInv, TypeOK
  <1>5. LogTrue'
    BY <1>1, <1>2, <1>3 DEF IndInv, LogTrue
  <1>6. ObservationTrue'
    BY <1>1, <1>3 DEF IndInv, ObservationTrue
  <1>7. IssuedTrue'
    BY <1>1, <1>2, <1>3 DEF IndInv, IssuedTrue, Issued
  <1>8. ReceiptTrue' /\ AdmissionTrue' /\ AuthorizationTrue' /\ AcceptedTrue'
    BY OthersStable DEF Abandon, host, IndInv, TypeOK
  <1> QED BY <1>4, <1>5, <1>6, <1>7, <1>8 DEF IndInv

-----------------------------------------------------------------------------
(* The host's actions.                                                      *)

LEMMA StartRunInv ==
    ASSUME IndInv, NEW d \in Drills, StartRun(d)
    PROVE  IndInv'
  <1> DEFINE entry == [stage |-> "running", serial |-> run[d].serial + 1,
                       began |-> now, hook |-> Nowhere, marked |-> NoRun.marked]
  <1>1. /\ run' = [run EXCEPT ![d] = entry]
        /\ UNCHANGED <<now, watch, reached, observations, challenges, receipts,
                       papers>>
    BY DEF StartRun, observer, IndInv, TypeOK
  <1>2. entry \in [stage : {"none", "running", "done"}, serial : Nat,
                  began : Nat, hook : [Paths -> Nat], marked : [Paths -> BOOLEAN]]
    BY PathFacts DEF IndInv, TypeOK, NoRun
  <1> HIDE DEF entry
  <1>3. TypeOK'
    BY <1>1, <1>2 DEF IndInv, TypeOK
  <1>4. ReceiptTrue' /\ AdmissionTrue' /\ AuthorizationTrue' /\ AcceptedTrue'
    BY <1>1, <1>3, OthersStable DEF TypeOK
  <1> QED BY <1>1, <1>3, <1>4, ObserversStable DEF IndInv

LEMMA CallsInv ==
    ASSUME IndInv, NEW d \in Drills, NEW path \in Paths, NEW ran \in BOOLEAN,
           Calls(d, path, ran)
    PROVE  IndInv'
  <1> DEFINE heard == ran /\ watch[d].stage = "open"
             entry == Hooked(run[d], path, heard)
  <1>1. /\ run' = [run EXCEPT ![d] = entry]
        /\ UNCHANGED <<now, observations, challenges, receipts, papers>>
        /\ IF heard THEN Arrives(d, path, TRUE) ELSE UNCHANGED <<watch, reached>>
    BY DEF Calls, IndInv, TypeOK
  <1>2. entry \in [stage : {"none", "running", "done"}, serial : Nat,
                  began : Nat, hook : [Paths -> Nat], marked : [Paths -> BOOLEAN]]
    <2>1. run[d] \in [stage : {"none", "running", "done"}, serial : Nat,
                  began : Nat, hook : [Paths -> Nat], marked : [Paths -> BOOLEAN]]
      BY DEF IndInv, TypeOK
    <2>2. /\ [run[d].hook EXCEPT ![path] = @ + 1] \in [Paths -> Nat]
          /\ [run[d].marked EXCEPT ![path] = @ \/ heard] \in [Paths -> BOOLEAN]
      BY <2>1
    <2> QED BY <2>1, <2>2 DEF Hooked
  <1>3. /\ LogTrue' /\ ObservationTrue' /\ IssuedTrue'
        /\ watch' \in [Drills -> [stage : {"idle", "open", "closed", "gone"},
                               log : [seen : [Paths -> Nat], odd : BOOLEAN],
                               hanging : SUBSET Paths]]
        /\ reached' \in [Drills -> [Paths -> Nat]]
    <2>1. CASE heard
      BY <1>1, <2>1, ArrivesInv
    <2>2. CASE ~heard
      BY <1>1, <2>2, ObserversStable DEF IndInv, TypeOK
    <2> QED BY <2>1, <2>2
  <1> HIDE DEF entry, heard
  <1>4. TypeOK'
    BY <1>1, <1>2, <1>3 DEF IndInv, TypeOK
  <1>5. ReceiptTrue' /\ AdmissionTrue' /\ AuthorizationTrue' /\ AcceptedTrue'
    BY <1>1, <1>4, OthersStable DEF TypeOK
  <1> QED BY <1>3, <1>4, <1>5 DEF IndInv

LEMMA RunEnds ==
    ASSUME IndInv, NEW d \in Drills, run' = [run EXCEPT ![d].stage = "done"],
           UNCHANGED <<now, observer, challenges, papers>>,
           receipts \subseteq receipts', ReceiptTrue'
    PROVE  IndInv'
  <1>1. TypeOK'
    BY DEF IndInv, TypeOK, observer
  <1>2. LogTrue' /\ ObservationTrue' /\ IssuedTrue'
    BY ObserversStable DEF observer
  <1>3. AdmissionTrue' /\ AuthorizationTrue' /\ AcceptedTrue'
    BY PapersStable DEF IndInv, papers, observer
  <1> QED BY <1>1, <1>2, <1>3 DEF IndInv

LEMMA FinishRunInv ==
    ASSUME IndInv, NEW d \in Drills, NEW how \in Outcomes, FinishRun(d, how)
    PROVE  IndInv'
  <1> DEFINE r == Receipt(ChallengeOf(d), run[d], how, now)
  <1>1. r.status = "PASS" => /\ r.hook["ALLOW"] = 1 /\ r.hook["DENY"] = 1
                             /\ ~r.marked["DENY"]
    BY DEF Receipt, RouteStatus, PassShape, AllowPassed, DenyPassed
  <1>2. receipts' \in {receipts, receipts \union {r}}
    BY DEF FinishRun
  <1> HIDE DEF r
  <1>3. ReceiptTrue' /\ receipts \subseteq receipts'
    BY <1>1, <1>2 DEF IndInv, ReceiptTrue
  <1> QED BY <1>3, RunEnds DEF FinishRun

LEMMA SpoiledRunInv ==
    ASSUME IndInv, NEW d \in Drills, SpoiledRun(d)
    PROVE  IndInv'
  <1>1. ReceiptTrue' /\ receipts \subseteq receipts'
    BY DEF SpoiledRun, IndInv, ReceiptTrue
  <1> QED BY <1>1, RunEnds DEF SpoiledRun

-----------------------------------------------------------------------------
(* The operator's actions: the observers and the receipts stay.             *)

LEMMA PaperStep ==
    ASSUME IndInv, UNCHANGED <<observer, challenges, host>>, now' \in Nat
    PROVE  TypeOK' /\ LogTrue' /\ ObservationTrue' /\ IssuedTrue' /\ ReceiptTrue'
  <1>1. TypeOK' /\ ReceiptTrue'
    BY DEF IndInv, TypeOK, observer, host, ReceiptTrue
  <1>2. LogTrue' /\ ObservationTrue' /\ IssuedTrue'
    BY ObserversStable DEF observer
  <1> QED BY <1>1, <1>2

LEMMA TickInv ==
    ASSUME IndInv, Tick
    PROVE  IndInv'
  <1>1. now' \in Nat
    BY DEF Tick, IndInv, TypeOK
  <1>2. AdmissionTrue' /\ AuthorizationTrue' /\ AcceptedTrue'
    BY PapersStable DEF Tick, IndInv, observer, host, papers
  <1> QED BY <1>1, <1>2, PaperStep DEF Tick, IndInv

LEMMA AttestInv ==
    ASSUME IndInv, NEW r \in receipts, NEW ok \in BOOLEAN, Attest(r, ok)
    PROVE  IndInv'
  <1>1. now' \in Nat
    BY DEF Attest, IndInv, TypeOK
  <1>2. AdmissionTrue' /\ AuthorizationTrue' /\ AcceptedTrue'
    BY PapersStable DEF Attest, IndInv, observer, host
  <1> QED BY <1>1, <1>2, PaperStep DEF Attest, IndInv

LEMMA AdmitInv ==
    ASSUME IndInv, NEW at \in Times, NEW cur \in Proven(at),
           NEW cand \in Proven(at), NEW until \in Times, NEW signer \in Signers,
           Admit(cur, cand, at, until, signer)
    PROVE  IndInv'
  <1> DEFINE a == Admission(cur, cand, at, until, signer)
  <1>1. /\ admissions = {} /\ admissions' = {a}
        /\ UNCHANGED <<now, observer, challenges, host, authorizations, accepted>>
        /\ LifeAllowed(at, until) /\ Approves(cur, cand, at, until, signer)
    BY DEF Admit
  <1>2. authorizations = {} /\ accepted = {}
    BY <1>1 DEF IndInv, AuthorizationTrue, AcceptedTrue
  <1>3. /\ a.current = cur /\ a.candidate = cand /\ a.evaluated = at
        /\ a.until = until /\ a.signer = signer
        /\ a.art = cand.challenge.art /\ a.env = cand.challenge.env
    BY DEF Admission
  <1> HIDE DEF a
  <1>4. \A b \in {cur, cand} : /\ b.challenge \in challenges
                               /\ b.observation \in observations
                               /\ b.route \in receipts
    BY DEF Proven, Bundles
  <1>5. at \in Nat /\ until \in Nat
    BY AdmissionAssumption DEF Times
  <1>6. AdmissionTrue'
    BY <1>1, <1>3, <1>4, <1>5 DEF AdmissionTrue, observer, host
  <1>7. AuthorizationTrue' /\ AcceptedTrue'
    BY <1>1, <1>2 DEF AuthorizationTrue, AcceptedTrue
  <1>8. now' \in Nat
    BY <1>1 DEF IndInv, TypeOK
  <1> QED BY <1>1, <1>6, <1>7, <1>8, PaperStep DEF IndInv

LEMMA AuthorizeInv ==
    ASSUME IndInv, NEW a \in admissions, NEW commit \in Commits,
           NEW at \in Times, NEW until \in Times, NEW signer \in Signers,
           Authorize(a, commit, at, until, signer)
    PROVE  IndInv'
  <1> DEFINE z == Authorization(a, commit, at, until, signer)
  <1>1. /\ authorizations = {} /\ authorizations' = {z}
        /\ UNCHANGED <<now, observer, challenges, host, admissions, accepted>>
        /\ MayAuthorize(a, at, until, signer)
    BY DEF Authorize
  <1>2. accepted = {}
    BY <1>1 DEF IndInv, AcceptedTrue
  <1>3. /\ z.admission = a /\ z.issued = at /\ z.until = until
        /\ z.signer = signer /\ z.art = a.art
    BY DEF Authorization
  <1> HIDE DEF z
  <1>4. at \in Nat /\ until \in Nat
    BY AdmissionAssumption DEF Times
  <1>5. AdmissionTrue'
    BY <1>1 DEF IndInv, AdmissionTrue, observer, host
  <1>6. AuthorizationTrue'
    BY <1>1, <1>3, <1>4 DEF AuthorizationTrue
  <1>7. AcceptedTrue'
    BY <1>1, <1>2 DEF AcceptedTrue
  <1>8. now' \in Nat
    BY <1>1 DEF IndInv, TypeOK
  <1> QED BY <1>1, <1>5, <1>6, <1>7, <1>8, PaperStep DEF IndInv

(* One more acceptance of a pair at a time both documents cover.            *)
LEMMA AcceptInv ==
    ASSUME IndInv, NEW z \in authorizations, NEW a \in admissions,
           NEW at \in Times, z.admission = a,
           InWindow(at, z.issued, z.until), AdmissionCurrent(a, at),
           accepted' = {[authorization |-> z, admission |-> a, art |-> z.art,
                         at |-> at]},
           UNCHANGED <<now, observer, challenges, host, admissions, authorizations>>
    PROVE  IndInv'
  <1>1. at \in Nat
    BY AdmissionAssumption DEF Times
  <1>2. AcceptedTrue'
    BY <1>1 DEF AcceptedTrue
  <1>3. AdmissionTrue' /\ AuthorizationTrue'
    BY DEF IndInv, AdmissionTrue, AuthorizationTrue, observer, host
  <1>4. now' \in Nat
    BY DEF IndInv, TypeOK
  <1> QED BY <1>2, <1>3, <1>4, PaperStep DEF IndInv

LEMMA GateInv ==
    ASSUME IndInv, NEW z \in authorizations, NEW a \in admissions,
           NEW commit \in Commits, NEW art \in Artifacts,
           NEW env \in Environments, NEW at \in Times,
           Gate(z, a, commit, art, env, at)
    PROVE  IndInv'
  BY AcceptInv DEF Gate, BoundGate

LEMMA RegisterInv ==
    ASSUME IndInv, NEW z \in authorizations, NEW a \in admissions,
           NEW at \in Times, Register(z, a, at)
    PROVE  IndInv'
  BY AcceptInv DEF Register, MayRegister

-----------------------------------------------------------------------------

LEMMA NextInv == IndInv /\ [Next]_vars => IndInv'
  <1> SUFFICES ASSUME IndInv, [Next]_vars PROVE IndInv'
    OBVIOUS
  <1>1. CASE UNCHANGED vars
    <2>1. now' \in Nat /\ UNCHANGED <<observer, challenges, host, papers>>
      BY <1>1 DEF vars, observer, host, papers, IndInv, TypeOK
    <2>2. AdmissionTrue' /\ AuthorizationTrue' /\ AcceptedTrue'
      BY <2>1, PapersStable DEF IndInv, observer, host, papers
    <2> QED BY <2>1, <2>2, PaperStep DEF IndInv
  <1>2. ASSUME NEW d \in Drills, NEW art \in Artifacts, NEW env \in Environments,
               Open(d, art, env)
        PROVE  IndInv'
    BY <1>2, OpenInv
  <1>3. ASSUME NEW d \in Drills, NEW path \in Paths,
               \/ \E proper \in BOOLEAN : Stray(d, path, proper)
               \/ Hang(d, path) \/ BodyTimeout(d, path)
               \/ \E ran \in BOOLEAN : Calls(d, path, ran)
        PROVE  IndInv'
    BY <1>3, StrayInv, HangInv, BodyTimeoutInv, CallsInv
  <1>4. ASSUME NEW d \in Drills,
               \/ Close(d) \/ Abandon(d) \/ StartRun(d) \/ SpoiledRun(d)
               \/ \E how \in Outcomes : FinishRun(d, how)
        PROVE  IndInv'
    BY <1>4, CloseInv, AbandonInv, StartRunInv, SpoiledRunInv, FinishRunInv
  <1>5. ASSUME NEW r \in receipts, NEW ok \in BOOLEAN, Attest(r, ok)
        PROVE  IndInv'
    BY <1>5, AttestInv
  <1>6. ASSUME NEW at \in Times, NEW cur \in Proven(at), NEW cand \in Proven(at),
               NEW until \in Times, NEW signer \in Signers,
               Admit(cur, cand, at, until, signer)
        PROVE  IndInv'
    BY <1>6, AdmitInv
  <1>7. ASSUME NEW a \in admissions, NEW commit \in Commits, NEW at \in Times,
               NEW until \in Times, NEW signer \in Signers,
               Authorize(a, commit, at, until, signer)
        PROVE  IndInv'
    BY <1>7, AuthorizeInv
  <1>8. ASSUME NEW z \in authorizations, NEW a \in admissions,
               NEW commit \in Commits, NEW art \in Artifacts,
               NEW env \in Environments, NEW at \in Times,
               Gate(z, a, commit, art, env, at)
        PROVE  IndInv'
    BY <1>8, GateInv
  <1>9. ASSUME NEW z \in authorizations, NEW a \in admissions, NEW at \in Times,
               Register(z, a, at)
        PROVE  IndInv'
    BY <1>9, RegisterInv
  <1>10. CASE Tick
    BY <1>10, TickInv
  <1> QED BY <1>1, <1>2, <1>3, <1>4, <1>5, <1>6, <1>7, <1>8, <1>9, <1>10 DEF Next

(* The inductive invariant holds: every record of a closed observer is what *)
(* reached it, and every document is what it was made from.                 *)
THEOREM GuardInvariant == Spec => []IndInv
  <1>1. Init => IndInv
    BY InitInv
  <1>2. IndInv /\ [Next]_vars => IndInv'
    BY NextInv
  <1> QED BY <1>1, <1>2, PTL DEF Spec

(* An approval rests on two single drills whose observers heard exactly the *)
(* allowed request, whatever documents the operator mixed.                  *)
LEMMA OneDrillFollows == IndInv => ApprovedIsOneDrill
  <1> SUFFICES ASSUME IndInv, NEW a \in admissions,
                      NEW b \in {a.current, a.candidate}
               PROVE  /\ {b.observation.drill, b.route.drill, b.isolation.drill}
                             = {b.challenge.drill}
                      /\ b.isolation.receipt = b.route
                      /\ reached[b.challenge.drill] = Exact
                      /\ b.route.hook["ALLOW"] = 1 /\ b.route.hook["DENY"] = 1
                      /\ ~b.route.marked["DENY"]
    BY DEF ApprovedIsOneDrill
  <1>1. PairMatches(b, a.evaluated) /\ IsolationMatches(b, a.evaluated)
    BY DEF IndInv, AdmissionTrue, Approves
  <1>2. b.observation \in observations /\ b.route \in receipts
    BY DEF IndInv, AdmissionTrue
  <1>3. /\ b.observation.drill = b.challenge.drill
        /\ b.route.drill = b.challenge.drill
        /\ b.isolation.drill = b.challenge.drill
        /\ b.isolation.receipt = b.route
        /\ b.observation.status = "PASS" /\ b.route.status = "PASS"
    BY <1>1 DEF PairMatches, IsolationMatches
  <1>4. /\ b.route.hook["ALLOW"] = 1 /\ b.route.hook["DENY"] = 1
        /\ ~b.route.marked["DENY"]
    BY <1>2, <1>3 DEF IndInv, ReceiptTrue
  <1> DEFINE d == b.challenge.drill
  <1>5. /\ d \in Drills /\ watch[d].stage = "closed"
        /\ watch[d].log.seen = Exact /\ ~watch[d].log.odd
    BY <1>2, <1>3 DEF IndInv, ObservationTrue
  <1>6. Total(Exact) < MaxRecorded
    BY PathFacts, ControlAssumption
  <1>7. reached[d] = Exact
    BY <1>5, <1>6 DEF IndInv, LogTrue
  <1> QED BY <1>3, <1>4, <1>7

LEMMA WindowsFollow == IndInv => AcceptedWithinEveryWindow
  <1> SUFFICES ASSUME IndInv, NEW g \in accepted
               PROVE  LET a == g.admission
                          b == a.candidate
                      IN  /\ g.authorization.admission = a
                          /\ g.art = b.challenge.art /\ g.art = b.route.art
                          /\ g.art # a.current.route.art
                          /\ InWindow(g.at, ValidFrom[b.route.env],
                                      ValidUntil[b.route.env])
                          /\ g.at - b.observation.closed <= Fresh + AdmissionLife
                          /\ g.at <= g.authorization.until
                          /\ g.authorization.until <= a.until
                          /\ a.signer \notin Roles
                          /\ g.authorization.signer \notin Roles \union {a.signer}
    BY DEF AcceptedWithinEveryWindow
  <1> DEFINE a == g.admission
             z == g.authorization
             b == a.candidate
  <1>1. /\ a \in admissions /\ z \in authorizations /\ z.admission = a
        /\ g.at \in Nat /\ g.art = z.art
        /\ InWindow(g.at, z.issued, z.until) /\ AdmissionCurrent(a, g.at)
    BY DEF IndInv, AcceptedTrue
  <1>2. /\ z.issued \in Nat /\ z.until \in Nat
        /\ MayAuthorize(a, z.issued, z.until, z.signer) /\ z.art = a.art
    BY <1>1 DEF IndInv, AuthorizationTrue
  <1>3. /\ a.evaluated \in Nat /\ a.until \in Nat
        /\ LifeAllowed(a.evaluated, a.until)
        /\ Approves(a.current, b, a.evaluated, a.until, a.signer)
        /\ a.art = b.challenge.art
        /\ b.challenge \in challenges /\ b.observation \in observations
    BY <1>1 DEF IndInv, AdmissionTrue
  <1>4. /\ PairMatches(b, a.evaluated)
        /\ RoutesComparable(a.current.route, b.route, a.evaluated)
        /\ a.signer \notin Roles /\ a.until <= ValidUntil[b.route.env]
    BY <1>3 DEF Approves, RoutesApproved
  <1>5. /\ b.route.art = b.challenge.art /\ b.route.env = b.challenge.env
        /\ a.evaluated - b.observation.closed <= Fresh
        /\ InWindow(a.evaluated, ValidFrom[b.route.env], ValidUntil[b.route.env])
    BY <1>4 DEF PairMatches
  <1>6. /\ b.route.env \in Environments /\ b.observation.closed \in Nat
    BY <1>3, <1>5 DEF IndInv, IssuedTrue, ObservationTrue
  <1>7. /\ ValidFrom[b.route.env] \in Nat /\ ValidUntil[b.route.env] \in Nat
        /\ Fresh \in Nat /\ AdmissionLife \in Nat
    BY <1>6, ControlAssumption
  <1>8. InWindow(g.at, ValidFrom[b.route.env], ValidUntil[b.route.env])
    BY <1>1, <1>3, <1>4, <1>5, <1>7 DEF InWindow, AdmissionCurrent
  <1>9. g.at - b.observation.closed <= Fresh + AdmissionLife
    BY <1>1, <1>3, <1>5, <1>6, <1>7 DEF InWindow, AdmissionCurrent, LifeAllowed
  <1>10. a.current.route.art # b.route.art
    BY <1>4 DEF RoutesComparable
  <1>11. /\ g.at <= z.until /\ z.until <= a.until
         /\ z.signer \notin Roles \union {a.signer}
    BY <1>1, <1>2 DEF InWindow, MayAuthorize
  <1> QED BY <1>1, <1>2, <1>3, <1>4, <1>5, <1>8, <1>9, <1>10, <1>11

(* See ApprovedIsOneDrill: for any drills, mixed in any way.                *)
THEOREM ApprovalRestsOnOneDrill == Spec => []ApprovedIsOneDrill
  BY GuardInvariant, OneDrillFollows, PTL

(* See AcceptedWithinEveryWindow: no acceptance outlives a document.        *)
THEOREM AcceptanceIsCovered == Spec => []AcceptedWithinEveryWindow
  BY GuardInvariant, WindowsFollow, PTL
=============================================================================
