--------------------------- MODULE GuardAdmission ---------------------------
(***************************************************************************)
(* The life of a guard admission: observers with their HTTP requests, host *)
(* drills with their hook, the isolation authority, the operator who picks *)
(* the documents for `guard-admit`, and the deployment job that runs the   *)
(* bound gate.  The operator may combine any documents that exist; times   *)
(* given with --evaluated-at, --issued-at, --valid-until and --as-of are   *)
(* free.                                                                   *)
(***************************************************************************)
EXTENDS GuardControl

CONSTANTS Base,          \* the drill of the installed version, already run
          Installed,     \* its artifact
          Commits,
          Signers,       \* keys an operator may name for the last two roles
          Duration,      \* --duration-ms
          IsolationLife, \* the attestation's validity
          MaxActivity,   \* bound: requests and calls of one drill
          MaxRuns,       \* bound: runs of one challenge
          MaxTime        \* bound: the clock

ASSUME AdmissionAssumption ==
    /\ Base \in Drills /\ Installed \in Artifacts /\ Environments # {}
    /\ {Duration, IsolationLife, MaxActivity, MaxRuns, MaxTime} \subseteq Nat
    /\ Margin < Duration

VARIABLES now,
          watch,          \* Drills -> the observer process
          reached,        \* Drills -> requests that came in whole (history)
          run,            \* Drills -> the run of the host in progress
          challenges, observations, receipts, isolations,
          admissions,     \* signed APPROVE decisions
          authorizations,
          accepted        \* what the bound gate or the hosted App took

observer == <<watch, reached, observations>>
host == <<run, receipts>>
papers == <<isolations, admissions, authorizations, accepted>>
vars == <<now, watch, reached, run, challenges, observations, receipts,
          isolations, admissions, authorizations, accepted>>

Times == 0 .. MaxTime + 1     \* what a flag may claim
Silent == [seen |-> Nowhere, odd |-> FALSE]
Idle == [stage |-> "idle", log |-> Silent, hanging |-> {}]
NoRun == [stage |-> "none", serial |-> 0, began |-> 0, hook |-> Nowhere,
          marked |-> [p \in Paths |-> FALSE]]
ChallengeOf(d) == CHOOSE c \in challenges : c.drill = d
Issued(d) == \E c \in challenges : c.drill = d

-----------------------------------------------------------------------------
(* The installed version has been through one good drill. *)

BaseEnv == CHOOSE e \in Environments : TRUE
BaseChallenge == Challenge(Base, Installed, BaseEnv, 0, Duration)
BaseRun == [stage |-> "done", serial |-> 1, began |-> 0,
            hook |-> [p \in Paths |-> IF p = "UNEXPECTED" THEN 0 ELSE 1],
            marked |-> [p \in Paths |-> p = "ALLOW"]]
BaseReceipt ==
    Receipt(BaseChallenge, BaseRun,
            [conformance |-> "PASS", exited |-> TRUE, oneSession |-> TRUE], 0)
BaseClosed == Duration - Margin

Init ==
    /\ now = BaseClosed
    /\ watch = [d \in Drills |->
                  IF d = Base
                  THEN [stage |-> "closed", hanging |-> {},
                        log |-> [seen |-> Exact, odd |-> FALSE]]
                  ELSE Idle]
    /\ reached = [d \in Drills |-> IF d = Base THEN Exact ELSE Nowhere]
    /\ run = [d \in Drills |-> IF d = Base THEN BaseRun ELSE NoRun]
    /\ challenges = {BaseChallenge}
    /\ observations = {Observation(BaseChallenge,
                                   [seen |-> Exact, odd |-> FALSE], BaseClosed)}
    /\ receipts = {BaseReceipt}
    /\ isolations = {Isolation(BaseReceipt, TRUE, BaseClosed,
                               BaseClosed + IsolationLife)}
    /\ admissions = {} /\ authorizations = {} /\ accepted = {}

-----------------------------------------------------------------------------
(* vigil guard-observer *)

\* The server listens, the challenge is issued and written.  Bound: observers
\* run one after another.
Open(d, art, env) ==
    /\ ~Issued(d)
    /\ \A e \in Drills : watch[e].stage # "open"
    /\ challenges' = challenges
           \union {Challenge(d, art, env, now, now + Duration)}
    /\ watch' = [watch EXCEPT ![d].stage = "open"]
    /\ UNCHANGED <<now, reached, observations, host, papers>>

\* One request with its whole body.
Arrives(d, path, proper) ==
    /\ watch' = [watch EXCEPT ![d].log = Recorded(@, path, proper)]
    /\ reached' = [reached EXCEPT ![d][path] = @ + 1]

\* Bound: whole requests, hanging requests and hooked calls of one drill; a
\* call whose request came in counts once.
Busy(d) == Total(reached[d]) + Cardinality(watch[d].hanging)
           + Total(run[d].hook) - Cardinality({p \in Paths : run[d].marked[p]})
Reachable(d) == watch[d].stage = "open" /\ Busy(d) < MaxActivity

\* A request the drill did not make through its hook.
Stray(d, path, proper) ==
    /\ Reachable(d)
    /\ Arrives(d, path, proper)
    /\ UNCHANGED <<now, challenges, observations, host, papers>>

\* A request whose body does not end.
Hang(d, path) ==
    /\ Reachable(d) /\ path \notin watch[d].hanging
    /\ watch' = [watch EXCEPT ![d].hanging = @ \union {path}]
    /\ UNCHANGED <<now, reached, challenges, observations, host, papers>>

\* The timer of a hanging request: an event with an empty body.
BodyTimeout(d, path) ==
    /\ watch[d].stage = "open" /\ path \in watch[d].hanging
    /\ now >= ChallengeOf(d).expires - Margin
    /\ watch' = [watch EXCEPT ![d] =
           [stage |-> "open", log |-> Recorded(@.log, path, FALSE),
            hanging |-> @.hanging \ {path}]]
    /\ UNCHANGED <<now, reached, challenges, observations, host, papers>>

\* The window's timer: the server is closed with its connections, the record
\* is signed.  A request still hanging is cut off and leaves no event.
Close(d) ==
    /\ watch[d].stage = "open"
    /\ now >= ChallengeOf(d).expires - Margin
    /\ observations' = observations
           \union {Observation(ChallengeOf(d), watch[d].log, now)}
    /\ watch' = [watch EXCEPT ![d] =
           [stage |-> "closed", log |-> @.log, hanging |-> {}]]
    /\ UNCHANGED <<now, reached, challenges, host, papers>>

\* The observer stops without a record: it is killed or cannot write it.
Abandon(d) ==
    /\ watch[d].stage = "open"
    /\ watch' = [watch EXCEPT ![d] =
           [stage |-> "gone", log |-> Silent, hanging |-> {}]]
    /\ UNCHANGED <<now, reached, challenges, observations, host, papers>>

-----------------------------------------------------------------------------
(* vigil guard-route, then guard-route-seal *)

StartRun(d) ==
    /\ Issued(d)
    /\ run[d].stage # "running" /\ run[d].serial < MaxRuns
    /\ LET c == ChallengeOf(d)
       IN  /\ InWindow(now, c.issued, c.expires)
           /\ InWindow(now, ValidFrom[c.env], ValidUntil[c.env])
    /\ run' = [run EXCEPT ![d] =
           [stage |-> "running", serial |-> @.serial + 1, began |-> now,
            hook |-> Nowhere, marked |-> NoRun.marked]]
    /\ UNCHANGED <<now, observer, challenges, receipts, papers>>

\* The run with one more call in the hook's log, and its marker if it ran and
\* was heard.
Hooked(r, path, heard) ==
    [stage |-> r.stage, serial |-> r.serial, began |-> r.began,
     hook |-> [r.hook EXCEPT ![path] = @ + 1],
     marked |-> [r.marked EXCEPT ![path] = @ \/ heard]]

\* A tool call goes through the hook, which logs it and allows only the
\* exact allow command; ran says whether the host then ran it.  A canary
\* that runs posts its request, and its marker appears if that is accepted.
Calls(d, path, ran) ==
    /\ run[d].stage = "running" /\ Busy(d) < MaxActivity
    /\ path = "UNEXPECTED" => ~ran
    /\ LET heard == ran /\ watch[d].stage = "open"
       IN  /\ run' = [run EXCEPT ![d] = Hooked(@, path, heard)]
           /\ IF heard THEN Arrives(d, path, TRUE)
              ELSE UNCHANGED <<watch, reached>>
    /\ UNCHANGED <<now, challenges, observations, receipts, papers>>

Outcomes == [conformance : {"PASS", "FAIL", "INCONCLUSIVE"}, exited : BOOLEAN,
             oneSession : BOOLEAN]

\* The host ended and the receipt is sealed, if it can be: sealing validates.
FinishRun(d, how) ==
    /\ run[d].stage = "running"
    /\ LET r == Receipt(ChallengeOf(d), run[d], how, now)
       IN  receipts' = IF ValidReceipt(r) THEN receipts \union {r} ELSE receipts
    /\ run' = [run EXCEPT ![d].stage = "done"]
    /\ UNCHANGED <<now, observer, challenges, papers>>

\* A bound file changed under the run: it throws, and there is no receipt.
SpoiledRun(d) ==
    /\ run[d].stage = "running"
    /\ run' = [run EXCEPT ![d].stage = "done"]
    /\ UNCHANGED <<now, observer, challenges, receipts, papers>>

-----------------------------------------------------------------------------
(* The isolation authority, vigil guard-admit and the deployment commands. *)

\* Bound: of passing receipts; the others are held anyway.
Attest(r, ok) ==
    /\ r.status = "PASS"
    /\ \A i \in isolations : i.receipt # r
    /\ isolations' = isolations \union {Isolation(r, ok, now, now + IsolationLife)}
    /\ UNCHANGED <<now, observer, challenges, host, admissions, authorizations,
                   accepted>>

Bundles == [challenge : challenges, observation : observations,
            route : receipts, isolation : isolations]
\* Those that leave no reason code of their own.  Bound: one APPROVE.
Proven(at) ==
    {b \in Bundles : /\ admissions = {}
                     /\ Opens(b) /\ PairMatches(b, at) /\ IsolationMatches(b, at)}

\* A decision HOLD is written too and changes nothing: no command takes it.
Admit(cur, cand, at, until, signer) ==
    /\ admissions = {}                              \* bound: one APPROVE
    /\ LifeAllowed(at, until)
    /\ Approves(cur, cand, at, until, signer)
    /\ admissions' = {Admission(cur, cand, at, until, signer)}
    /\ UNCHANGED <<now, observer, challenges, host, isolations, authorizations,
                   accepted>>

Authorize(a, commit, at, until, signer) ==
    /\ authorizations = {}                          \* bound: one authorization
    /\ MayAuthorize(a, at, until, signer)
    /\ authorizations' = {Authorization(a, commit, at, until, signer)}
    /\ UNCHANGED <<now, observer, challenges, host, isolations, admissions,
                   accepted>>

Gate(z, a, commit, art, env, at) ==
    /\ accepted = {}                                \* bound: one acceptance
    /\ BoundGate(z, a, commit, art, env, at)
    /\ accepted' = {[authorization |-> z, admission |-> a, art |-> art, at |-> at]}
    /\ UNCHANGED <<now, observer, challenges, host, isolations, admissions,
                   authorizations>>

\* vigil guard-deploy-register sends the pair to the hosted App.
Register(z, a, at) ==
    /\ accepted = {}
    /\ MayRegister(z, a, at)
    /\ accepted' = {[authorization |-> z, admission |-> a, art |-> z.art, at |-> at]}
    /\ UNCHANGED <<now, observer, challenges, host, isolations, admissions,
                   authorizations>>

Tick ==
    /\ now < MaxTime
    /\ now' = now + 1
    /\ UNCHANGED <<observer, challenges, host, papers>>

Next ==
    \/ \E d \in Drills :
           \/ \E art \in Artifacts, env \in Environments : Open(d, art, env)
           \/ \E path \in Paths :
                  \/ \E proper \in BOOLEAN : Stray(d, path, proper)
                  \/ Hang(d, path) \/ BodyTimeout(d, path)
                  \/ \E ran \in BOOLEAN : Calls(d, path, ran)
           \/ Close(d) \/ Abandon(d) \/ StartRun(d) \/ SpoiledRun(d)
           \/ \E how \in Outcomes : FinishRun(d, how)
    \/ \E r \in receipts, ok \in BOOLEAN : Attest(r, ok)
    \/ \E at \in Times : \E cur, cand \in Proven(at) :
           \E until \in Times, signer \in Signers :
               Admit(cur, cand, at, until, signer)
    \/ \E a \in admissions, commit \in Commits, at, until \in Times,
          signer \in Signers : Authorize(a, commit, at, until, signer)
    \/ \E z \in authorizations, a \in admissions, commit \in Commits,
          art \in Artifacts, env \in Environments, at \in Times :
           Gate(z, a, commit, art, env, at)
    \/ \E z \in authorizations, a \in admissions, at \in Times : Register(z, a, at)
    \/ Tick

Spec == Init /\ [][Next]_vars

-----------------------------------------------------------------------------

TypeOK ==
    /\ now \in Nat
    /\ watch \in [Drills -> [stage : {"idle", "open", "closed", "gone"},
                             log : [seen : [Paths -> Nat], odd : BOOLEAN],
                             hanging : SUBSET Paths]]
    /\ reached \in [Drills -> [Paths -> Nat]]
    /\ run \in [Drills -> [stage : {"none", "running", "done"}, serial : Nat,
                           began : Nat, hook : [Paths -> Nat],
                           marked : [Paths -> BOOLEAN]]]

(* An approved admission rests on two single drills: on each side the four  *)
(* documents are of one drill of one artifact in one environment, and of    *)
(* all the whole requests that came to that drill's observer, counted past  *)
(* what the record can hold, exactly one was on the allow path and none on  *)
(* any other (buildGuardControlAdmission over documents an operator mixes). *)
ApprovedIsOneDrill ==
    \A a \in admissions : \A b \in {a.current, a.candidate} :
        /\ {b.observation.drill, b.route.drill, b.isolation.drill}
               = {b.challenge.drill}
        /\ b.isolation.receipt = b.route
        /\ reached[b.challenge.drill] = Exact
        /\ b.route.hook["ALLOW"] = 1 /\ b.route.hook["DENY"] = 1
        /\ ~b.route.marked["DENY"]

(* What the bound gate or a registration takes at a time is covered then by *)
(* every document behind it: the authorization, the admission, and the      *)
(* managed environment, which neither of them reads; the candidate          *)
(* was observed at most Fresh before the decision and the decision is at    *)
(* most AdmissionLife old; the artifact is the one the drill ran; and no    *)
(* key serves two roles (gateGuardDeploymentAuthorization).                 *)
AcceptedWithinEveryWindow ==
    \A g \in accepted :
        LET a == g.admission
            b == a.candidate
        IN  /\ g.authorization.admission = a
            /\ g.art = b.challenge.art /\ g.art = b.route.art
            /\ g.art # a.current.route.art
            /\ InWindow(g.at, ValidFrom[b.route.env], ValidUntil[b.route.env])
            /\ g.at - b.observation.closed <= Fresh + AdmissionLife
            /\ g.at <= g.authorization.until /\ g.authorization.until <= a.until
            /\ a.signer \notin Roles
            /\ g.authorization.signer \notin Roles \union {a.signer}
=============================================================================
