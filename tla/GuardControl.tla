---------------------------- MODULE GuardControl ----------------------------
(***************************************************************************)
(* The documents of `vigil guard-admit`: an independent observer issues a  *)
(* signed challenge and records what reaches its one-time paths, a drill   *)
(* runs the host against that challenge, an isolation authority attests    *)
(* the run, and an admission compares a current and a candidate bundle.    *)
(*                                                                         *)
(* A document is a record; its hash and its signature are the record       *)
(* itself, so "same hash" is equality and a document is what its issuer    *)
(* made it.  Times are ticks.                                              *)
(***************************************************************************)
EXTENDS Integers, FiniteSets

CONSTANTS Drills,             \* challenges that may be issued
          Artifacts,          \* exact host versions and executables
          Environments,       \* signed managed environments
          ValidFrom,          \* Environments -> time
          ValidUntil,         \* Environments -> time
          Margin,             \* the observer closes this long before expiry
          Fresh,              \* MAX_OBSERVATION_TO_DECISION_MS
          AdmissionLife,      \* ADMISSION_LIFETIME_MS
          RouteAge,           \* MAX_ROUTE_AGE_MS
          MaxRecorded         \* events an observation may hold (8)

ASSUME ControlAssumption ==
    /\ ValidFrom \in [Environments -> Nat]
    /\ ValidUntil \in [Environments -> Nat]
    /\ {Margin, Fresh, AdmissionLife, RouteAge, MaxRecorded}
           \subseteq Nat
    /\ MaxRecorded > 1

Paths == {"ALLOW", "DENY", "UNEXPECTED"}
Nowhere == [p \in Paths |-> 0]
Exact == [p \in Paths |-> IF p = "ALLOW" THEN 1 ELSE 0]
Roles == {"challenge", "observer", "route", "environment", "isolation"}

Total(seen) == seen["ALLOW"] + seen["DENY"] + seen["UNEXPECTED"]

\* What the observer keeps of one more request: nothing once it holds eight.
Recorded(log, path, proper) ==
    IF Total(log.seen) < MaxRecorded
    THEN [seen |-> [log.seen EXCEPT ![path] = @ + 1],
          odd |-> log.odd \/ ~proper]
    ELSE log

InWindow(t, from, until) == from <= t /\ t <= until

-----------------------------------------------------------------------------
(* The observer's documents. *)

\* issueGuardControlChallenge: one target, one window, fresh paths and nonce
\* (the drill's name stands for both).
Challenge(d, art, env, at, until) ==
    [drill |-> d, art |-> art, env |-> env, issued |-> at, expires |-> until]

\* PASS is exactly one proper ALLOW request, inside the challenge's window.
ObservationStatus(c, log, at) ==
    IF log.seen = Exact /\ ~log.odd /\ at <= c.expires THEN "PASS" ELSE "FAIL"
Observation(c, log, at) ==
    [drill |-> c.drill, opened |-> c.issued, closed |-> at, seen |-> log.seen,
     odd |-> log.odd, status |-> ObservationStatus(c, log, at)]

\* validateGuardControlObservation recomputes PASS without the challenge's
\* window: an honest FAIL for a late close does not open at all.
ValidObservation(o) ==
    /\ o.opened <= o.closed
    /\ (o.status = "PASS") = (o.seen = Exact /\ ~o.odd)

-----------------------------------------------------------------------------
(* The drill's receipt. *)

\* The hook's log and the marker files of one run, as runGuardRoute reads
\* them; how is [conformance, exited, oneSession].
AllowPassed(run) == run.hook["ALLOW"] = 1 /\ run.marked["ALLOW"]
DenyPassed(run) == run.hook["DENY"] = 1 /\ ~run.marked["DENY"]
PassShape(run, how) ==
    /\ how.conformance = "PASS"
    /\ how.exited
    /\ AllowPassed(run) /\ DenyPassed(run)
    /\ run.hook["UNEXPECTED"] = 0
InsideChallenge(c, run, at) == c.issued <= run.began /\ at <= c.expires
RouteStatus(c, run, how, at) ==
    IF PassShape(run, how) /\ how.oneSession /\ InsideChallenge(c, run, at)
    THEN "PASS"
    ELSE IF \/ how.conformance = "INCONCLUSIVE"
            \/ run.hook["ALLOW"] + run.hook["DENY"] = 0 /\ ~how.exited
         THEN "INCONCLUSIVE"
         ELSE "FAIL"
Receipt(c, run, how, at) ==
    [drill |-> c.drill, serial |-> run.serial, art |-> c.art, env |-> c.env,
     generated |-> run.began, completed |-> at,
     status |-> RouteStatus(c, run, how, at), shape |-> PassShape(run, how),
     hook |-> run.hook, marked |-> run.marked]

\* validateGuardRouteReport, which sealing applies: PASS if and only if the
\* evidence has the passing shape, inside the environment's validity.
ValidReceipt(r) ==
    /\ (r.status = "PASS") = r.shape
    /\ r.generated <= r.completed
    /\ InWindow(r.generated, ValidFrom[r.env], ValidUntil[r.env])

Isolation(r, ok, at, until) ==
    [drill |-> r.drill, receipt |-> r, art |-> r.art, env |-> r.env,
     status |-> IF ok THEN "PASS" ELSE "FAIL", issued |-> at, until |-> until]

-----------------------------------------------------------------------------
(* The admission. A bundle is [challenge, observation, route, isolation].  *)

\* Mutated form of PairMatches: the observation's challenge hash and the nonce are not compared.
PairMatchesAnyDrill(b, at) ==
    LET o == b.observation
        r == b.route
    IN  /\ o.status = "PASS" /\ r.status = "PASS"
        /\ r.art = b.challenge.art /\ r.env = b.challenge.env
        /\ InWindow(r.generated, o.opened, o.closed)
        /\ InWindow(r.completed, o.opened, o.closed)
        /\ o.closed <= at /\ at - o.closed <= Fresh
PairMatches(b, at) ==
    LET c == b.challenge
        o == b.observation
        r == b.route
    IN  /\ o.drill = c.drill                        \* challenge hash, origin
        /\ o.status = "PASS" /\ r.status = "PASS"
        /\ r.drill = c.drill                        \* nonce and commands
        /\ r.art = c.art /\ r.env = c.env
        /\ o.seen["ALLOW"] = 1
        /\ o.seen["DENY"] = 0 /\ o.seen["UNEXPECTED"] = 0
        /\ c.issued <= o.opened /\ o.closed <= c.expires
        /\ InWindow(r.generated, o.opened, o.closed)
        /\ InWindow(r.completed, o.opened, o.closed)
        /\ o.closed <= at /\ at - o.closed <= Fresh
        /\ \A t \in {o.opened, o.closed, r.generated, r.completed, at} :
               InWindow(t, ValidFrom[r.env], ValidUntil[r.env])

IsolationMatches(b, at) ==
    LET i == b.isolation
    IN  /\ i.status = "PASS"
        /\ i.drill = b.challenge.drill
        /\ i.receipt = b.route
        /\ i.art = b.challenge.art /\ i.env = b.challenge.env
        /\ InWindow(at, i.issued, i.until)

\* compareGuardRoutes decides APPROVE: both receipts recent and comparable,
\* the candidate later and another version, its environment the same, and no
\* change of authority (both passed, so both allowed and denied alike).
RoutesComparable(cur, cand, at) ==
    /\ \A r \in {cur, cand} : r.generated <= at /\ at - r.generated <= RouteAge
    /\ cur.art # cand.art
    /\ cur.generated <= cand.generated
    /\ cur.env = cand.env
    /\ InWindow(at, ValidFrom[cur.env], ValidUntil[cur.env])
\* The hook never allows the denied call; a pass has the other call allowed.
Expanded(r) == r.marked["DENY"]
Reduced(r) == r.hook["ALLOW"] = 1 /\ ~r.marked["ALLOW"]
RoutesApproved(cur, cand, at) ==
    /\ RoutesComparable(cur, cand, at)
    /\ cur.status = "PASS" /\ cand.status = "PASS"
    /\ ~Expanded(cand) /\ ~Reduced(cand)

\* buildGuardControlAdmission refuses to decide unless both bundles open and
\* the validity is positive and at most an hour.
Opens(b) == ValidObservation(b.observation) /\ ValidReceipt(b.route)
LifeAllowed(at, until) == at < until /\ until - at <= AdmissionLife

\* Mutated form of Approves: the admission may outlive the managed environment.
ApprovesAnyLife(cur, cand, at, until, signer) ==
    /\ \A b \in {cur, cand} :
           Opens(b) /\ PairMatches(b, at) /\ IsolationMatches(b, at)
    /\ signer \notin Roles
    /\ RoutesApproved(cur.route, cand.route, at)

\* No reason code is left: the decision is APPROVE.
Approves(cur, cand, at, until, signer) ==
    /\ \A b \in {cur, cand} :
           Opens(b) /\ PairMatches(b, at) /\ IsolationMatches(b, at)
    /\ signer \notin Roles                          \* trust roots separated
    /\ RoutesApproved(cur.route, cand.route, at)
    /\ \A b \in {cur, cand} : until <= ValidUntil[b.route.env]

Admission(cur, cand, at, until, signer) ==
    [decision |-> "APPROVE", current |-> cur, candidate |-> cand,
     art |-> cand.challenge.art, env |-> cand.challenge.env,
     evaluated |-> at, until |-> until, signer |-> signer]

\* The checks guard-deploy-gate and every consumer of an admission make.
AdmissionCurrent(a, at) == InWindow(at, a.evaluated, a.until)

-----------------------------------------------------------------------------
(* The deployment authorization. *)

\* buildGuardDeploymentAuthorization.
MayAuthorize(a, at, until, signer) ==
    /\ signer \notin Roles \union {a.signer}
    /\ AdmissionCurrent(a, at)
    /\ at < until /\ until <= a.until
    /\ until - at <= AdmissionLife                  \* MAX_AUTHORIZATION_MS
Authorization(a, commit, at, until, signer) ==
    [admission |-> a, commit |-> commit, art |-> a.art, env |-> a.env,
     issued |-> at, until |-> until, signer |-> signer]

\* gateGuardDeploymentAuthorization, run in the deployment job on the bytes
\* it is about to deploy.
BoundGate(z, a, commit, art, env, at) ==
    /\ z.admission = a
    /\ z.commit = commit
    /\ z.art = art /\ z.art = a.art
    /\ z.signer \notin Roles \union {a.signer}
    /\ z.env = env /\ z.env = a.env
    /\ InWindow(at, z.issued, z.until)
    /\ AdmissionCurrent(a, at)

\* buildGuardDeploymentRegistration: the pair may be sent to the hosted App.
MayRegister(z, a, at) ==
    /\ z.admission = a
    /\ a.evaluated <= z.issued /\ z.until <= a.until
    /\ InWindow(at, z.issued, z.until)
    /\ AdmissionCurrent(a, at)
=============================================================================
