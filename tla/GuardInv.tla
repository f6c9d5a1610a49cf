------------------------------ MODULE GuardInv ------------------------------
(* The inductive invariant of the guard admission, for the proofs and TLC. *)
EXTENDS GuardAdmission

(* The record of a drill holds the requests that came in, until it is full, *)
(* a request was not the canary, or its observer is gone without a record.  *)
LogTrue ==
    \A d \in Drills :
        LET log == watch[d].log
        IN  watch[d].stage # "gone" /\ ~log.odd /\ Total(log.seen) < MaxRecorded
                => log.seen = reached[d]

(* An observation is the closed record of its drill.                        *)
ObservationTrue ==
    \A o \in observations :
        /\ o.drill \in Drills /\ o.closed \in Nat
        /\ watch[o.drill].stage = "closed"
        /\ o.seen = watch[o.drill].log.seen
        /\ o.status = "PASS" => o.seen = Exact /\ ~watch[o.drill].log.odd

(* A drill with an observer has a challenge, and only those were issued.    *)
IssuedTrue ==
    /\ \A c \in challenges : /\ c.drill \in Drills /\ c.env \in Environments
                             /\ watch[c.drill].stage # "idle"
    /\ \A d \in Drills : watch[d].stage # "idle" => Issued(d)

(* A receipt that passed saw one allowed and one denied call.               *)
ReceiptTrue ==
    \A r \in receipts : r.status = "PASS" =>
        /\ r.hook["ALLOW"] = 1 /\ r.hook["DENY"] = 1
        /\ ~r.marked["DENY"]

(* What an admission, an authorization and an acceptance were made from.    *)
AdmissionTrue ==
    \A a \in admissions :
        /\ \A b \in {a.current, a.candidate} :
               /\ b.challenge \in challenges
               /\ b.observation \in observations /\ b.route \in receipts
        /\ a.evaluated \in Nat /\ a.until \in Nat
        /\ LifeAllowed(a.evaluated, a.until)
        /\ Approves(a.current, a.candidate, a.evaluated, a.until, a.signer)
        /\ a.art = a.candidate.challenge.art
        /\ a.env = a.candidate.challenge.env
AuthorizationTrue ==
    \A z \in authorizations :
        /\ z.issued \in Nat /\ z.until \in Nat
        /\ z.admission \in admissions
        /\ MayAuthorize(z.admission, z.issued, z.until, z.signer)
        /\ z.art = z.admission.art
AcceptedTrue ==
    \A g \in accepted :
        /\ g.admission \in admissions /\ g.authorization \in authorizations
        /\ g.authorization.admission = g.admission
        /\ g.at \in Nat
        /\ g.art = g.authorization.art
        /\ InWindow(g.at, g.authorization.issued, g.authorization.until)
        /\ AdmissionCurrent(g.admission, g.at)

IndInv ==
    /\ TypeOK /\ LogTrue /\ ObservationTrue /\ IssuedTrue /\ ReceiptTrue
    /\ AdmissionTrue /\ AuthorizationTrue /\ AcceptedTrue
=============================================================================
