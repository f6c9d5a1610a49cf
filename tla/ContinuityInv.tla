---------------------------- MODULE ContinuityInv ----------------------------
(***************************************************************************)
(* Why a history keeps what was reported: between any two steps it is      *)
(* either good - its files are the entries of its tip, with at most one    *)
(* more that somebody is writing or has left behind - or an accident has   *)
(* broken it for good.                                                     *)
(***************************************************************************)
EXTENDS ContinuityMishap

Drafts ==
    {a.draft : a \in Appends} \cup
    UNION {{Imported(g.delivery, g.payload, outcome, g.key) :
                outcome \in Classified(g.payload)} : g \in Imports}
Keys == {a.key : a \in Appends} \cup {g.key : g \in Imports}
Events == [draft : Drafts, signer : Keys, before : Seq(Drafts)]

\* t is a history's tip, or one it had before.
Begins(t) ==
    /\ t \in Seq(Drafts) /\ Len(t) <= Len(tip)
    /\ \A i \in 1..Len(t) : t[i] = tip[i]
\* What was reported as recorded lies on the history of the tip t.
Backed(known, t) ==
    \A n \in Positions : known[n] # {} => n <= Len(t) /\ known[n] = {t[n]}
\* The draft occurs nowhere in a history.
NewTo(d, t) ==
    \A i \in 1..Len(t) : ~UsedBefore(d, t[i]) /\ ~Replayed(d, t[i])
\* What a reading that verified has seen: a beginning of the history.
Seen(view) ==
    /\ view \in Seq(Events) /\ Len(view) <= Len(tip)
    /\ \A i \in 1..Len(view) : view[i].draft = tip[i]
    /\ Begins(TipOf(view)) /\ Len(TipOf(view)) = Len(view)

Written(n, e) == stored[n] = {e} /\ e \in Events
Writing(p) == proc[p].phase \in {"created", "filled", "tipping"}

Phases == {"idle", "laying", "looking", "absent", "reading", "verified", "created",
           "filled", "tipping", "renamed", "rereading", "judging"}
\* A command between two of its steps.
Commanded(step) ==
    /\ step.phase \in Phases
    /\ step.phase \in {"looking", "absent", "reading"} =>
           step.draft \in Drafts /\ step.key \in Keys
    /\ step.phase = "judging" => step.at \in Claims /\ step.ttl \in Ttls

TypeOK ==
    /\ now \in Nat /\ spared \in BOOLEAN
    /\ stored \in [Positions -> SUBSET (Events \cup Partial)]
    /\ tip \in Seq(Drafts)
    /\ acked \in [Positions -> SUBSET Drafts]
    /\ DOMAIN proc = Procs /\ \A p \in Procs : Commanded(proc[p])

-----------------------------------------------------------------------------
(* A good history. *)

DiskGood ==
    /\ Len(tip) <= MaxEvents
    /\ \A n \in 1..Len(tip) : \E e \in stored[n] :
           Written(n, e) /\ e.draft = tip[n] /\ Begins(e.before) /\ Len(e.before) = n - 1
    /\ \A n \in Positions : n = Len(tip) + 1 =>
           \/ stored[n] = Absent \/ stored[n] = Partial
           \/ \E e \in stored[n] :
                  Written(n, e) /\ e.before = tip /\ NewTo(e.draft, tip)
    /\ \A n \in Positions : n > Len(tip) + 1 => stored[n] = Absent
    /\ \A m, n \in 1..Len(tip) : m # n =>
           ~UsedBefore(tip[m], tip[n]) /\ ~Replayed(tip[m], tip[n])
    /\ Backed(acked, tip)

\* Readers know a beginning of it; the event file after it is its one writer's.
ReaderGood(p) ==
    /\ proc[p].phase \in {"looking", "absent", "reading", "judging"} =>
           Begins(proc[p].tip) /\ Backed(proc[p].known, proc[p].tip)
    /\ proc[p].phase = "verified" =>
           LET view == proc[p].view
               e == proc[p].event
           IN  /\ Seen(view) /\ Holds(view, proc[p].known)
               /\ e \in Events /\ e.before = TipOf(view)
               /\ NewTo(e.draft, TipOf(view))
    /\ proc[p].phase \in {"renamed", "rereading"} =>
           LET e == proc[p].event
           IN  e \in Events /\ Len(e.before) < Len(tip)
                 /\ tip[Len(e.before) + 1] = e.draft
    /\ proc[p].phase = "rereading" => Begins(proc[p].tip)
WriterGood(p) ==
    Writing(p) =>
        LET e == proc[p].event
        IN  /\ e \in Events /\ e.before = tip /\ NewTo(e.draft, tip)
            /\ Len(tip) < MaxEvents
            /\ stored[Len(tip) + 1] =
                   (IF proc[p].phase = "created" THEN Partial ELSE {e})

Good ==
    /\ DiskGood
    /\ \A p \in Procs : ReaderGood(p) /\ WriterGood(p)
    /\ \A p, q \in Procs : Writing(p) /\ Writing(q) => p = q
    /\ \A s \in staples : s.paper.state # "REVOKED" => Seen(s.view)

-----------------------------------------------------------------------------
(* A broken one: nobody ever verifies it again, so nobody writes to it. *)

\* The event files follow one another up to the tip.
Chained(files, t) ==
    LET view == Listing(files)
    IN  /\ \A n \in NamesIn(files) : files[n] # Partial
        /\ \A i \in 1..Len(view) :
               view[i].before = (IF i = 1 THEN <<>> ELSE Hash(view[i - 1]))
        /\ t = TipOf(view)
Blocked ==
    /\ ~spared /\ laid = 4 /\ ~Chained(stored, tip)
    /\ \A p \in Procs :
         \/ proc[p].phase = "idle"
         \/ proc[p].phase \in {"looking", "reading", "judging"} /\ proc[p].tip = tip

-----------------------------------------------------------------------------
\* What a staple that does not revoke states of the history it was drawn from.
Drawn(s) ==
    /\ s.view \in Seq(Events) /\ Len(s.view) <= MaxEvents
    /\ Len(s.paper.tip) = Len(s.view)
    /\ Holds(s.view, s.known)
    /\ s.paper.issued \in Nat /\ s.paper.until \in Nat
    /\ s.paper.until <= s.paper.issued + MaxTtl
    /\ s.paper.state = "CURRENT" =>
           Active(s.view, s.paper.policy, s.paper.issued) = {}
StapleTrue ==
    \A s \in staples : s.paper.state # "REVOKED" =>
        /\ Drawn(s)
        /\ \A n \in 1..Len(s.view) :
               acked[n] # {} => acked[n] = {s.view[n].draft}

GateTrue ==
    /\ gate # NoGate =>
         /\ gate.phase \in {"hashed", "shown"} /\ gate.staple \in staples
         /\ gate.want.minimum \in Nat /\ gate.saved \in Nat
         /\ gate.phase = "shown" => gate.shown \in Nat /\ gate.shown <= gate.saved
    /\ \A a \in allowed :
         LET s == a.staple.paper
         IN  /\ a.staple \in staples /\ s.state = "CURRENT" /\ s.policy = a.want.policy
             /\ a.want.minimum \in Nat /\ a.want.minimum <= Len(s.tip)
             /\ a.at < s.until /\ s.issued <= a.at + StapleSkew /\ a.shown = 0

IndInv ==
    TypeOK /\ (Good \/ Blocked) /\ RecordedOnce /\ StapleTrue /\ GateTrue
=============================================================================
