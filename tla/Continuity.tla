----------------------------- MODULE Continuity -----------------------------
(***************************************************************************)
(* A continuity history on disk and the commands that share it: any number *)
(* of `init`, `append`, `import-github`, `status` and `staple` processes,  *)
(* each of which may fail or die between two of its file operations, and   *)
(* a deployment job that runs `terraform-plan-gate` with a staple.         *)
(*                                                                         *)
(* There is no lock: writers meet in the exclusive creation of the next    *)
(* event file and in the tip, which is renamed into place after it.        *)
(***************************************************************************)
EXTENDS ContinuityHistory

CONSTANTS Procs,
          Appends,        \* [draft, key]: what `append` may be given
          Imports,        \* [delivery, payload, key]: `import-github`
          Pins,           \* --public-key: sets of keys
          Roots,          \* the receipt a history starts from
          Policies, Environments, Authorities,
          Ttls,
          Claims,         \* what --now may claim
          Minimums,       \* --minimum-sequence
          MaxEvents,      \* bound: entries of a history
          MaxTime,        \* bound: the clock
          MaxStaples,     \* bound: staples issued
          MaxPlans,       \* bound: rewrites of the saved plan
          MaxAllowed      \* bound: ALLOW results

ASSUME ContinuityAssumption ==
    /\ {MaxEvents, MaxTime, MaxStaples, MaxPlans, MaxAllowed}
           \subseteq Nat
    /\ Ttls \subseteq 1 .. MaxTtl /\ Claims \cup Minimums \subseteq Nat

VARIABLES now,
          root,       \* the receipt and its signature
          laid,       \* how much of the directory `init` has laid: 0 .. 4
          stored,     \* 1 .. MaxEvents -> the event file's contents
          tip,        \* tip.json
          temps,      \* the processes whose temporary file is in the directory
          proc,
          acked,      \* 1 .. MaxEvents -> the drafts reported as recorded (history)
          staples,
          gate,
          allowed     \* ALLOW results

disk == <<laid, stored, tip, temps>>
job == <<gate, allowed>>
vars == <<now, root, laid, stored, tip, temps, proc, acked, staples, gate,
          allowed>>

Positions == 1 .. MaxEvents
Absent == {}                      \* a file is {} or the set of its contents
Partial == {[half |-> TRUE]}
Idle == [phase |-> "idle"]
NoGate == [phase |-> "idle"]

-----------------------------------------------------------------------------
(* Files. *)

NamesIn(files) == {n \in Positions : files[n] # Absent}
Names == NamesIn(stored)
Readable == laid = 4 /\ temps = {}     \* no unsupported or missing entries
Unbroken == \A n \in Names : stored[n] # Partial
Contents(file) == CHOOSE e \in file : TRUE
\* The event files in the order of their names.
UpTo(names, n) == {m \in names : m <= n}
Listing(files) ==
    LET names == NamesIn(files)
    IN  [i \in 1 .. Cardinality(names) |->
            Contents(files[CHOOSE n \in names : Cardinality(UpTo(names, n)) = i])]
Listed == Listing(stored)

Record(n, d) == acked' = [acked EXCEPT ![n] = {d}]
To(p, step) == proc' = [proc EXCEPT ![p] = step]
Done(p) == To(p, Idle)

Init ==
    /\ now = 1
    /\ root \in Roots
    /\ laid = 0 /\ stored = [n \in Positions |-> Absent]
    /\ tip = <<>> /\ temps = {}
    /\ proc = [p \in Procs |-> Idle]
    /\ acked = [n \in Positions |-> {}]
    /\ staples = {}
    /\ gate = NoGate /\ allowed = {}

-----------------------------------------------------------------------------
(* initializeContinuityChain: the directories must be new, then receipt,   *)
(* root and tip are written exclusively.                                    *)

BeginInit(p) ==
    /\ proc[p] = Idle /\ laid = 0
    /\ laid' = 1
    /\ To(p, [phase |-> "laying"])
    /\ UNCHANGED <<now, root, stored, tip, temps, acked, staples, job>>
LayNext(p) ==
    /\ proc[p].phase = "laying"
    /\ laid' = laid + 1
    /\ IF laid' = 4 THEN Done(p) ELSE UNCHANGED proc
    /\ UNCHANGED <<now, root, stored, tip, temps, acked, staples, job>>

-----------------------------------------------------------------------------
(* Reading a history: the directory's entries and the tip first, the event *)
(* files after.  Listing the directory before the tip is read shows nothing *)
(* more: a writer creates its event file before its temporary tip.          *)

\* `append`: the draft comes from a file, or from an import that found no
\* record of its delivery.
BeginAppend(p, a) ==
    /\ proc[p] = Idle /\ Readable
    /\ To(p, [phase |-> "reading", draft |-> a.draft, key |-> a.key,
              tip |-> tip, known |-> acked])
    /\ UNCHANGED <<now, root, disk, acked, staples, job>>

\* importGitHubOutcome reads the history once for its root, and
\* appendIdempotently once more to look for the delivery; the first reading
\* can only refuse what the second refuses.
BeginImport(p, g) ==
    /\ proc[p] = Idle /\ Readable
    /\ g.payload.shape = "outage" => g.key # None
    /\ \E outcome \in Classified(g.payload) :
           To(p, [phase |-> "looking", key |-> g.key, tip |-> tip, known |-> acked,
                  draft |-> Imported(g.delivery, g.payload, outcome, g.key)])
    /\ UNCHANGED <<now, root, disk, acked, staples, job>>

\* The reading that process p is about to finish verifies.
ReadsValid(p) == Unbroken /\ Verifies(root, Listed, proc[p].tip, {}, now + FutureSkew)

Existing(d) == {n \in 1..Len(Listed) : Listed[n].draft.delivery = d.delivery}
LookUp(p) ==
    LET d == proc[p].draft
        key == proc[p].key
    IN  /\ proc[p].phase = "looking"
        /\ IF ~ReadsValid(p) THEN Done(p) /\ UNCHANGED acked
           ELSE IF Existing(d) = {}
           THEN To(p, [proc[p] EXCEPT !.phase = "absent"]) /\ UNCHANGED acked
           ELSE /\ Done(p)
                /\ \E n \in Existing(d) :
                      IF Listed[n].draft = d /\ Listed[n].signer = key
                      THEN Record(n, d)       \* "already recorded"
                      ELSE UNCHANGED acked    \* different evidence: an error
        /\ UNCHANGED <<now, root, disk, staples, job>>
AppendImported(p) ==
    /\ proc[p].phase = "absent"
    /\ IF Readable
       THEN To(p, [proc[p] EXCEPT !.phase = "reading", !.tip = tip,
                                  !.known = acked])
       ELSE Done(p)
    /\ UNCHANGED <<now, root, disk, acked, staples, job>>

\* appendContinuityEvent verifies what it read and builds its event on it.
ReadToAppend(p) ==
    /\ proc[p].phase = "reading"
    /\ IF /\ ReadsValid(p)
          /\ MayStore(proc[p].draft, proc[p].key, Listed, now + FutureSkew)
       THEN To(p, [phase |-> "verified", view |-> Listed, known |-> proc[p].known,
                   event |-> StoredEvent(proc[p].draft, proc[p].key, Listed)])
       ELSE Done(p)
    /\ UNCHANGED <<now, root, disk, acked, staples, job>>

-----------------------------------------------------------------------------
(* Writing. *)

\* The event file is created exclusively: whoever finds it there fails.
CreateEvent(p) ==
    LET n == Len(proc[p].view) + 1
    IN  /\ proc[p].phase = "verified" /\ n <= MaxEvents
        /\ IF stored[n] = Absent
           THEN /\ stored' = [stored EXCEPT ![n] = Partial]
                /\ To(p, [phase |-> "created", event |-> proc[p].event])
           ELSE UNCHANGED stored /\ Done(p)
        /\ UNCHANGED <<now, root, laid, tip, temps, acked, staples, job>>
Position(p) == Len(proc[p].event.before) + 1
FillEvent(p) ==
    /\ proc[p].phase = "created"
    /\ stored' = [stored EXCEPT ![Position(p)] = {proc[p].event}]
    /\ To(p, [proc[p] EXCEPT !.phase = "filled"])
    /\ UNCHANGED <<now, root, laid, tip, temps, acked, staples, job>>
OpenTip(p) ==
    /\ proc[p].phase = "filled"
    /\ temps' = temps \cup {p}
    /\ To(p, [proc[p] EXCEPT !.phase = "tipping"])
    /\ UNCHANGED <<now, root, laid, stored, tip, acked, staples, job>>
RenameTip(p) ==
    /\ proc[p].phase = "tipping"
    /\ temps' = temps \ {p} /\ tip' = Hash(proc[p].event)
    /\ To(p, [proc[p] EXCEPT !.phase = "renamed"])
    /\ UNCHANGED <<now, root, laid, stored, acked, staples, job>>
\* The history is verified once more before the append is reported.
ReadAgain(p) ==
    /\ proc[p].phase = "renamed"
    /\ IF Readable
       THEN To(p, [phase |-> "rereading", event |-> proc[p].event, tip |-> tip])
       ELSE Done(p)
    /\ UNCHANGED <<now, root, disk, acked, staples, job>>
Report(p) ==
    /\ proc[p].phase = "rereading"
    /\ IF ReadsValid(p)
       THEN Record(Position(p), proc[p].event.draft)
       ELSE UNCHANGED acked
    /\ Done(p)
    /\ UNCHANGED <<now, root, disk, staples, job>>

\* A write fails: an exclusive file stays as it is, a temporary one is removed.
WriteFails(p) ==
    /\ proc[p].phase \in {"laying", "created", "filled", "tipping"}
    /\ temps' = temps \ {p}
    /\ Done(p)
    /\ UNCHANGED <<now, root, laid, stored, tip, acked, staples, job>>
\* The process dies: its temporary file stays too, under a random name.
Crash(p) ==
    /\ proc[p].phase \in {"laying", "created", "filled", "tipping", "renamed",
                          "rereading"}
    /\ Done(p)
    /\ UNCHANGED <<now, root, disk, acked, staples, job>>

-----------------------------------------------------------------------------
(* `status` and `staple`, with a claimed time. *)

BeginStaple(p, policy, environment, pinned, at, ttl, key) ==
    /\ proc[p] = Idle /\ Readable /\ Cardinality(staples) < MaxStaples
    /\ To(p, [phase |-> "judging", policy |-> policy,
              environment |-> environment, pinned |-> pinned, at |-> at,
              ttl |-> ttl, key |-> key, tip |-> tip, known |-> acked])
    /\ UNCHANGED <<now, root, disk, acked, staples, job>>
\* The decision, and the staple that states it; view and known are history.
Judge(p) ==
    LET j == proc[p]
        view == Listed
        valid == Verifies(root, view, j.tip, j.pinned, j.at + j.policy.skew)
        state == Decision(valid, root, view, j.policy, j.environment, j.at)
    IN  /\ j.phase = "judging"
        /\ IF Unbroken /\ MayStaple(view)
           THEN staples' = staples \cup
                  {[paper |-> Staple(state, view, j.policy, j.environment,
                                     j.at, j.ttl, j.key),
                    view |-> view, known |-> j.known]}
           ELSE UNCHANGED staples
        /\ Done(p)
        /\ UNCHANGED <<now, root, disk, acked, job>>

-----------------------------------------------------------------------------
(* verifyTerraformSavedPlan, in a job that holds any staple. *)

BeginGate(s, want) ==
    /\ gate = NoGate /\ Cardinality(allowed) < MaxAllowed
    /\ StapleAllows(s.paper, want, now)
    /\ gate' = [phase |-> "hashed", staple |-> s, want |-> want, saved |-> 0]
    /\ UNCHANGED <<now, root, disk, proc, acked, staples, allowed>>
ShowPlan ==
    /\ gate.phase = "hashed"
    /\ gate' = [phase |-> "shown", staple |-> gate.staple, want |-> gate.want,
                saved |-> gate.saved, shown |-> gate.saved]
    /\ UNCHANGED <<now, root, disk, proc, acked, staples, allowed>>
\* The plan and the executable must still be what was hashed, and the staple
\* must still allow by the clock.
EndGate ==
    /\ gate.phase = "shown"
    /\ IF gate.saved = 0 /\ StapleAllows(gate.staple.paper, gate.want, now)
       THEN allowed' = allowed \cup
                {[staple |-> gate.staple, want |-> gate.want, at |-> now,
                  shown |-> gate.shown]}
       ELSE UNCHANGED allowed
    /\ gate' = NoGate
    /\ UNCHANGED <<now, root, disk, proc, acked, staples>>

\* Somebody saves another plan; only a gate that is looking can tell, and
\* counts the versions from the one it hashed.
RewritePlan ==
    /\ gate # NoGate /\ gate.saved < MaxPlans
    /\ gate' = [gate EXCEPT !.saved = @ + 1]
    /\ UNCHANGED <<now, root, disk, proc, acked, staples, allowed>>
Tick ==
    /\ now < MaxTime
    /\ now' = now + 1
    /\ UNCHANGED <<root, disk, proc, acked, staples, job>>

\* What a deployment job pins: a tip at most, and the sequence it remembers.
Wants ==
    [signer : Authorities, environment : Environments, policy : Policies,
     tips : {{}, {tip}}, minimum : Minimums]

Begin(p) ==
    \/ BeginInit(p)
    \/ \E a \in Appends : BeginAppend(p, a)
    \/ \E g \in Imports : BeginImport(p, g)
    \/ \E policy \in Policies, environment \in Environments, pinned \in Pins,
          at \in Claims, ttl \in Ttls, key \in Authorities :
           BeginStaple(p, policy, environment, pinned, at, ttl, key)
Continue(p) ==
    \/ LayNext(p) \/ LookUp(p) \/ AppendImported(p) \/ ReadToAppend(p)
    \/ CreateEvent(p) \/ FillEvent(p) \/ OpenTip(p) \/ RenameTip(p)
    \/ ReadAgain(p) \/ Report(p) \/ Judge(p)
    \/ WriteFails(p) \/ Crash(p)
Deploys ==
    \/ \E s \in staples : \E want \in Wants : BeginGate(s, want)
    \/ ShowPlan \/ EndGate

Next ==
    \/ \E p \in Procs : Begin(p) \/ Continue(p)
    \/ Deploys \/ RewritePlan \/ Tick
Spec == Init /\ [][Next]_vars

-----------------------------------------------------------------------------
(* Properties. *)

Holds(view, known) ==
    \A n \in Positions : known[n] # {} =>
        n <= Len(view) /\ known[n] = {view[n].draft}

\* A history that verifies still holds, at its place, every entry that any
\* command had reported as recorded before the reading began: concurrent
\* appends, failed writes and dead processes may block a history, but never
\* make it shorter or different (chain.ts:247-347, 401-411).
HistoryKept ==
    /\ \A p \in Procs : proc[p].phase = "verified" =>
           Holds(proc[p].view, proc[p].known)
    /\ \A s \in staples : s.paper.state # "REVOKED" => Holds(s.view, s.known)

\* The event written at place n, unless another's copy lies there.
InPlace(n) == {e \in stored[n] \ Partial : Len(e.before) + 1 = n}

\* However often and however concurrently a delivery is imported, or an event
\* appended, at most one entry is written for it (github.ts:236-252).
RecordedOnce ==
    \A m, n \in Names : m # n =>
        \A e \in InPlace(m), f \in InPlace(n) :
            ~UsedBefore(e.draft, f.draft) /\ ~Replayed(e.draft, f.draft)

\* An ALLOW rests on a CURRENT staple for the pinned binding, at a moment the
\* staple covers, for the very plan that was inspected; in the history it was
\* drawn from, every revocation was lifted by a later, still fresh repair that
\* another trusted issuer signed; and that history holds whatever had been
\* reported before, and every entry up to the pinned minimum sequence
\* (staple.ts:299-370, terraform.ts:131-203).
AllowedIsCovered ==
    \A a \in allowed :
        LET s == a.staple.paper
            view == a.staple.view
        IN  /\ a.at < s.until /\ s.until <= s.issued + MaxTtl
            /\ s.issued <= a.at + StapleSkew
            /\ a.shown = 0
            /\ \A i \in 1..Len(view) :
                   Revokes(view[i].draft, a.want.policy) =>
                     \E j \in (i + 1)..Len(view) :
                         /\ view[j].draft.supersedes = view[i].draft.id
                         /\ view[j].draft.issuer # view[i].draft.issuer
                         /\ view[j].signer \in a.want.policy.issuers
                         /\ view[j].draft.fresh > s.issued
            /\ Holds(view, a.staple.known)
            /\ \A n \in 1 .. a.want.minimum :
                   acked[n] # {} => acked[n] = {view[n].draft}
=============================================================================
