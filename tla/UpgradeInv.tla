------------------------------- MODULE UpgradeInv ------------------------------
(***************************************************************************)
(* Why what UpgradeGuard claims holds: what is true of an evaluation, of    *)
(* the Docker call in progress and of the files between any two steps.      *)
(***************************************************************************)
EXTENDS UpgradeGuard

Probe == Step("call", <<"probe", "current">>)
Names == UNION {Range(c.canaries) : c \in Configs}
StepSet ==
  [do : {"inspect", "again"}, on : Parts] \cup [do : {"roots", "client", "image"}, on : {<< >>}]
    \cup [do : {"call"}, on : (Names \cup {"probe"}) \X Sides]
Given == Outcomes \cup {Nothing, Hold, Held}

ReceiptSet == [id : Nat, verdict : {"none", "HOLD", "CHANGED", "SAFE"}]
EntrySet == [id : Nat, verdict : {"none", "HOLD", "CHANGED", "SAFE"}, signer : {"owner", "nobody"},
             intact : BOOLEAN]

FilesOK ==
  /\ disk \in [config : [content : Configs, id : Nat], harness : {"own", "template"},
               current : Trees, candidate : Trees]
  /\ edits \in Nat /\ checks \in Nat
  /\ touched \in [Items -> Nat]
  /\ files \in [private : ReceiptSet, public : EntrySet, all : SUBSET ReceiptSet]

RunOK ==
  run # NoRun =>
    /\ checks > 0
    /\ run = [mode |-> run.mode, todo |-> run.todo, supplied |-> run.supplied,
              before |-> run.before, after |-> run.after, contained |-> run.contained,
              results |-> run.results, left |-> run.left, cause |-> run.cause]
    /\ run.mode \in {"check", "doctor"}
    /\ run.todo \in Seq(StepSet)
    /\ DOMAIN run.before \subseteq Parts /\ DOMAIN run.after \subseteq Parts
    /\ run.contained \in BOOLEAN /\ run.left \in BOOLEAN
    /\ ConfigFile \in DOMAIN run.before => Config \in Configs

BoxOK ==
  /\ box \in [state : {"none", "asked", "up", "exited"}, gives : Given, result : Given,
              stage : {"none", "run", "remove", "list", "done"}]
  /\ box.stage = "none" => box = NoBox

\* Between evaluations nothing is under way and nothing remembered.
Idle == run = NoRun => box = NoBox /\ trials = {} /\ touched = [i \in Items |-> 0]

-----------------------------------------------------------------------------
(* The plan.                                                                 *)

Planned(i, s) == i \in DOMAIN run.todo /\ run.todo[i] = s
ProbeAhead == Len(run.todo) > 0 /\ Planned(Len(run.todo), Probe)

\* Until the probe is over nothing is tried and nothing read again, and before
\* it all that the trials use is read, the manifest before its tree.
Preparing ==
  ProbeAhead =>
    /\ ~run.contained /\ ~run.left /\ run.results = {} /\ trials = {} /\ DOMAIN run.after = {}
    /\ \A i \in 1..(Len(run.todo) - 1) : run.todo[i].do \in {"inspect", "roots", "client", "image"}
    /\ run.mode = "check" =>
         /\ \A part \in Parts :
              part \in DOMAIN run.before \/ \E i \in 1..Len(run.todo) : Planned(i, Step("inspect", part))
         /\ \A i \in 1..Len(run.todo), side \in Sides :
              Planned(i, Step("inspect", <<side, "tree">>)) =>
                \/ <<side, "manifest">> \in DOMAIN run.before
                \/ \E j \in 1..(i - 1) : Planned(j, Step("inspect", <<side, "manifest">>))

\* A canary is tried only in a contained evaluation and before anything is read again.
Trying(i) ==
  /\ run.todo[i].do = "call" /\ run.todo[i].on \in Range(Config.canaries) \X Sides
  /\ run.contained /\ DOMAIN run.after = {}
Finishing ==
  ~ProbeAhead =>
    /\ run.mode = "doctor" => run.todo = << >>
    /\ \A i \in 1..Len(run.todo) : run.todo[i].do = "again" \/ Trying(i)
    /\ \A i, j \in 1..Len(run.todo) : i < j /\ run.todo[i].do = "again" => run.todo[j].do = "again"

PlanTrue ==
  run # NoRun =>
    /\ Preparing /\ Finishing
    /\ run.contained /\ run.mode = "check" => Parts \subseteq DOMAIN run.before
    /\ trials # {} \/ run.results # {} => run.contained /\ run.mode = "check"

-----------------------------------------------------------------------------
(* The Docker call.                                                          *)

Canary == Todo.on[1]
Tried(canary, side, gives) == \E t \in trials : t.canary = canary /\ t.side = side /\ t.gives = gives

\* What the client learnt is what a container gave that ended and was removed.
CallTrue ==
  box.stage # "none" =>
    /\ run # NoRun /\ run.todo # << >> /\ Todo.do = "call"
    /\ box.stage = "run" => box.state # "none"
    /\ box.state = "exited" => Canary = "probe" \/ Tried(Canary, Todo.on[2], box.gives)
    /\ box.stage \in {"remove", "list", "done"} /\ box.result # Hold =>
         /\ box.state = IF box.stage = "remove" THEN "exited" ELSE "none"
         /\ Canary = "probe" \/ Tried(Canary, Todo.on[2], box.result)

\* A container is left behind only by a call that counts for nothing.
LeftTrue ==
  run # NoRun /\ run.left =>
    ~run.contained \/ (run.mode = "check" /\ \E r \in run.results : r.gives = Hold)

\* Every trial is counted as what it gave, or as no evidence ...
Counted(t) == \E r \in run.results : r.canary = t.canary /\ r.side = t.side /\ r.gives \in {t.gives, Hold}
BeingCounted(t) ==
  /\ Todo.on = <<t.canary, t.side>>
  /\ \/ box.stage = "run" /\ box.state = "exited" /\ box.gives = t.gives
     \/ box.stage \in {"remove", "list", "done"} /\ box.result \in {t.gives, Hold}

\* ... and every result that counts is a trial's.
TrialsTrue ==
  run # NoRun =>
    /\ \A t \in trials :
         /\ t.canary \in Range(Config.canaries) /\ t.side \in Sides
         /\ t.gives = Hold \/ t.gives \in Outcomes
         /\ Counted(t) \/ BeingCounted(t)
    /\ \A r \in run.results :
         /\ r.canary \in Range(Config.canaries) /\ r.side \in Sides
         /\ r.gives = Hold \/ Tried(r.canary, r.side, r.gives)

-----------------------------------------------------------------------------
(* The files.                                                                *)

\* What was read of an item and not changed since is still so.
ReadTrue ==
  run # NoRun =>
    /\ \A part \in DOMAIN run.before : touched[part[1]] = 0 => run.before[part] = Content(part)
    /\ run.mode = "check" =>
         \A side \in Sides : <<side, "tree">> \in DOMAIN run.before => <<side, "manifest">> \in DOMAIN run.before

\* What was seen of an item changed once is what was recorded, or differs from
\* it and is still there, to be found when it is read again.
StillThere(part, content) ==
  content = Content(part) /\ (part \in DOMAIN run.after => run.after[part] = Content(part))
SeenTrue ==
  run # NoRun =>
    /\ \A t \in trials :
         /\ touched[t.side] <= 1 =>
              \/ t.tree = run.before[<<t.side, "tree">>]
              \/ StillThere(<<t.side, "tree">>, t.tree)
         /\ touched["harness"] <= 1 =>
              t.harness = run.before[Harness] \/ StillThere(Harness, t.harness)
    /\ \A side \in Sides :
         /\ run.mode = "check" /\ <<side, "tree">> \in DOMAIN run.before /\ touched[side] <= 1
         => \/ Manifest(run.before[<<side, "tree">>]) = run.before[<<side, "manifest">>]
            \/ StillThere(<<side, "manifest">>, Manifest(run.before[<<side, "tree">>]))

\* The receipts and the entry there are were issued.
IssuedTrue ==
  /\ files.private.id = 0 \/ files.private \in files.all
  /\ EntryVerified(files.public) =>
       [id |-> files.public.id, verdict |-> files.public.verdict] \in files.all

IndInv ==
  /\ FilesOK /\ RunOK /\ BoxOK /\ Idle /\ PlanTrue /\ CallTrue /\ LeftTrue /\ TrialsTrue
  /\ ReadTrue /\ SeenTrue /\ IssuedTrue /\ RowsWereIssued
=============================================================================
