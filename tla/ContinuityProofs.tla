--------------------------- MODULE ContinuityProofs ---------------------------
(***************************************************************************)
(* A continuity history keeps what was reported of it, whatever its        *)
(* writers and one accident do: the proofs of HistoryKept, RecordedOnce    *)
(* and AllowedIsCovered, for any number of processes and entries.          *)
(***************************************************************************)
EXTENDS ContinuityInv, TLAPS, FiniteSetTheorems, SequenceTheorems

-----------------------------------------------------------------------------
(* Sequences and the listing of a directory.                                 *)

LEMMA Counted == \A n \in Nat : Cardinality(1..n) = n
  <1> SUFFICES ASSUME NEW n \in Nat PROVE Cardinality(1..n) = n
    OBVIOUS
  <1>1. Cardinality(1..n) = IF 1 > n THEN 0 ELSE n - 1 + 1
    BY FS_Interval
  <1> QED BY <1>1

\* The event files 1 .. k are listed in their order.
LEMMA ListedWhole ==
    ASSUME NEW k \in Nat, NEW files, NamesIn(files) = 1..k
    PROVE  Listing(files) = [i \in 1..k |-> Contents(files[i])]
  <1> DEFINE names == NamesIn(files)
             place(n) == Cardinality(UpTo(names, n))
             nth(i) == CHOOSE n \in names : place(n) = i
  <1>1. Cardinality(names) = k
    BY Counted
  <1>2. ASSUME NEW n \in 1..k PROVE place(n) = n
    <2>1. UpTo(names, n) = 1..n
      BY DEF UpTo
    <2> QED BY <2>1, Counted
  <1>3. Listing(files) = [i \in 1..Cardinality(names) |-> Contents(files[nth(i)])]
    BY DEF Listing
  <1> HIDE DEF place
  <1>4. ASSUME NEW i \in 1..k PROVE nth(i) = i
    BY <1>2
  <1> HIDE DEF nth
  <1> QED BY <1>1, <1>3, <1>4

\* Without the j-th, those after it take one place less.
LEMMA ListedGap ==
    ASSUME NEW k \in Nat, NEW j \in 1..k, NEW files, NamesIn(files) = (1..k) \ {j}
    PROVE  Listing(files) = [i \in 1..(k - 1) |-> Contents(files[IF i < j THEN i ELSE i + 1])]
  <1> DEFINE names == NamesIn(files)
             place(n) == Cardinality(UpTo(names, n))
             nth(i) == CHOOSE n \in names : place(n) = i
             next(i) == IF i < j THEN i ELSE i + 1
  <1>1. Cardinality(names) = k - 1
    <2>1. IsFiniteSet(1..k) /\ j \in 1..k
      BY FS_Interval
    <2> QED BY <2>1, FS_RemoveElement, Counted
  <1>2. ASSUME NEW n \in names PROVE place(n) = IF n < j THEN n ELSE n - 1
    <2>1. CASE n < j
      <3>1. UpTo(names, n) = 1..n
        BY <2>1 DEF UpTo
      <3>2. place(n) = n
        BY <3>1, Counted
      <3> HIDE DEF place
      <3> QED BY <2>1, <3>2
    <2>2. CASE n > j
      <3>1. UpTo(names, n) = (1..n) \ {j} /\ j \in 1..n /\ n \in Nat
        BY <2>2 DEF UpTo
      <3>2. IsFiniteSet(1..n)
        BY <3>1, FS_Interval
      <3>3. Cardinality((1..n) \ {j}) = n - 1
        BY <3>1, <3>2, FS_RemoveElement, Counted
      <3>4. place(n) = n - 1
        BY <3>1, <3>3
      <3> HIDE DEF place
      <3> QED BY <2>2, <3>4
    <2> QED BY <2>1, <2>2
  <1>3. Listing(files) = [i \in 1..Cardinality(names) |-> Contents(files[nth(i)])]
    BY DEF Listing
  <1> HIDE DEF place
  <1>4. ASSUME NEW i \in 1..(k - 1) PROVE nth(i) = next(i)
    <2>1. next(i) \in names
      OBVIOUS
    <2>2. place(next(i)) = i
      BY <1>2, <2>1
    <2>3. ASSUME NEW n \in names, place(n) = i PROVE n = next(i)
      BY <1>2, <2>3
    <2> QED BY <2>1, <2>2, <2>3
  <1> HIDE DEF nth
  <1> QED BY <1>1, <1>3, <1>4

-----------------------------------------------------------------------------
(* Entries and files.                                                        *)

LEMMA HashFacts ==
    ASSUME NEW e \in Events
    PROVE  /\ e.draft \in Drafts /\ e.before \in Seq(Drafts)
           /\ Hash(e) \in Seq(Drafts) /\ Len(e.before) \in Nat
           /\ Len(Hash(e)) = Len(e.before) + 1
           /\ Hash(e)[Len(e.before) + 1] = e.draft
           /\ \A i \in 1..Len(e.before) : Hash(e)[i] = e.before[i]
           /\ {e} # Absent /\ {e} # Partial
  <1>1. e.draft \in Drafts /\ e.before \in Seq(Drafts)
    BY DEF Events
  <1>2. e # [half |-> TRUE]
    BY DEF Events
  <1>3. {e} # Absent /\ {e} # Partial
    BY <1>2 DEF Absent, Partial
  <1> QED BY <1>1, <1>3, LenProperties DEF Hash

LEMMA TipFacts ==
    ASSUME TypeOK
    PROVE  /\ tip \in Seq(Drafts) /\ Len(tip) \in Nat /\ Begins(tip) /\ Begins(<<>>)
           /\ MaxEvents \in Nat /\ MaxTtl \in Nat /\ Partial # Absent
           /\ \A t : Begins(t) /\ Len(t) = Len(tip) => t = tip
  <1>1. tip \in Seq(Drafts) /\ Len(tip) \in Nat
    BY LenProperties DEF TypeOK
  <1>2. ASSUME NEW t, Begins(t), Len(t) = Len(tip) PROVE t = tip
    BY <1>1, <1>2, SeqEqual DEF Begins
  <1>3. Begins(<<>>) /\ Begins(tip)
    BY <1>1, EmptySeq DEF Begins
  <1> QED BY <1>1, <1>2, <1>3, ContinuityAssumption, HistoryAssumption DEF Partial, Absent

\* The file of an entry of a good history holds that entry.
LEMMA EntryFacts ==
    ASSUME TypeOK, DiskGood, NEW n \in 1..Len(tip)
    PROVE  /\ n \in Positions /\ n \in Nat /\ Written(n, Contents(stored[n]))
           /\ Contents(stored[n]) \in Events /\ Contents(stored[n]).draft = tip[n]
           /\ Begins(Contents(stored[n]).before) /\ Len(Contents(stored[n]).before) = n - 1
           /\ Begins(Hash(Contents(stored[n]))) /\ Len(Hash(Contents(stored[n]))) = n
           /\ stored[n] # Absent /\ stored[n] # Partial
  <1>1. n \in Positions /\ n \in Nat
    BY TipFacts DEF DiskGood, Positions
  <1>2. PICK e : Written(n, e) /\ e.draft = tip[n] /\ Begins(e.before) /\ Len(e.before) = n - 1
    BY DEF DiskGood
  <1>3. Contents(stored[n]) = e /\ e \in Events
    BY <1>2 DEF Contents, Written
  <1>4. Begins(Hash(e)) /\ Len(Hash(e)) = n
    <2>1. Hash(e) \in Seq(Drafts) /\ Len(Hash(e)) = n
      BY <1>1, <1>2, <1>3, HashFacts
    <2>2. \A i \in 1..n : Hash(e)[i] = tip[i]
      <3>1. \A i \in 1..(n - 1) : Hash(e)[i] = e.before[i] /\ e.before[i] = tip[i]
        BY <1>2, <1>3, HashFacts DEF Begins
      <3>2. Hash(e)[n] = tip[n]
        BY <1>1, <1>2, <1>3, HashFacts
      <3> QED BY <1>1, <3>1, <3>2
    <2> QED BY <1>1, <2>1, <2>2, TipFacts DEF Begins
  <1>5. stored[n] # Absent /\ stored[n] # Partial
    BY <1>2, <1>3, HashFacts DEF Written
  <1> QED BY <1>1, <1>2, <1>3, <1>4, <1>5

\* One file more may be there: half written, or an entry that follows the tip.
LEMMA LeftoverFacts ==
    ASSUME TypeOK, DiskGood, Len(tip) + 1 \in Names
    PROVE  LET n == Len(tip) + 1
           IN  /\ n \in Positions
               /\ stored[n] # Partial =>
                    /\ Written(n, Contents(stored[n])) /\ Contents(stored[n]) \in Events
                    /\ Contents(stored[n]).before = tip /\ NewTo(Contents(stored[n]).draft, tip)
                    /\ Len(Hash(Contents(stored[n]))) = n
  <1> DEFINE n == Len(tip) + 1
  <1>1. n \in Positions /\ stored[n] # Absent
    BY DEF Names, NamesIn
  <1>2. ASSUME stored[n] # Partial
        PROVE  /\ Written(n, Contents(stored[n])) /\ Contents(stored[n]) \in Events
               /\ Contents(stored[n]).before = tip /\ NewTo(Contents(stored[n]).draft, tip)
               /\ Len(Hash(Contents(stored[n]))) = n
    <2>1. PICK e : Written(n, e) /\ e.before = tip /\ NewTo(e.draft, tip)
      BY <1>1, <1>2 DEF DiskGood
    <2>2. Contents(stored[n]) = e /\ e \in Events
      BY <2>1 DEF Contents, Written
    <2> QED BY <2>1, <2>2, HashFacts
  <1> QED BY <1>1, <1>2

Extent == IF Len(tip) + 1 \in Names THEN Len(tip) + 1 ELSE Len(tip)
LEMMA NamesFacts ==
    ASSUME TypeOK, DiskGood
    PROVE  /\ Names = 1..Extent /\ Extent \in Nat /\ Extent <= MaxEvents
           /\ Extent = Len(tip) \/ (Extent = Len(tip) + 1 /\ Len(tip) + 1 \in Names)
  <1>1. Len(tip) \in Nat /\ MaxEvents \in Nat /\ Len(tip) <= MaxEvents
    BY TipFacts DEF DiskGood
  <1>2. \A n \in Positions : n <= Len(tip) => n \in Names
    BY <1>1, EntryFacts DEF Names, NamesIn, Positions
  <1>3. \A n \in Names : n \in Positions /\ n <= Len(tip) + 1
    BY <1>1 DEF Names, NamesIn, DiskGood, Positions
  <1>4. Extent \in Nat /\ Extent <= MaxEvents
    BY <1>1, <1>3 DEF Extent, Positions
  <1>5. \A n : n \in Names <=> n \in 1..Extent
    <2>1. ASSUME NEW n \in Names PROVE n \in 1..Extent
      BY <1>1, <1>3 DEF Extent, Positions
    <2>2. ASSUME NEW n \in 1..Extent PROVE n \in Names
      BY <1>1, <1>2, <1>4 DEF Extent, Positions
    <2> QED BY <2>1, <2>2
  <1>6. Names = 1..Extent
    BY <1>5, Zenon
  <1> QED BY <1>4, <1>6 DEF Extent

\* Whoever read a tip this history had and finds its files in order has read
\* its present tip and all of its entries.
LEMMA ReadingFacts ==
    ASSUME TypeOK, DiskGood, Unbroken, NEW t, Begins(t), t = TipOf(Listed)
    PROVE  /\ t = tip /\ Seen(Listed) /\ Len(Listed) = Len(tip)
           /\ \A i \in 1..Len(tip) : Listed[i].draft = tip[i] /\ Written(i, Listed[i])
  <1> DEFINE k == Extent
  <1>1. /\ Names = 1..k /\ k \in Nat /\ k <= MaxEvents
        /\ k = Len(tip) \/ (k = Len(tip) + 1 /\ Len(tip) + 1 \in Names)
    BY NamesFacts
  <1> HIDE DEF k
  <1>2. Listed = [i \in 1..k |-> Contents(stored[i])]
    BY <1>1, ListedWhole DEF Listed, Names
  <1>3. Len(tip) \in Nat /\ Len(t) <= Len(tip) /\ Len(t) \in Nat
    BY TipFacts, LenProperties DEF Begins
  <1>4. \A i \in 1..k : Contents(stored[i]) \in Events
    <2>1. ASSUME NEW i \in 1..k PROVE Contents(stored[i]) \in Events
      <3>1. i <= Len(tip) \/ i = Len(tip) + 1
        BY <1>1, <1>3
      <3>2. stored[i] # Partial
        BY <1>1 DEF Unbroken
      <3>3. CASE i <= Len(tip)
        BY <1>3, <3>3, EntryFacts
      <3>4. CASE i = Len(tip) + 1
        <4>1. Len(tip) + 1 \in Names
          BY <1>1, <3>4
        <4> QED BY <3>2, <3>4, <4>1, LeftoverFacts
      <3> QED BY <3>1, <3>3, <3>4
    <2> QED BY <2>1
  <1>5. Listed \in Seq(Events) /\ Len(Listed) = k
    <2>1. Listed \in [1..k -> Events]
      BY <1>2, <1>4
    <2>2. Listed \in Seq(Events)
      BY <1>1, <2>1, SeqDef
    <2> QED BY <1>1, <2>1, <2>2, LenProperties
  <1>6. k # Len(tip) + 1
    <2> SUFFICES ASSUME k = Len(tip) + 1 PROVE FALSE
      OBVIOUS
    <2>1. TipOf(Listed) = Hash(Contents(stored[k]))
      BY <1>2, <1>3, <1>5, EmptySeq DEF TipOf
    <2>2. stored[k] # Partial
      BY <1>1, <1>3 DEF Unbroken
    <2>3. Len(Hash(Contents(stored[k]))) = k
      BY <1>1, <1>3, <2>2, LeftoverFacts
    <2> QED BY <1>3, <2>1, <2>3
  <1>7. k = Len(tip) /\ \A i \in 1..k : Listed[i] = Contents(stored[i])
    BY <1>1, <1>2, <1>6
  <1>8. \A i \in 1..Len(tip) : Listed[i].draft = tip[i] /\ Written(i, Listed[i])
    BY <1>7, EntryFacts
  <1>9. Begins(TipOf(Listed)) /\ Len(TipOf(Listed)) = Len(tip)
    <2>1. CASE Len(tip) = 0
      BY <1>5, <1>7, <2>1, EmptySeq, TipFacts DEF TipOf
    <2>2. CASE Len(tip) # 0
      <3>1. Listed # <<>> /\ TipOf(Listed) = Hash(Contents(stored[Len(tip)]))
        BY <1>3, <1>5, <1>7, <2>2, EmptySeq DEF TipOf
      <3> QED BY <1>3, <2>2, <3>1, EntryFacts
    <2> QED BY <2>1, <2>2
  <1>10. t = tip
    BY <1>9, TipFacts
  <1> QED BY <1>3, <1>5, <1>7, <1>8, <1>9, <1>10 DEF Seen

-----------------------------------------------------------------------------
(* The steps of a good history.                                              *)

LEMMA TypeStep ==
    ASSUME TypeOK, NEW p \in Procs, NEW step, To(p, step), Commanded(step),
           now' \in Nat, spared' \in BOOLEAN,
           stored' \in [Positions -> SUBSET (Events \cup Partial)],
           tip' \in Seq(Drafts), acked' \in [Positions -> SUBSET Drafts]
    PROVE  TypeOK'
  <1>1. DOMAIN proc' = Procs /\ \A q \in Procs : proc'[q] = IF q = p THEN step ELSE proc[q]
    BY DEF TypeOK, To
  <1>2. \A q \in Procs : Commanded(proc'[q])
    BY <1>1 DEF TypeOK
  <1> QED BY <1>1, <1>2 DEF TypeOK

\* A step of one command that leaves the files alone.
LEMMA GoodStep ==
    ASSUME TypeOK, Good, NEW p \in Procs, NEW step, To(p, step),
           stored' = stored, tip' = tip, Backed(acked, tip)',
           ReaderGood(p)', WriterGood(p)', Writing(p)' => Writing(p),
           \A s \in staples' : s.paper.state # "REVOKED" => s \in staples \/ Seen(s.view)
    PROVE  Good'
  <1>1. \A q \in Procs : q # p => proc'[q] = proc[q]
    BY DEF To, TypeOK
  <1>2. DiskGood'
    BY DEF Good, DiskGood, Written, Begins
  <1>3. ASSUME NEW q \in Procs, q # p PROVE ReaderGood(q)' /\ WriterGood(q)' /\ (Writing(q)' <=> Writing(q))
    <2>1. proc'[q] = proc[q]
      BY <1>1, <1>3
    <2>2. ReaderGood(q) /\ WriterGood(q)
      BY DEF Good
    <2> QED BY <2>1, <2>2 DEF ReaderGood, WriterGood, Writing, Begins, Seen
  <1>4. \A q \in Procs : ReaderGood(q)' /\ WriterGood(q)'
    BY <1>3
  <1>5. \A q, r \in Procs : Writing(q)' /\ Writing(r)' => q = r
    BY <1>3 DEF Good
  <1>6. \A s \in staples' : s.paper.state # "REVOKED" => Seen(s.view)
    BY DEF Good
  <1>7. \A s \in staples' : s.paper.state # "REVOKED" => Seen(s.view)'
    BY <1>6 DEF Seen, Begins
  <1> QED BY <1>2, <1>4, <1>5, <1>7 DEF Good

\* One that only reads, or that gives up.
LEMMA IdleStep ==
    ASSUME TypeOK, Good, NEW p \in Procs, NEW step, To(p, step), Commanded(step),
           UNCHANGED <<now, stored, tip, acked, staples, spared>>,
           step.phase \notin {"created", "filled", "tipping"},
           ReaderGood(p)'
    PROVE  TypeOK' /\ Good'
  <1>1. TypeOK'
    BY TypeStep DEF TypeOK
  <1>2. proc'[p] = step
    BY DEF To, TypeOK
  <1>3. WriterGood(p)' /\ ~Writing(p)'
    BY <1>2 DEF WriterGood, Writing
  <1>4. Backed(acked, tip)'
    BY DEF Good, DiskGood, Backed
  <1> QED BY <1>1, <1>3, <1>4, GoodStep DEF Good

LEMMA DoneStep ==
    ASSUME TypeOK, Good, NEW p \in Procs, Done(p),
           UNCHANGED <<now, stored, tip, acked, staples, spared>>
    PROVE  TypeOK' /\ Good'
  <1>1. Commanded(Idle)
    BY DEF Commanded, Phases, Idle
  <1>2. proc'[p] = Idle
    BY DEF Done, To, TypeOK
  <1>3. ReaderGood(p)'
    BY <1>2 DEF ReaderGood, Idle
  <1> QED BY <1>1, <1>3, IdleStep DEF Done, Idle

\* A command that has just read the tip.
LEMMA BegunStep ==
    ASSUME TypeOK, Good, NEW p \in Procs, NEW step, To(p, step), Commanded(step),
           UNCHANGED <<now, stored, tip, acked, staples, spared>>,
           step.phase \in {"looking", "reading", "judging"},
           step.tip = tip, step.known = acked
    PROVE  TypeOK' /\ Good'
  <1>1. proc'[p] = step
    BY DEF To, TypeOK
  <1>2. Begins(step.tip)' /\ Backed(step.known, step.tip)
    BY TipFacts DEF Begins, Good, DiskGood
  <1>3. ReaderGood(p)'
    BY <1>1, <1>2 DEF ReaderGood, Backed
  <1> QED BY <1>3, IdleStep

LEMMA SameFiles ==
    ASSUME TypeOK, Good, UNCHANGED <<stored, tip, acked, proc, staples, spared>>, now' \in Nat
    PROVE  TypeOK' /\ Good'
  <1>1. TypeOK'
    BY DEF TypeOK
  <1>2. DiskGood' /\ \A s \in staples' : s.paper.state # "REVOKED" => Seen(s.view)'
    BY DEF Good, DiskGood, Written, Begins, Seen
  <1>3. ASSUME NEW p \in Procs PROVE ReaderGood(p)' /\ WriterGood(p)' /\ (Writing(p)' <=> Writing(p))
    <2>1. ReaderGood(p) /\ WriterGood(p)
      BY DEF Good
    <2> QED BY <2>1 DEF ReaderGood, WriterGood, Writing, Begins, Seen
  <1> QED BY <1>1, <1>2, <1>3 DEF Good

\* The verdict of a reading of the present files.
LEMMA VerdictFacts ==
    ASSUME TypeOK, Good, NEW p \in Procs,
           proc[p].phase \in {"looking", "reading", "rereading", "judging"},
           Unbroken, NEW pinned, NEW latest, Verifies(root, Listed, proc[p].tip, pinned, latest)
    PROVE  /\ proc[p].tip = tip /\ TipOf(Listed) = tip /\ Seen(Listed) /\ Len(Listed) = Len(tip)
           /\ \A i \in 1..Len(tip) : Listed[i].draft = tip[i] /\ Written(i, Listed[i])
  <1>1. Begins(proc[p].tip) /\ DiskGood
    BY DEF Good, ReaderGood
  <1>2. proc[p].tip = TipOf(Listed)
    BY DEF Verifies
  <1> QED BY <1>1, <1>2, ReadingFacts

LEMMA ReadsValidFacts ==
    ASSUME TypeOK, Good, NEW p \in Procs,
           proc[p].phase \in {"looking", "reading", "rereading", "judging"}, ReadsValid(p)
    PROVE  /\ proc[p].tip = tip /\ TipOf(Listed) = tip /\ Seen(Listed) /\ Len(Listed) = Len(tip)
           /\ \A i \in 1..Len(tip) : Listed[i].draft = tip[i] /\ Written(i, Listed[i])
  BY VerdictFacts DEF ReadsValid

\* The reading reported something as recorded that lies on the history.
LEMMA RecordStep ==
    ASSUME TypeOK, Good, NEW p \in Procs, NEW n \in 1..Len(tip), Record(n, tip[n]), Done(p),
           UNCHANGED <<now, stored, tip, staples, spared>>
    PROVE  TypeOK' /\ Good'
  <1>1. n \in Positions /\ tip[n] \in Drafts /\ tip \in Seq(Drafts)
    BY EntryFacts, TipFacts, ElementOfSeq DEF Good
  <1>2. acked' \in [Positions -> SUBSET Drafts] /\ Backed(acked, tip)'
    BY <1>1 DEF Record, Good, DiskGood, Backed, TypeOK
  <1>3. Commanded(Idle)
    BY DEF Commanded, Phases, Idle
  <1>4. proc'[p] = Idle
    BY DEF Done, To, TypeOK
  <1>5. ReaderGood(p)' /\ WriterGood(p)' /\ ~Writing(p)'
    BY <1>4 DEF ReaderGood, WriterGood, Writing, Idle
  <1>6. TypeOK'
    BY <1>2, <1>3, TypeStep DEF TypeOK, Done
  <1>7. Good'
    BY <1>2, <1>5, GoodStep DEF Done, Good
  <1> QED BY <1>6, <1>7

LEMMA DraftFacts ==
    /\ \A a \in Appends : a.draft \in Drafts /\ a.key \in Keys
    /\ \A g \in Imports : /\ g.key \in Keys
                         /\ \A outcome \in Classified(g.payload) :
                                Imported(g.delivery, g.payload, outcome, g.key) \in Drafts
  BY DEF Drafts, Keys

LEMMA BeginGood ==
    ASSUME TypeOK, Good, NEW p \in Procs, Begin(p), UNCHANGED spared
    PROVE  TypeOK' /\ Good'
  <1>1. CASE BeginInit(p)
    <2> DEFINE step == [phase |-> "laying"]
    <2>1. To(p, step) /\ UNCHANGED <<now, stored, tip, acked, staples, spared>>
      BY <1>1 DEF BeginInit
    <2>2. Commanded(step) /\ step.phase = "laying"
      BY DEF Commanded, Phases
    <2>3. proc'[p] = step
      BY <2>1 DEF To, TypeOK
    <2>4. ReaderGood(p)'
      BY <2>3 DEF ReaderGood
    <2> QED BY <2>1, <2>2, <2>4, IdleStep
  <1>2. ASSUME NEW a \in Appends, BeginAppend(p, a) PROVE TypeOK' /\ Good'
    <2> DEFINE step == [phase |-> "reading", draft |-> a.draft, key |-> a.key,
                        tip |-> tip, known |-> acked]
    <2>1. To(p, step) /\ UNCHANGED <<now, stored, tip, acked, staples, spared>>
      BY <1>2 DEF BeginAppend, disk
    <2>2. Commanded(step) /\ step.phase = "reading" /\ step.tip = tip /\ step.known = acked
      BY DraftFacts DEF Commanded, Phases
    <2> QED BY <2>1, <2>2, BegunStep
  <1>3. ASSUME NEW g \in Imports, BeginImport(p, g) PROVE TypeOK' /\ Good'
    <2>1. PICK outcome \in Classified(g.payload) :
            To(p, [phase |-> "looking", key |-> g.key, tip |-> tip, known |-> acked,
                   draft |-> Imported(g.delivery, g.payload, outcome, g.key)])
      BY <1>3 DEF BeginImport
    <2> DEFINE step == [phase |-> "looking", key |-> g.key, tip |-> tip, known |-> acked,
                        draft |-> Imported(g.delivery, g.payload, outcome, g.key)]
    <2>2. To(p, step) /\ UNCHANGED <<now, stored, tip, acked, staples, spared>>
      BY <1>3, <2>1 DEF BeginImport, disk
    <2>3. Imported(g.delivery, g.payload, outcome, g.key) \in Drafts /\ g.key \in Keys
      BY DraftFacts
    <2>4. Commanded(step) /\ step.phase = "looking" /\ step.tip = tip /\ step.known = acked
      BY <2>3 DEF Commanded, Phases
    <2> QED BY <2>2, <2>4, BegunStep
  <1>4. ASSUME NEW policy \in Policies, NEW environment \in Environments, NEW pinned \in Pins,
               NEW at \in Claims, NEW ttl \in Ttls, NEW key \in Authorities,
               BeginStaple(p, policy, environment, pinned, at, ttl, key)
        PROVE  TypeOK' /\ Good'
    <2> DEFINE step == [phase |-> "judging", policy |-> policy, environment |-> environment,
                        pinned |-> pinned, at |-> at, ttl |-> ttl, key |-> key, tip |-> tip,
                        known |-> acked]
    <2>1. To(p, step) /\ UNCHANGED <<now, stored, tip, acked, staples, spared>>
      BY <1>4 DEF BeginStaple, disk
    <2>2. Commanded(step) /\ step.phase = "judging" /\ step.tip = tip /\ step.known = acked
      BY DEF Commanded, Phases
    <2> QED BY <2>1, <2>2, BegunStep
  <1> QED BY <1>1, <1>2, <1>3, <1>4 DEF Begin

-----------------------------------------------------------------------------
(* Reading.                                                                  *)

LEMMA LookUpGood ==
    ASSUME TypeOK, Good, NEW p \in Procs, LookUp(p), UNCHANGED spared
    PROVE  TypeOK' /\ Good'
  <1>1. /\ proc[p].phase = "looking" /\ Commanded(proc[p]) /\ ReaderGood(p)
        /\ UNCHANGED <<now, stored, tip, staples, spared>>
    BY DEF LookUp, TypeOK, Good, disk
  <1>2. CASE Done(p) /\ UNCHANGED acked
    BY <1>1, <1>2, DoneStep
  <1>3. CASE To(p, [proc[p] EXCEPT !.phase = "absent"]) /\ UNCHANGED acked
    <2> DEFINE step == [proc[p] EXCEPT !.phase = "absent"]
    <2>1. /\ step.phase = "absent" /\ step.draft = proc[p].draft /\ step.key = proc[p].key
          /\ step.tip = proc[p].tip /\ step.known = proc[p].known
      BY DEF Commanded
    <2>2. proc'[p] = step /\ To(p, step)
      BY <1>3 DEF To, TypeOK
    <2>3. Commanded(step)
      BY <1>1, <2>1 DEF Commanded, Phases
    <2> HIDE DEF step
    <2>4. ReaderGood(p)'
      BY <1>1, <2>1, <2>2 DEF ReaderGood, Begins, Backed
    <2> QED BY <1>1, <1>3, <2>1, <2>2, <2>3, <2>4, IdleStep
  <1>4. ASSUME ReadsValid(p), NEW n \in Existing(proc[p].draft), Listed[n].draft = proc[p].draft,
               Record(n, proc[p].draft), Done(p)
        PROVE  TypeOK' /\ Good'
    <2>1. Len(Listed) = Len(tip) /\ \A i \in 1..Len(tip) : Listed[i].draft = tip[i]
      BY <1>1, <1>4, ReadsValidFacts
    <2>2. n \in 1..Len(tip)
      BY <2>1 DEF Existing
    <2>3. Record(n, tip[n])
      BY <1>4, <2>1, <2>2
    <2> QED BY <1>1, <1>4, <2>2, <2>3, RecordStep
  <1> QED BY <1>2, <1>3, <1>4 DEF LookUp

LEMMA AppendImportedGood ==
    ASSUME TypeOK, Good, NEW p \in Procs, AppendImported(p), UNCHANGED spared
    PROVE  TypeOK' /\ Good'
  <1>1. /\ proc[p].phase = "absent" /\ Commanded(proc[p])
        /\ UNCHANGED <<now, stored, tip, acked, staples, spared>>
    BY DEF AppendImported, TypeOK, disk
  <1>2. CASE Done(p)
    BY <1>1, <1>2, DoneStep
  <1>3. CASE To(p, [proc[p] EXCEPT !.phase = "reading", !.tip = tip, !.known = acked])
    <2> DEFINE step == [proc[p] EXCEPT !.phase = "reading", !.tip = tip, !.known = acked]
    <2>1. /\ step.phase = "reading" /\ step.draft = proc[p].draft /\ step.key = proc[p].key
          /\ step.tip = tip /\ step.known = acked
      OBVIOUS
    <2>2. Commanded(step)
      BY <1>1, <2>1 DEF Commanded, Phases
    <2> QED BY <1>1, <1>3, <2>1, <2>2, BegunStep
  <1> QED BY <1>2, <1>3 DEF AppendImported

LEMMA ReadToAppendGood ==
    ASSUME TypeOK, Good, NEW p \in Procs, ReadToAppend(p), UNCHANGED spared
    PROVE  TypeOK' /\ Good'
  <1>1. /\ proc[p].phase = "reading" /\ Commanded(proc[p]) /\ ReaderGood(p)
        /\ UNCHANGED <<now, stored, tip, acked, staples, spared>>
    BY DEF ReadToAppend, TypeOK, Good, disk
  <1>2. CASE Done(p)
    BY <1>1, <1>2, DoneStep
  <1>3. ASSUME ReadsValid(p), MayStore(proc[p].draft, proc[p].key, Listed, now + FutureSkew),
               To(p, [phase |-> "verified", view |-> Listed, known |-> proc[p].known,
                      event |-> StoredEvent(proc[p].draft, proc[p].key, Listed)])
        PROVE  TypeOK' /\ Good'
    <2>0. PICK view : view = Listed
      OBVIOUS
    <2> DEFINE e == StoredEvent(proc[p].draft, proc[p].key, view)
               step == [phase |-> "verified", view |-> view, known |-> proc[p].known, event |-> e]
    <2>1. /\ proc[p].tip = tip /\ TipOf(view) = tip /\ Seen(view) /\ Len(view) = Len(tip)
          /\ \A i \in 1..Len(tip) : view[i].draft = tip[i]
      BY <1>1, <1>3, <2>0, ReadsValidFacts
    <2>2. e \in Events /\ e.draft = proc[p].draft /\ e.before = tip
      BY <1>1, <2>1, TipFacts DEF StoredEvent, Commanded, Events
    <2>3. NewTo(proc[p].draft, tip)
      BY <1>3, <2>0, <2>1 DEF MayStore, NewTo
    <2>4. Holds(view, proc[p].known)
      BY <1>1, <2>1, TipFacts DEF ReaderGood, Backed, Holds, Positions
    <2>5. step.phase = "verified" /\ step.view = view /\ step.known = proc[p].known /\ step.event = e
      OBVIOUS
    <2>6. To(p, step) /\ Commanded(step)
      BY <1>3, <2>0, <2>5 DEF Commanded, Phases
    <2>7. proc'[p] = step
      BY <2>6 DEF To, TypeOK
    <2> HIDE DEF e, step
    <2>8. Seen(view)'
      BY <1>1, <2>1 DEF Seen, Begins
    <2>9. ReaderGood(p)'
      BY <2>1, <2>2, <2>3, <2>4, <2>5, <2>7, <2>8 DEF ReaderGood
    <2> QED BY <1>1, <2>5, <2>6, <2>9, IdleStep
  <1> QED BY <1>2, <1>3 DEF ReadToAppend

-----------------------------------------------------------------------------
(* Writing.                                                                  *)

\* The one writer's event belongs at the end of the history.
LEMMA WriterFacts ==
    ASSUME TypeOK, Good, NEW p \in Procs, Writing(p)
    PROVE  LET n == Len(tip) + 1
               e == proc[p].event
           IN  /\ e \in Events /\ e.before = tip /\ NewTo(e.draft, tip)
               /\ n \in Positions /\ Position(p) = n
               /\ stored[n] = (IF proc[p].phase = "created" THEN Partial ELSE {e})
               /\ stored[n] # Absent
               /\ \A q \in Procs : Writing(q) => q = p
  <1>1. WriterGood(p) /\ \A q \in Procs : Writing(q) => q = p
    BY DEF Good
  <1>2. Len(tip) + 1 \in Positions
    BY <1>1, TipFacts DEF WriterGood, Positions
  <1>3. stored[Len(tip) + 1] # Absent
    BY <1>1, TipFacts, HashFacts DEF WriterGood
  <1> QED BY <1>1, <1>2, <1>3 DEF WriterGood, Position

\* The event file after the tip is begun or completed.
LEMMA FileStep ==
    ASSUME TypeOK, Good, NEW p \in Procs, NEW step, To(p, step), NEW e \in Events,
           step.phase \in {"created", "filled"}, step.event = e,
           e.before = tip, NewTo(e.draft, tip), Len(tip) + 1 \in Positions,
           \A q \in Procs : Writing(q) => q = p,
           stored' = [stored EXCEPT ![Len(tip) + 1] = IF step.phase = "created" THEN Partial ELSE {e}],
           UNCHANGED <<now, tip, acked, staples, spared>>
    PROVE  TypeOK' /\ Good'
  <1> DEFINE n == Len(tip) + 1
             file == IF step.phase = "created" THEN Partial ELSE {e}
  <1>1. /\ n \in Positions /\ Len(tip) \in Nat /\ Len(tip) < MaxEvents
        /\ \A m \in Positions : stored'[m] = IF m = n THEN file ELSE stored[m]
    BY TipFacts DEF TypeOK, Positions
  <1>2. TypeOK'
    <2>1. Commanded(step)
      BY DEF Commanded, Phases
    <2>2. file \in SUBSET (Events \cup Partial)
      OBVIOUS
    <2>3. stored' \in [Positions -> SUBSET (Events \cup Partial)]
      BY <1>1, <2>2 DEF TypeOK
    <2> QED BY <2>1, <2>3, TypeStep DEF TypeOK
  <1>3. proc'[p] = step /\ \A q \in Procs : q # p => proc'[q] = proc[q]
    BY DEF To, TypeOK
  <1>4. DiskGood'
    <2>1. \A m \in 1..Len(tip) : stored'[m] = stored[m]
      BY <1>1, EntryFacts DEF Good
    <2>2. ASSUME NEW m \in 1..Len(tip)
          PROVE  \E f \in stored'[m] :
                   Written(m, f)' /\ f.draft = tip[m] /\ Begins(f.before)' /\ Len(f.before) = m - 1
      <3>1. PICK f \in stored[m] :
              Written(m, f) /\ f.draft = tip[m] /\ Begins(f.before) /\ Len(f.before) = m - 1
        BY DEF Good, DiskGood
      <3> QED BY <2>1, <3>1 DEF Written, Begins
    <2>3. stored'[n] = Partial \/ (\E f \in stored'[n] : Written(n, f)' /\ f.before = tip /\ NewTo(f.draft, tip))
      <3>1. CASE step.phase = "created"
        BY <1>1, <3>1
      <3>2. CASE step.phase # "created"
        <4>1. stored'[n] = {e} /\ e \in stored'[n] /\ Written(n, e)'
          BY <1>1, <3>2 DEF Written
        <4> QED BY <4>1
      <3> QED BY <3>1, <3>2
    <2>4. \A m \in Positions : m > n => stored'[m] = Absent
      BY <1>1 DEF Good, DiskGood, Positions
    <2>5. /\ Len(tip) <= MaxEvents
          /\ \A k, m \in 1..Len(tip) : k # m => ~UsedBefore(tip[k], tip[m]) /\ ~Replayed(tip[k], tip[m])
          /\ Backed(acked, tip)
      BY DEF Good, DiskGood
    <2>6. Backed(acked, tip)'
      BY <2>5 DEF Backed
    <2>7. \A m \in Positions : m = Len(tip) + 1 =>
            \/ stored'[m] = Absent \/ stored'[m] = Partial
            \/ \E f \in stored'[m] : Written(m, f)' /\ f.before = tip /\ NewTo(f.draft, tip)
      BY <2>3
    <2>8. tip' = tip
      OBVIOUS
    <2> HIDE DEF n, file
    <2>9. \A m \in Positions : m > Len(tip) + 1 => stored'[m] = Absent
      BY <2>4 DEF n
    <2> QED BY <2>2, <2>5, <2>6, <2>7, <2>8, <2>9 DEF DiskGood
  <1>5. ReaderGood(p)' /\ WriterGood(p)'
    BY <1>1, <1>3 DEF ReaderGood, WriterGood
  <1>6. ASSUME NEW q \in Procs, q # p PROVE ReaderGood(q)' /\ ~Writing(q)'
    <2>1. proc'[q] = proc[q] /\ ReaderGood(q) /\ ~Writing(q)
      BY <1>3, <1>6 DEF Good
    <2> QED BY <2>1 DEF ReaderGood, Writing, Begins, Seen
  <1>7. \A s \in staples' : s.paper.state # "REVOKED" => Seen(s.view)'
    BY DEF Good, Seen, Begins
  <1>8. \A q \in Procs : ReaderGood(q)' /\ WriterGood(q)'
    BY <1>5, <1>6 DEF WriterGood
  <1>9. \A q, r \in Procs : Writing(q)' /\ Writing(r)' => q = r
    BY <1>6
  <1> QED BY <1>2, <1>4, <1>7, <1>8, <1>9 DEF Good

LEMMA CreateEventGood ==
    ASSUME TypeOK, Good, NEW p \in Procs, CreateEvent(p), UNCHANGED spared
    PROVE  TypeOK' /\ Good'
  <1> DEFINE view == proc[p].view
             e == proc[p].event
             n == Len(view) + 1
  <1>1. /\ proc[p].phase = "verified" /\ n <= MaxEvents
        /\ UNCHANGED <<now, tip, acked, staples, spared>>
    BY DEF CreateEvent
  <1>2. CASE stored[n] # Absent
    <2>1. UNCHANGED stored /\ Done(p)
      BY <1>2 DEF CreateEvent
    <2> QED BY <1>1, <2>1, DoneStep
  <1>3. CASE stored[n] = Absent
    <2>1. stored' = [stored EXCEPT ![n] = Partial] /\ To(p, [phase |-> "created", event |-> e])
      BY <1>3 DEF CreateEvent
    <2>2. Seen(view) /\ e \in Events /\ e.before = TipOf(view) /\ NewTo(e.draft, TipOf(view))
      BY <1>1 DEF Good, ReaderGood
    <2> HIDE DEF view, e
    <2>3. Begins(TipOf(view)) /\ Len(TipOf(view)) = Len(view) /\ Len(view) <= Len(tip)
          /\ Len(view) \in Nat /\ Len(tip) \in Nat
      BY <2>2, TipFacts, LenProperties DEF Seen
    <2>4. ~(Len(view) < Len(tip))
      <3> SUFFICES ASSUME Len(view) < Len(tip) PROVE FALSE
        OBVIOUS
      <3>1. n \in 1..Len(tip)
        BY <2>3
      <3> QED BY <1>3, <3>1, EntryFacts DEF Good
    <2>5. n = Len(tip) + 1 /\ TipOf(view) = tip
      BY <2>3, <2>4, TipFacts
    <2>6. n \in Positions
      BY <1>1, <2>3, TipFacts DEF Positions
    <2>7. \A q \in Procs : ~Writing(q)
      BY <1>3, <2>5, WriterFacts
    <2> DEFINE step == [phase |-> "created", event |-> e]
    <2>8. step.phase = "created" /\ step.event = e /\ To(p, step)
      BY <2>1
    <2> HIDE DEF step
    <2> QED BY <1>1, <2>1, <2>2, <2>5, <2>6, <2>7, <2>8, FileStep
  <1> QED BY <1>2, <1>3

LEMMA FillEventGood ==
    ASSUME TypeOK, Good, NEW p \in Procs, FillEvent(p), UNCHANGED spared
    PROVE  TypeOK' /\ Good'
  <1> DEFINE e == proc[p].event
             step == [proc[p] EXCEPT !.phase = "filled"]
  <1>1. /\ Writing(p) /\ stored' = [stored EXCEPT ![Position(p)] = {e}] /\ To(p, step)
        /\ UNCHANGED <<now, tip, acked, staples, spared>>
    BY DEF FillEvent, Writing
  <1>2. step.phase = "filled" /\ step.event = e
    OBVIOUS
  <1>3. /\ e \in Events /\ e.before = tip /\ NewTo(e.draft, tip)
        /\ Len(tip) + 1 \in Positions /\ Position(p) = Len(tip) + 1
        /\ \A q \in Procs : Writing(q) => q = p
    BY <1>1, WriterFacts
  <1> HIDE DEF e, step
  <1> QED BY <1>1, <1>2, <1>3, FileStep

LEMMA OpenTipGood ==
    ASSUME TypeOK, Good, NEW p \in Procs, OpenTip(p), UNCHANGED spared
    PROVE  TypeOK' /\ Good'
  <1> DEFINE step == [proc[p] EXCEPT !.phase = "tipping"]
  <1>1. /\ proc[p].phase = "filled" /\ To(p, step)
        /\ UNCHANGED <<now, stored, tip, acked, staples, spared>>
    BY DEF OpenTip
  <1>2. step.phase = "tipping" /\ step.event = proc[p].event
    OBVIOUS
  <1> HIDE DEF step
  <1>3. Commanded(step)
    BY <1>2 DEF Commanded, Phases
  <1>4. proc'[p] = step
    BY <1>1 DEF To, TypeOK
  <1>5. ReaderGood(p)' /\ WriterGood(p)' /\ Writing(p)
    <2>1. WriterGood(p)
      BY DEF Good
    <2> QED BY <1>1, <1>2, <1>4, <2>1 DEF ReaderGood, WriterGood, Writing
  <1>6. TypeOK'
    BY <1>1, <1>3, TypeStep DEF TypeOK
  <1>7. Backed(acked, tip)'
    BY <1>1 DEF Good, DiskGood, Backed
  <1> QED BY <1>1, <1>5, <1>6, <1>7, GoodStep DEF Good

LEMMA SymmetricUse ==
    \A d, f : /\ UsedBefore(d, f) <=> UsedBefore(f, d)
              /\ Replayed(d, f) <=> Replayed(f, d)
  BY DEF UsedBefore, Replayed

LEMMA RenameTipGood ==
    ASSUME TypeOK, Good, NEW p \in Procs, RenameTip(p), UNCHANGED spared
    PROVE  TypeOK' /\ Good'
  <1>0. PICK e : e = proc[p].event
    OBVIOUS
  <1> DEFINE n == Len(tip) + 1
             step == [proc[p] EXCEPT !.phase = "renamed"]
  <1>1. /\ proc[p].phase = "tipping" /\ tip' = Hash(e) /\ To(p, step)
        /\ UNCHANGED <<now, stored, acked, staples, spared>>
    BY <1>0 DEF RenameTip
  <1>2. step.phase = "renamed" /\ step.event = e
    BY <1>0
  <1>3. /\ e \in Events /\ e.before = tip /\ NewTo(e.draft, tip)
        /\ n \in Positions /\ stored[n] = {e}
        /\ \A q \in Procs : Writing(q) => q = p
    BY <1>0, <1>1, WriterFacts DEF Writing
  <1> HIDE DEF step
  <1>4. /\ tip' \in Seq(Drafts) /\ Len(tip') = n /\ tip'[n] = e.draft
        /\ \A i \in 1..Len(tip) : tip'[i] = tip[i]
        /\ tip \in Seq(Drafts) /\ Len(tip) \in Nat /\ n <= MaxEvents /\ MaxEvents \in Nat
    BY <1>1, <1>3, HashFacts, TipFacts DEF Positions
  <1>5. \A t : Begins(t) => Begins(t)'
    <2>1. ASSUME NEW t, Begins(t) PROVE Begins(t)'
      <3>1. t \in Seq(Drafts) /\ Len(t) \in Nat /\ Len(t) <= Len(tip) /\ \A i \in 1..Len(t) : t[i] = tip[i]
        BY <2>1, LenProperties DEF Begins
      <3>2. \A i \in 1..Len(t) : t[i] = tip'[i]
        BY <1>4, <3>1
      <3>3. Len(t) <= Len(tip')
        BY <1>4, <3>1
      <3> QED BY <3>1, <3>2, <3>3 DEF Begins
    <2> QED BY <2>1
  <1>6. \A t : t = tip => Begins(t)'
    BY <1>4 DEF Begins
  <1>7. \A v : Seen(v) => Seen(v)'
    <2>1. ASSUME NEW v, Seen(v) PROVE Seen(v)'
      <3>1. /\ v \in Seq(Events) /\ Len(v) \in Nat /\ Len(v) <= Len(tip)
            /\ \A i \in 1..Len(v) : v[i].draft = tip[i]
            /\ Begins(TipOf(v)) /\ Len(TipOf(v)) = Len(v)
        BY <2>1, LenProperties DEF Seen
      <3>2. Begins(TipOf(v))'
        BY <1>5, <3>1
      <3>3. ASSUME NEW i \in 1..Len(v) PROVE v[i].draft = tip'[i]
        <4>1. i \in 1..Len(tip)
          BY <1>4, <3>1
        <4> QED BY <1>4, <3>1, <4>1
      <3>4. Len(v) <= Len(tip')
        BY <1>4, <3>1
      <3> QED BY <3>1, <3>2, <3>3, <3>4 DEF Seen
    <2> QED BY <2>1
  <1>8. DiskGood'
    <2>1. ASSUME NEW m \in 1..Len(tip')
          PROVE  \E f \in stored[m] :
                   Written(m, f) /\ f.draft = tip'[m] /\ Begins(f.before)' /\ Len(f.before) = m - 1
      <3>1. CASE m = n
        <4>1. Written(n, e) /\ e \in stored[n]
          BY <1>3 DEF Written
        <4>2. Begins(e.before)' /\ Len(e.before) = n - 1
          BY <1>3, <1>4, <1>6
        <4> QED BY <1>4, <3>1, <4>1, <4>2
      <3>2. CASE m # n
        <4>1. m \in 1..Len(tip)
          BY <1>4, <3>2
        <4>2. PICK f \in stored[m] :
                Written(m, f) /\ f.draft = tip[m] /\ Begins(f.before) /\ Len(f.before) = m - 1
          BY <4>1 DEF Good, DiskGood
        <4> QED BY <1>4, <1>5, <4>1, <4>2
      <3> QED BY <3>1, <3>2
    <2>2. \A m \in Positions : m > n => stored[m] = Absent
      BY DEF Good, DiskGood
    <2>3. \A m \in Positions : m = Len(tip') + 1 => stored[m] = Absent
      BY <1>4, <2>2
    <2>4. \A m \in Positions : m > Len(tip') + 1 => stored[m] = Absent
      BY <1>4, <2>2 DEF Positions
    <2>5. \A k, m \in 1..Len(tip') : k # m => ~UsedBefore(tip'[k], tip'[m]) /\ ~Replayed(tip'[k], tip'[m])
      <3>1. \A k, m \in 1..Len(tip) : k # m => ~UsedBefore(tip[k], tip[m]) /\ ~Replayed(tip[k], tip[m])
        BY DEF Good, DiskGood
      <3>2. \A k \in 1..Len(tip) : /\ ~UsedBefore(e.draft, tip[k]) /\ ~Replayed(e.draft, tip[k])
                                  /\ ~UsedBefore(tip[k], e.draft) /\ ~Replayed(tip[k], e.draft)
        BY <1>3, SymmetricUse DEF NewTo
      <3>3. \A k \in 1..Len(tip') : k = n \/ k \in 1..Len(tip)
        BY <1>4
      <3>4. ASSUME NEW k \in 1..Len(tip'), NEW m \in 1..Len(tip'), k # m
            PROVE  ~UsedBefore(tip'[k], tip'[m]) /\ ~Replayed(tip'[k], tip'[m])
        <4>1. CASE k = n
          BY <1>4, <3>2, <3>3, <3>4, <4>1
        <4>2. CASE m = n
          BY <1>4, <3>2, <3>3, <3>4, <4>2
        <4>3. CASE k # n /\ m # n
          BY <1>4, <3>1, <3>3, <3>4, <4>3
        <4> QED BY <4>1, <4>2, <4>3
      <3> QED BY <3>4
    <2>6. Backed(acked, tip)'
      <3>1. Backed(acked, tip)
        BY DEF Good, DiskGood
      <3> QED BY <1>1, <1>4, <3>1 DEF Backed, Positions
    <2> HIDE DEF n
    <2>7. stored' = stored /\ Len(tip') <= MaxEvents
      BY <1>1, <1>4 DEF n
    <2>8. \A m \in 1..Len(tip') : \E f \in stored'[m] :
             Written(m, f)' /\ f.draft = tip'[m] /\ Begins(f.before)' /\ Len(f.before) = m - 1
      BY <2>1, <2>7 DEF Written
    <2> QED BY <2>3, <2>4, <2>5, <2>6, <2>7, <2>8 DEF DiskGood
  <1>9. proc'[p] = step /\ \A q \in Procs : q # p => proc'[q] = proc[q]
    BY <1>1 DEF To, TypeOK
  <1>10. ReaderGood(p)' /\ WriterGood(p)'
    BY <1>2, <1>3, <1>4, <1>9 DEF ReaderGood, WriterGood, Writing
  <1>11. ASSUME NEW q \in Procs, q # p PROVE ReaderGood(q)' /\ ~Writing(q)'
    <2>1. proc'[q] = proc[q] /\ ReaderGood(q) /\ ~Writing(q)
      BY <1>3, <1>9, <1>11 DEF Good
    <2>2. proc[q].phase \in {"renamed", "rereading"} =>
            LET f == proc[q].event
            IN  f \in Events /\ Len(f.before) < Len(tip') /\ tip'[Len(f.before) + 1] = f.draft
      <3> SUFFICES ASSUME proc[q].phase \in {"renamed", "rereading"}
                   PROVE  LET f == proc[q].event
                          IN  f \in Events /\ Len(f.before) < Len(tip') /\ tip'[Len(f.before) + 1] = f.draft
        OBVIOUS
      <3> DEFINE f == proc[q].event
      <3>1. f \in Events /\ Len(f.before) < Len(tip) /\ tip[Len(f.before) + 1] = f.draft
        BY <2>1 DEF ReaderGood
      <3>2. Len(f.before) \in Nat
        BY <3>1, HashFacts
      <3> HIDE DEF f
      <3>3. f \in Events /\ Len(f.before) < Len(tip') /\ tip'[Len(f.before) + 1] = f.draft
        BY <1>4, <3>1, <3>2
      <3> QED BY <3>3 DEF f
    <2> QED BY <1>5, <1>7, <2>1, <2>2 DEF ReaderGood, Writing, Backed, Holds
  <1>12. \A s \in staples' : s.paper.state # "REVOKED" => Seen(s.view)'
    BY <1>1, <1>7 DEF Good
  <1>13. \A q \in Procs : ReaderGood(q)' /\ WriterGood(q)'
    BY <1>10, <1>11 DEF WriterGood
  <1>14. \A q, r \in Procs : Writing(q)' /\ Writing(r)' => q = r
    BY <1>11
  <1>15. TypeOK'
    <2>1. Commanded(step)
      BY <1>2 DEF Commanded, Phases
    <2> QED BY <1>1, <1>4, <2>1, TypeStep DEF TypeOK
  <1> QED BY <1>8, <1>12, <1>13, <1>14, <1>15 DEF Good

LEMMA ReadAgainGood ==
    ASSUME TypeOK, Good, NEW p \in Procs, ReadAgain(p), UNCHANGED spared
    PROVE  TypeOK' /\ Good'
  <1>1. /\ proc[p].phase = "renamed" /\ ReaderGood(p)
        /\ UNCHANGED <<now, stored, tip, acked, staples, spared>>
    BY DEF ReadAgain, Good, disk
  <1>2. CASE Done(p)
    BY <1>1, <1>2, DoneStep
  <1>3. CASE To(p, [phase |-> "rereading", event |-> proc[p].event, tip |-> tip])
    <2> DEFINE step == [phase |-> "rereading", event |-> proc[p].event, tip |-> tip]
    <2>1. step.phase = "rereading" /\ step.event = proc[p].event /\ step.tip = tip
      OBVIOUS
    <2>2. To(p, step) /\ Commanded(step)
      BY <1>3 DEF Commanded, Phases
    <2> HIDE DEF step
    <2>3. proc'[p] = step
      BY <2>2 DEF To, TypeOK
    <2>4. Begins(tip)'
      BY <1>1, TipFacts DEF Begins
    <2>5. ReaderGood(p)'
      BY <1>1, <2>1, <2>3, <2>4 DEF ReaderGood
    <2> QED BY <1>1, <2>1, <2>2, <2>5, IdleStep
  <1> QED BY <1>2, <1>3 DEF ReadAgain

LEMMA ReportGood ==
    ASSUME TypeOK, Good, NEW p \in Procs, Report(p), UNCHANGED spared
    PROVE  TypeOK' /\ Good'
  <1>1. /\ proc[p].phase = "rereading" /\ ReaderGood(p) /\ Done(p)
        /\ UNCHANGED <<now, stored, tip, staples, spared>>
    BY DEF Report, Good, disk
  <1>2. CASE UNCHANGED acked
    BY <1>1, <1>2, DoneStep
  <1>3. CASE Record(Position(p), proc[p].event.draft)
    <2> DEFINE e == proc[p].event
    <2>1. e \in Events /\ Len(e.before) < Len(tip) /\ tip[Len(e.before) + 1] = e.draft
      BY <1>1 DEF ReaderGood
    <2>2. Len(e.before) \in Nat
      BY <2>1, HashFacts
    <2>3. Position(p) \in 1..Len(tip) /\ tip[Position(p)] = e.draft
      BY <2>1, <2>2, TipFacts DEF Position
    <2> QED BY <1>1, <1>3, <2>3, RecordStep
  <1> QED BY <1>1, <1>2, <1>3 DEF Report

\* The staple of a decision that is not REVOKED shows a beginning of the history.
LEMMA JudgeGood ==
    ASSUME TypeOK, Good, NEW p \in Procs, Judge(p), UNCHANGED spared
    PROVE  TypeOK' /\ Good'
  <1>1. /\ proc[p].phase = "judging" /\ Done(p)
        /\ UNCHANGED <<now, stored, tip, acked, spared>>
    BY DEF Judge, disk
  <1>2. PICK view, valid, state :
          /\ view = Listed
          /\ valid = Verifies(root, Listed, proc[p].tip, proc[p].pinned,
                              proc[p].at + proc[p].policy.skew)
          /\ state = Decision(valid, root, view, proc[p].policy, proc[p].environment, proc[p].at)
    OBVIOUS
  <1>3. \A s \in staples' : s \in staples \/ (Unbroken /\ s.view = view /\ s.paper.state = state)
    BY <1>2 DEF Judge, Staple
  <1>4. state # "REVOKED" => valid
    BY <1>2 DEF Decision
  <1>5. \A s \in staples' : s.paper.state # "REVOKED" => s \in staples \/ Seen(s.view)
    BY <1>1, <1>2, <1>3, <1>4, VerdictFacts
  <1>6. TypeOK'
    <2>1. Commanded(Idle)
      BY DEF Commanded, Phases, Idle
    <2> QED BY <1>1, <2>1, TypeStep DEF TypeOK, Done
  <1>7. proc'[p] = Idle
    BY <1>1 DEF Done, To, TypeOK
  <1>8. ReaderGood(p)' /\ WriterGood(p)' /\ ~Writing(p)'
    BY <1>7 DEF ReaderGood, WriterGood, Writing, Idle
  <1>9. Backed(acked, tip)'
    BY <1>1 DEF Good, DiskGood, Backed
  <1> QED BY <1>1, <1>5, <1>6, <1>8, <1>9, GoodStep DEF Done

LEMMA ContinueGood ==
    ASSUME TypeOK, Good, NEW p \in Procs, Continue(p), UNCHANGED spared
    PROVE  TypeOK' /\ Good'
  <1>1. CASE LayNext(p)
    <2>1. UNCHANGED <<now, stored, tip, acked, staples, spared>> /\ now \in Nat
      BY <1>1 DEF LayNext, TypeOK
    <2>2. CASE Done(p)
      BY <2>1, <2>2, DoneStep
    <2>3. CASE UNCHANGED proc
      BY <2>1, <2>3, SameFiles
    <2> QED BY <1>1, <2>2, <2>3 DEF LayNext
  <1>2. CASE WriteFails(p) \/ Crash(p)
    <2>1. Done(p) /\ UNCHANGED <<now, stored, tip, acked, staples, spared>>
      BY <1>2 DEF WriteFails, Crash, disk
    <2> QED BY <2>1, DoneStep
  <1> QED BY <1>1, <1>2, LookUpGood, AppendImportedGood, ReadToAppendGood, CreateEventGood,
             FillEventGood, OpenTipGood, RenameTipGood, ReadAgainGood, ReportGood, JudgeGood
          DEF Continue

LEMMA NextGood ==
    ASSUME TypeOK, Good, Next, UNCHANGED spared
    PROVE  TypeOK' /\ Good'
  <1>1. ASSUME NEW p \in Procs, Begin(p) \/ Continue(p) PROVE TypeOK' /\ Good'
    BY <1>1, BeginGood, ContinueGood
  <1>2. CASE Deploys \/ RewritePlan \/ Tick
    <2>1. UNCHANGED <<stored, tip, acked, proc, staples, spared>> /\ now' \in Nat
      BY <1>2 DEF Deploys, BeginGate, ShowPlan, EndGate, RewritePlan, Tick, disk, TypeOK
    <2> QED BY <2>1, SameFiles
  <1> QED BY <1>1, <1>2 DEF Next

-----------------------------------------------------------------------------
(* A broken history.                                                         *)

LEMMA NeverVerifies ==
    ASSUME Blocked, Unbroken, NEW t, t = tip, NEW pinned, NEW latest
    PROVE  ~Verifies(root, Listed, t, pinned, latest)
  BY DEF Blocked, Chained, Verifies, EventVerifies, Unbroken, Names, Listed

LEMMA BlockedStep ==
    ASSUME TypeOK, Blocked, NEW p \in Procs, NEW step, To(p, step), Commanded(step),
           step.phase = "idle" \/ (step.phase \in {"looking", "reading", "judging"} /\ step.tip = tip),
           UNCHANGED <<now, laid, stored, tip, acked, spared>>
    PROVE  TypeOK' /\ Blocked'
  <1>1. TypeOK'
    BY TypeStep DEF TypeOK
  <1>2. \A q \in Procs : proc'[q] = IF q = p THEN step ELSE proc[q]
    BY DEF To, TypeOK
  <1>3. ~Chained(stored, tip)'
    BY DEF Blocked
  <1> QED BY <1>1, <1>2, <1>3 DEF Blocked

LEMMA BlockedDone ==
    ASSUME TypeOK, Blocked, NEW p \in Procs, Done(p), UNCHANGED <<now, laid, stored, tip, acked, spared>>
    PROVE  TypeOK' /\ Blocked'
  <1>1. Commanded(Idle) /\ Idle.phase = "idle"
    BY DEF Commanded, Phases, Idle
  <1> QED BY <1>1, BlockedStep DEF Done

LEMMA BlockedBegin ==
    ASSUME TypeOK, Blocked, NEW p \in Procs, Begin(p), UNCHANGED spared
    PROVE  TypeOK' /\ Blocked' /\ UNCHANGED <<stored, tip, acked, staples>>
  <1>1. ~BeginInit(p)
    BY DEF BeginInit, Blocked
  <1>2. ASSUME NEW step, To(p, step), step.phase \in {"looking", "reading", "judging"},
               step.tip = tip, Commanded(step), UNCHANGED <<now, root, disk, acked, staples, job>>
        PROVE  TypeOK' /\ Blocked' /\ UNCHANGED <<stored, tip, acked, staples>>
    <2>1. UNCHANGED <<now, laid, stored, tip, acked, spared, staples>>
      BY <1>2 DEF disk
    <2> QED BY <1>2, <2>1, BlockedStep
  <1>3. ASSUME NEW a \in Appends, BeginAppend(p, a)
        PROVE  TypeOK' /\ Blocked' /\ UNCHANGED <<stored, tip, acked, staples>>
    <2> DEFINE step == [phase |-> "reading", draft |-> a.draft, key |-> a.key,
                        tip |-> tip, known |-> acked]
    <2>1. To(p, step) /\ UNCHANGED <<now, root, disk, acked, staples, job>>
      BY <1>3 DEF BeginAppend
    <2>2. Commanded(step) /\ step.phase = "reading" /\ step.tip = tip
      BY DraftFacts DEF Commanded, Phases
    <2> HIDE DEF step
    <2> QED BY <1>2, <2>1, <2>2
  <1>4. ASSUME NEW g \in Imports, BeginImport(p, g)
        PROVE  TypeOK' /\ Blocked' /\ UNCHANGED <<stored, tip, acked, staples>>
    <2>1. PICK outcome \in Classified(g.payload) :
            To(p, [phase |-> "looking", key |-> g.key, tip |-> tip, known |-> acked,
                   draft |-> Imported(g.delivery, g.payload, outcome, g.key)])
      BY <1>4 DEF BeginImport
    <2> DEFINE step == [phase |-> "looking", key |-> g.key, tip |-> tip, known |-> acked,
                        draft |-> Imported(g.delivery, g.payload, outcome, g.key)]
    <2>2. To(p, step) /\ UNCHANGED <<now, root, disk, acked, staples, job>>
      BY <1>4, <2>1 DEF BeginImport
    <2>3. Imported(g.delivery, g.payload, outcome, g.key) \in Drafts /\ g.key \in Keys
      BY DraftFacts
    <2>4. Commanded(step) /\ step.phase = "looking" /\ step.tip = tip
      BY <2>3 DEF Commanded, Phases
    <2> HIDE DEF step
    <2> QED BY <1>2, <2>2, <2>4
  <1>5. ASSUME NEW policy \in Policies, NEW environment \in Environments, NEW pinned \in Pins,
               NEW at \in Claims, NEW ttl \in Ttls, NEW key \in Authorities,
               BeginStaple(p, policy, environment, pinned, at, ttl, key)
        PROVE  TypeOK' /\ Blocked' /\ UNCHANGED <<stored, tip, acked, staples>>
    <2> DEFINE step == [phase |-> "judging", policy |-> policy, environment |-> environment,
                        pinned |-> pinned, at |-> at, ttl |-> ttl, key |-> key, tip |-> tip,
                        known |-> acked]
    <2>1. To(p, step) /\ UNCHANGED <<now, root, disk, acked, staples, job>>
      BY <1>5 DEF BeginStaple
    <2>2. Commanded(step) /\ step.phase = "judging" /\ step.tip = tip
      BY DEF Commanded, Phases
    <2> HIDE DEF step
    <2> QED BY <1>2, <2>1, <2>2
  <1> QED BY <1>1, <1>3, <1>4, <1>5 DEF Begin

\* Every reading of it fails, and every decision about it revokes.
LEMMA BlockedContinue ==
    ASSUME TypeOK, Blocked, NEW p \in Procs, Continue(p), UNCHANGED spared
    PROVE  /\ TypeOK' /\ Blocked' /\ UNCHANGED <<stored, tip, acked>>
           /\ \A s \in staples' : s.paper.state # "REVOKED" => s \in staples
  <1>1. \/ proc[p].phase = "idle"
        \/ proc[p].phase \in {"looking", "reading", "judging"} /\ proc[p].tip = tip
    BY DEF Blocked
  <1>2. proc[p].phase \in {"looking", "reading"} => ~ReadsValid(p)
    <2>1. ASSUME proc[p].phase \in {"looking", "reading"}, Unbroken
          PROVE  ~Verifies(root, Listed, proc[p].tip, {}, now + FutureSkew)
      BY <1>1, <2>1, NeverVerifies
    <2> QED BY <2>1 DEF ReadsValid
  <1>3. CASE proc[p].phase = "looking"
    <2>1. Done(p) /\ UNCHANGED <<now, laid, stored, tip, acked, staples, spared>>
      BY <1>2, <1>3 DEF Continue, LayNext, LookUp, AppendImported, ReadToAppend, CreateEvent, FillEvent,
           OpenTip, RenameTip, ReadAgain, Report, Judge, WriteFails, Crash, disk
    <2> QED BY <2>1, BlockedDone
  <1>4. CASE proc[p].phase = "reading"
    <2>1. Done(p) /\ UNCHANGED <<now, laid, stored, tip, acked, staples, spared>>
      BY <1>2, <1>4 DEF Continue, LayNext, LookUp, AppendImported, ReadToAppend, CreateEvent, FillEvent,
           OpenTip, RenameTip, ReadAgain, Report, Judge, WriteFails, Crash, disk
    <2> QED BY <2>1, BlockedDone
  <1>5. CASE proc[p].phase = "judging"
    <2>1. Judge(p)
      BY <1>5 DEF Continue, LayNext, LookUp, AppendImported, ReadToAppend, CreateEvent, FillEvent,
           OpenTip, RenameTip, ReadAgain, Report, WriteFails, Crash
    <2>2. Done(p) /\ UNCHANGED <<now, laid, stored, tip, acked, spared>>
      BY <2>1 DEF Judge, disk
    <2>3. PICK view, valid, state :
            /\ view = Listed
            /\ valid = Verifies(root, Listed, proc[p].tip, proc[p].pinned,
                                proc[p].at + proc[p].policy.skew)
            /\ state = Decision(valid, root, view, proc[p].policy, proc[p].environment, proc[p].at)
      OBVIOUS
    <2>4. \A s \in staples' : s \in staples \/ (Unbroken /\ s.paper.state = state)
      BY <2>1, <2>3 DEF Judge, Staple
    <2>5. Unbroken => ~valid
      BY <1>1, <1>5, <2>3, NeverVerifies
    <2>6. state # "REVOKED" => valid
      BY <2>3 DEF Decision
    <2> QED BY <2>2, <2>4, <2>5, <2>6, BlockedDone
  <1>6. proc[p].phase # "idle"
    BY DEF Continue, LayNext, LookUp, AppendImported, ReadToAppend, CreateEvent, FillEvent,
           OpenTip, RenameTip, ReadAgain, Report, Judge, WriteFails, Crash
  <1> QED BY <1>1, <1>3, <1>4, <1>5, <1>6

LEMMA NextBlocked ==
    ASSUME TypeOK, Blocked, Next, UNCHANGED spared
    PROVE  /\ TypeOK' /\ Blocked' /\ UNCHANGED <<stored, tip, acked>>
           /\ \A s \in staples' : s.paper.state # "REVOKED" => s \in staples
  <1>1. ASSUME NEW p \in Procs, Begin(p)
        PROVE  /\ TypeOK' /\ Blocked' /\ UNCHANGED <<stored, tip, acked>>
               /\ \A s \in staples' : s.paper.state # "REVOKED" => s \in staples
    BY <1>1, BlockedBegin
  <1>2. CASE Deploys \/ RewritePlan \/ Tick
    <2>1. UNCHANGED <<laid, stored, tip, acked, proc, staples, spared>> /\ now' \in Nat
      BY <1>2 DEF Deploys, BeginGate, ShowPlan, EndGate, RewritePlan, Tick, disk, TypeOK
    <2>2. TypeOK'
      BY <2>1 DEF TypeOK
    <2>3. Blocked'
      BY <2>1 DEF Blocked
    <2> QED BY <2>1, <2>2, <2>3
  <1> QED BY <1>1, <1>2, BlockedContinue DEF Next

-----------------------------------------------------------------------------
(* The accident.                                                             *)

\* Every whole file of a good history has its own place in it.
LEMMA PlacedFacts ==
    ASSUME TypeOK, DiskGood, NEW n \in 1..Extent, stored[n] # Partial
    PROVE  LET e == Contents(stored[n])
           IN  /\ e \in Events /\ stored[n] = {e}
               /\ Len(e.before) = n - 1 /\ Len(Hash(e)) = n
  <1>1. Len(tip) \in Nat /\ (n <= Len(tip) \/ (n = Len(tip) + 1 /\ Len(tip) + 1 \in Names))
    BY TipFacts, NamesFacts
  <1>2. CASE n <= Len(tip)
    BY <1>1, <1>2, EntryFacts DEF Written
  <1>3. CASE n = Len(tip) + 1 /\ Len(tip) + 1 \in Names
    BY <1>1, <1>3, LeftoverFacts DEF Written
  <1> QED BY <1>1, <1>2, <1>3

\* A file that disappears from under the tip breaks the history.
LEMMA GapBreaks ==
    ASSUME TypeOK, DiskGood, NEW j \in 1..Len(tip), NEW files,
           files = [stored EXCEPT ![j] = Absent]
    PROVE  ~Chained(files, tip)
  <1> SUFFICES ASSUME Chained(files, tip) PROVE FALSE
    OBVIOUS
  <1> DEFINE k == Extent
             view == Listing(files)
  <1>1. /\ Names = 1..k /\ k \in Nat /\ Len(tip) \in Nat /\ Len(tip) <= k
        /\ k = Len(tip) \/ k = Len(tip) + 1
    BY NamesFacts, TipFacts
  <1> HIDE DEF k
  <1>2. j \in Positions /\ \A n \in Positions : files[n] = IF n = j THEN Absent ELSE stored[n]
    BY EntryFacts DEF TypeOK
  <1>3. NamesIn(files) = (1..k) \ {j}
    BY <1>1, <1>2 DEF NamesIn, Names
  <1>4. j \in 1..k
    BY <1>1
  <1>5. \A n \in (1..k) \ {j} : files[n] = stored[n] /\ stored[n] # Partial
    BY <1>2, <1>3 DEF Chained, NamesIn
  <1>6. ASSUME NEW n \in (1..k) \ {j}
        PROVE  /\ Contents(files[n]) \in Events
               /\ Len(Contents(files[n]).before) = n - 1 /\ Len(Hash(Contents(files[n]))) = n
    BY <1>5, PlacedFacts DEF k
  <1>7. /\ view = [i \in 1..(k - 1) |-> Contents(files[IF i < j THEN i ELSE i + 1])]
        /\ k - 1 \in Nat
    <2>1. k - 1 \in Nat
      BY <1>1, <1>4
    <2>2. k \in Nat /\ j \in 1..k /\ NamesIn(files) = (1..k) \ {j}
      BY <1>1, <1>3, <1>4
    <2> HIDE DEF view
    <2>3. Listing(files) = [i \in 1..(k - 1) |-> Contents(files[IF i < j THEN i ELSE i + 1])]
      BY ONLY <2>2, ListedGap
    <2> QED BY <2>1, <2>3 DEF view
  <1> HIDE DEF view
  <1>8. PICK next : next = [i \in 1..(k - 1) |-> IF i < j THEN i ELSE i + 1]
    OBVIOUS
  <1>9. \A i \in 1..(k - 1) :
            /\ next[i] \in (1..k) \ {j}
            /\ i < j => next[i] = i
            /\ i >= j => next[i] = i + 1
    BY <1>1, <1>4, <1>8
  <1>10. view = [i \in 1..(k - 1) |-> Contents(files[next[i]])]
    BY <1>7, <1>8
  <1>11. /\ Len(view) = k - 1
         /\ k = 1 => view = <<>>
         /\ k # 1 => view # <<>>
         /\ \A i \in 1..(k - 1) : view[i] = Contents(files[next[i]])
    <2>1. view \in [1..(k - 1) -> Events]
      BY <1>6, <1>9, <1>10
    <2>2. view \in Seq(Events)
      BY <1>7, <2>1, SeqDef
    <2>3. Len(view) = k - 1
      BY <1>7, <2>1, <2>2, LenProperties
    <2>4. view = <<>> <=> Len(view) = 0
      BY <2>2, EmptySeq
    <2> QED BY <1>1, <1>10, <2>3, <2>4
  <1>12. /\ \A i \in 1..Len(view) : view[i].before = (IF i = 1 THEN <<>> ELSE Hash(view[i - 1]))
         /\ tip = TipOf(view)
    BY DEF Chained, view
  <1>13. \A i \in 1..(k - 1) : /\ Len(view[i].before) = next[i] - 1
                               /\ Len(Hash(view[i])) = next[i]
    BY <1>6, <1>9, <1>11
  <1>14. Len(<<>>) = 0
    OBVIOUS
  <1>15. CASE j < k
    <2>1. j \in 1..(k - 1) /\ next[j] = j + 1 /\ j \in Int
      BY <1>1, <1>4, <1>9, <1>15
    <2>2. Len(view[j].before) = j
      BY <1>13, <2>1
    <2>3. view[j].before = (IF j = 1 THEN <<>> ELSE Hash(view[j - 1]))
      BY <1>11, <1>12, <2>1
    <2>4. CASE j = 1
      BY <1>14, <2>2, <2>3, <2>4
    <2>5. CASE j # 1
      <3>1. j - 1 \in 1..(k - 1) /\ j - 1 < j
        BY <1>1, <2>1, <2>5
      <3>2. Len(Hash(view[j - 1])) = j - 1
        BY <1>9, <1>13, <3>1
      <3> QED BY <2>1, <2>2, <2>3, <2>5, <3>2
    <2> QED BY <2>4, <2>5
  <1>16. CASE j = k
    <2>1. k = Len(tip) /\ k >= 1
      BY <1>1, <1>4, <1>16
    <2>2. CASE k = 1
      <3>1. view = <<>>
        BY <1>11, <2>2
      <3>2. tip = <<>>
        BY <1>12, <3>1 DEF TipOf
      <3> QED BY <1>14, <2>1, <3>2
    <2>3. CASE k # 1
      <3>1. k - 1 \in 1..(k - 1) /\ k - 1 < j
        BY <1>1, <1>16, <2>1, <2>3
      <3>2. Len(Hash(view[k - 1])) = k - 1
        BY <1>9, <1>13, <3>1
      <3>3. tip = Hash(view[k - 1])
        BY <1>11, <1>12, <2>3 DEF TipOf
      <3> QED BY <1>1, <2>1, <3>2, <3>3
    <2> QED BY <2>2, <2>3
  <1> QED BY <1>1, <1>4, <1>15, <1>16

\* So does a copy of one entry in the place of another.
LEMMA CopyBreaks ==
    ASSUME TypeOK, DiskGood, NEW n \in Names, NEW m \in Names, n # m, NEW files,
           files = [stored EXCEPT ![n] = stored[m]]
    PROVE  ~Chained(files, tip)
  <1> SUFFICES ASSUME Chained(files, tip) PROVE FALSE
    OBVIOUS
  <1> DEFINE k == Extent
             view == Listing(files)
  <1>1. Names = 1..k /\ k \in Nat
    BY NamesFacts
  <1> HIDE DEF k
  <1>2. \A i \in Positions : files[i] = IF i = n THEN stored[m] ELSE stored[i]
    BY DEF TypeOK, Names, NamesIn
  <1>3. NamesIn(files) = 1..k
    <2>1. \A i : i \in NamesIn(files) <=> i \in Names
      BY <1>2 DEF NamesIn, Names
    <2> QED BY <1>1, <2>1
  <1>4. \A i \in 1..k : files[i] # Partial /\ i \in Positions
    BY <1>1, <1>3 DEF Chained, NamesIn, Names
  <1>5. stored[m] # Partial /\ \A i \in 1..k : i # n => files[i] = stored[i] /\ stored[i] # Partial
    BY <1>1, <1>2, <1>4
  <1>6. \A i \in 1..k : stored[i] # Partial =>
            /\ Contents(stored[i]) \in Events
            /\ Len(Contents(stored[i]).before) = i - 1 /\ Len(Hash(Contents(stored[i]))) = i
    BY PlacedFacts DEF k
  <1> HIDE DEF view
  <1>7. view = [i \in 1..k |-> Contents(files[i])]
    <2>1. Listing(files) = [i \in 1..k |-> Contents(files[i])]
      BY ONLY <1>1, <1>3, ListedWhole
    <2> QED BY <2>1 DEF view
  <1>8. view[n] = Contents(stored[m]) /\ \A i \in 1..k : i # n => view[i] = Contents(stored[i])
    BY <1>1, <1>2, <1>4, <1>5, <1>7
  <1>9. Len(view) = k
    <2>1. \A i \in 1..k : Contents(files[i]) \in Events
      BY <1>1, <1>2, <1>4, <1>5, <1>6
    <2>2. view \in [1..k -> Events]
      BY <1>7, <2>1
    <2>3. view \in Seq(Events)
      BY <1>1, <2>2, SeqDef
    <2> QED BY <1>1, <2>2, <2>3, LenProperties
  <1>10. view[n].before = (IF n = 1 THEN <<>> ELSE Hash(view[n - 1]))
    BY <1>1, <1>9 DEF Chained, view
  <1>11. Len(view[n].before) = m - 1
    BY <1>1, <1>5, <1>6, <1>8
  <1>12. CASE n = 1
    <2>1. Len(<<>>) = 0
      OBVIOUS
    <2> QED BY <1>1, <1>10, <1>11, <1>12, <2>1
  <1>13. CASE n # 1
    <2>1. n - 1 \in 1..k /\ n - 1 # n
      BY <1>1, <1>13
    <2>2. Len(Hash(view[n - 1])) = n - 1
      BY <1>5, <1>6, <1>8, <2>1
    <2> QED BY <1>1, <1>10, <1>11, <1>13, <2>2
  <1> QED BY <1>12, <1>13

\* And a tip that is older than the entries.
LEMMA OldTipBreaks ==
    ASSUME TypeOK, DiskGood, NEW n \in 0..(Len(tip) - 1), NEW t, t = SubSeq(tip, 1, n)
    PROVE  /\ t \in Seq(Drafts)
           /\ ~Chained(stored, t)
  <1> DEFINE k == Extent
             view == Listing(stored)
  <1>1. /\ Names = 1..k /\ k \in Nat /\ Len(tip) \in Nat
        /\ n \in Nat /\ n < k
    BY NamesFacts, TipFacts
  <1>2. t \in Seq(Drafts) /\ Len(t) = n
    BY <1>1, TipFacts, SubSeqProperties
  <1> HIDE DEF k
  <1>3. SUFFICES ASSUME Chained(stored, t) PROVE FALSE
    BY <1>2
  <1>4. view = [i \in 1..k |-> Contents(stored[i])]
    BY <1>1, ListedWhole DEF Names
  <1> HIDE DEF view
  <1>5. \A i \in 1..k : Contents(stored[i]) \in Events /\ Len(Hash(Contents(stored[i]))) = i
    BY <1>1, <1>3, PlacedFacts DEF k, Chained, Names
  <1>6. Len(view) = k /\ view # <<>>
    <2>1. view \in [1..k -> Events]
      BY <1>4, <1>5
    <2>2. view \in Seq(Events)
      BY <1>1, <2>1, SeqDef
    <2>3. Len(view) = k
      BY <1>1, <2>1, <2>2, LenProperties
    <2> QED BY <1>1, <2>2, <2>3, EmptySeq
  <1>7. t = Hash(view[k])
    BY <1>3, <1>6 DEF Chained, view, TipOf
  <1>8. view[k] = Contents(stored[k]) /\ k \in 1..k
    BY <1>1, <1>4
  <1> QED BY <1>1, <1>2, <1>5, <1>7, <1>8

\* The accident takes away what somebody left behind, or it breaks the history.
LEMMA AccidentInv ==
    ASSUME TypeOK, Good, Accident
    PROVE  TypeOK' /\ (Good' \/ Blocked')
  <1>1. /\ laid' = 4 /\ spared' = FALSE /\ UNCHANGED <<now, proc, acked, staples>>
        /\ \A p \in Procs : proc[p].phase = "idle"
    BY DEF Accident, Untouched, Idle
  <1>2. DiskGood /\ Names = 1..Extent /\ Extent \in Nat /\ Len(tip) \in Nat
    BY NamesFacts, TipFacts DEF Good
  <1>3. TypeOK'
    <2>1. stored' \in [Positions -> SUBSET (Events \cup Partial)]
      BY DEF Accident, Removed, Replaced, PutBack, TypeOK, Names, NamesIn, Absent
    <2>2. tip' \in Seq(Drafts)
      <3>1. ASSUME NEW n \in 0..(Len(tip) - 1), PutBack(n) PROVE tip' \in Seq(Drafts)
        BY <1>2, <3>1, OldTipBreaks DEF PutBack
      <3> QED BY <3>1 DEF Accident, Removed, Replaced, TypeOK
    <2> QED BY <1>1, <2>1, <2>2 DEF TypeOK
  <1>4. ~Chained(stored', tip') => Blocked'
    BY <1>1 DEF Blocked
  <1>5. ASSUME NEW n \in Names, Removed(n), n <= Len(tip)
        PROVE  ~Chained(stored', tip')
    <2>1. n \in 1..Len(tip)
      BY <1>2, <1>5
    <2> QED BY <1>2, <1>5, <2>1, GapBreaks DEF Removed
  <1>6. ASSUME NEW n \in Names, NEW m \in Names, n # m, Replaced(n, m)
        PROVE  ~Chained(stored', tip')
    BY <1>2, <1>6, CopyBreaks DEF Replaced
  <1>7. ASSUME NEW n \in 0..(Len(tip) - 1), PutBack(n)
        PROVE  ~Chained(stored', tip')
    BY <1>2, <1>7, OldTipBreaks DEF PutBack
  <1>8. ASSUME NEW n \in Names, Removed(n), ~(n <= Len(tip))
        PROVE  Good'
    <2>1. /\ tip' = tip /\ n > Len(tip) /\ n \in Positions
          /\ \A i \in Positions : stored'[i] = IF i = n THEN Absent ELSE stored[i]
      BY <1>2, <1>8 DEF Removed, TypeOK, Names, NamesIn
    <2>2. \A t : Begins(t)' <=> Begins(t)
      BY <2>1 DEF Begins
    <2>3. DiskGood'
      <3>1. Len(tip)' <= MaxEvents
        BY <1>2, <2>1 DEF DiskGood
      <3>2. ASSUME NEW i \in 1..Len(tip)
            PROVE  \E e \in stored'[i] : Written(i, e)' /\ e.draft = tip'[i] /\ Begins(e.before)'
                                           /\ Len(e.before) = i - 1
        <4>1. stored'[i] = stored[i] /\ i \in Positions
          BY <1>2, <2>1, <3>2, EntryFacts
        <4>2. PICK e \in stored[i] : Written(i, e) /\ e.draft = tip[i] /\ Begins(e.before)
                                       /\ Len(e.before) = i - 1
          BY <1>2 DEF DiskGood
        <4> QED BY <2>1, <2>2, <4>1, <4>2 DEF Written
      <3>3. ASSUME NEW i \in Positions, i = Len(tip) + 1
            PROVE  \/ stored'[i] = Absent \/ stored'[i] = Partial
                   \/ \E e \in stored'[i] : Written(i, e)' /\ e.before = tip' /\ NewTo(e.draft, tip')
        <4>1. n = Len(tip) + 1
          BY <1>2, <2>1, NamesFacts
        <4> QED BY <2>1, <3>3, <4>1
      <3>4. \A i \in Positions : i > Len(tip') + 1 => stored'[i] = Absent
        BY <1>2, <2>1 DEF DiskGood
      <3>5. \A i, j \in 1..Len(tip') : i # j =>
                ~UsedBefore(tip'[i], tip'[j]) /\ ~Replayed(tip'[i], tip'[j])
        BY <1>2, <2>1 DEF DiskGood
      <3>6. Backed(acked, tip)'
        BY <1>1, <1>2, <2>1 DEF DiskGood, Backed
      <3> QED BY <2>1, <3>1, <3>2, <3>3, <3>4, <3>5, <3>6 DEF DiskGood
    <2>4. \A p \in Procs : ReaderGood(p)' /\ WriterGood(p)' /\ ~Writing(p)'
      BY <1>1 DEF ReaderGood, WriterGood, Writing
    <2>5. \A s \in staples' : s.paper.state # "REVOKED" => Seen(s.view)'
      <3>1. \A v : Seen(v)' <=> Seen(v)
        BY <2>1, <2>2 DEF Seen
      <3> QED BY <1>1, <3>1 DEF Good
    <2> QED BY <2>3, <2>4, <2>5 DEF Good
  <1> QED BY <1>3, <1>4, <1>5, <1>6, <1>7, <1>8 DEF Accident

-----------------------------------------------------------------------------
(* What was written once, and what a staple states.                          *)

\* The entries of a good history differ, and what is left after them is new.
LEMMA GoodOnce ==
    ASSUME TypeOK, Good
    PROVE  RecordedOnce
  <1>1. Names = 1..Extent /\ Len(tip) \in Nat /\ DiskGood
    BY NamesFacts, TipFacts DEF Good
  <1>2. ASSUME NEW n \in Names, NEW e \in InPlace(n)
        PROVE  \/ n \in 1..Len(tip) /\ e.draft = tip[n]
               \/ n = Len(tip) + 1 /\ NewTo(e.draft, tip)
    <2>1. e \in stored[n] /\ e \notin Partial /\ n \in Positions
      BY <1>2 DEF InPlace, Names, NamesIn
    <2>2. CASE n \in 1..Len(tip)
      <3>1. stored[n] = {Contents(stored[n])} /\ Contents(stored[n]).draft = tip[n]
        BY <1>1, <2>2, EntryFacts DEF Written
      <3> QED BY <2>1, <2>2, <3>1
    <2>3. CASE n \notin 1..Len(tip)
      <3>1. n = Len(tip) + 1
        BY <1>1, <2>3, NamesFacts
      <3>2. stored[n] # Partial
        BY <2>1 DEF Partial
      <3>3. stored[n] = {Contents(stored[n])} /\ NewTo(Contents(stored[n]).draft, tip)
        BY <1>1, <1>2, <3>1, <3>2, LeftoverFacts DEF Written
      <3> QED BY <2>1, <3>1, <3>3
    <2> QED BY <2>2, <2>3
  <1>3. \A m, n \in 1..Len(tip) : m # n =>
            ~UsedBefore(tip[m], tip[n]) /\ ~Replayed(tip[m], tip[n])
    BY <1>1 DEF DiskGood
  <1>4. ASSUME NEW m \in Names, NEW n \in Names, m # n, NEW e \in InPlace(m), NEW f \in InPlace(n)
        PROVE  ~UsedBefore(e.draft, f.draft) /\ ~Replayed(e.draft, f.draft)
    <2>1. CASE m \in 1..Len(tip) /\ n \in 1..Len(tip) /\ e.draft = tip[m] /\ f.draft = tip[n]
      BY <1>3, <1>4, <2>1
    <2>2. CASE m \in 1..Len(tip) /\ e.draft = tip[m] /\ NewTo(f.draft, tip)
      BY <2>2, SymmetricUse DEF NewTo
    <2>3. CASE n \in 1..Len(tip) /\ f.draft = tip[n] /\ NewTo(e.draft, tip)
      BY <2>3 DEF NewTo
    <2>4. ~(m = Len(tip) + 1 /\ n = Len(tip) + 1)
      BY <1>1, <1>4
    <2> QED BY <1>2, <2>1, <2>2, <2>3, <2>4
  <1> QED BY <1>4 DEF RecordedOnce

\* A reading that verified has seen the whole history as it then was.
LEMMA JudgeDraws ==
    ASSUME TypeOK, Good, NEW p \in Procs, Judge(p),
           NEW s \in staples', s \notin staples, s.paper.state # "REVOKED"
    PROVE  Drawn(s)
  <1>1. PICK j, view, valid, state :
          /\ j = proc[p] /\ view = Listed
          /\ valid = Verifies(root, Listed, j.tip, j.pinned, j.at + j.policy.skew)
          /\ state = Decision(valid, root, view, j.policy, j.environment, j.at)
    OBVIOUS
  <1>2. /\ j.phase = "judging" /\ Unbroken
        /\ s = [paper |-> Staple(state, view, j.policy, j.environment, j.at, j.ttl, j.key),
                view |-> view, known |-> j.known]
    BY <1>1 DEF Judge
  <1>3. /\ s.view = view /\ s.known = j.known /\ s.paper.state = state
        /\ s.paper.tip = TipOf(view) /\ s.paper.policy = j.policy
        /\ s.paper.issued = j.at /\ s.paper.until = j.at + j.ttl
    BY <1>2 DEF Staple
  <1>4. valid
    BY <1>1, <1>3 DEF Decision
  <1>5. /\ j.tip = tip /\ TipOf(view) = tip /\ Seen(view) /\ Len(view) = Len(tip)
        /\ \A i \in 1..Len(tip) : view[i].draft = tip[i]
    BY <1>1, <1>2, <1>4, VerdictFacts
  <1>6. Backed(j.known, tip)
    BY <1>1, <1>2, <1>5 DEF Good, ReaderGood
  <1>7. Holds(view, j.known)
    BY <1>5, <1>6 DEF Backed, Holds, Positions
  <1>8. j.at \in Nat /\ j.ttl \in Nat /\ j.ttl <= MaxTtl /\ MaxTtl \in Nat
    <2>1. j.at \in Claims /\ j.ttl \in Ttls
      BY <1>1, <1>2 DEF TypeOK, Commanded
    <2>2. \A at \in Claims : at \in Nat
      BY ContinuityAssumption
    <2>3. \A ttl \in Ttls : ttl \in Nat /\ ttl <= MaxTtl
      BY ContinuityAssumption, TipFacts
    <2> QED BY <2>1, <2>2, <2>3, TipFacts
  <1>9. state = "CURRENT" => Active(view, j.policy, j.at) = {}
    BY <1>1 DEF Decision
  <1>10. view \in Seq(Events) /\ Len(view) <= MaxEvents
    BY <1>5 DEF Seen, Good, DiskGood
  <1> QED BY <1>3, <1>5, <1>7, <1>8, <1>9, <1>10 DEF Drawn

\* Only a reading that verifies draws a staple that does not revoke.
LEMMA NextStaples ==
    ASSUME TypeOK, Good, Next, NEW s \in staples', s.paper.state # "REVOKED"
    PROVE  s \in staples \/ Drawn(s)
  <1>1. CASE \E p \in Procs : Judge(p)
    BY <1>1, JudgeDraws
  <1>2. CASE ~\E p \in Procs : Judge(p)
    BY <1>2 DEF Next, Begin, Continue, Deploys, BeginInit, BeginAppend, BeginImport, BeginStaple,
           LayNext, LookUp, AppendImported, ReadToAppend, CreateEvent, FillEvent, OpenTip, RenameTip,
           ReadAgain, Report, WriteFails, Crash, BeginGate, ShowPlan, EndGate, RewritePlan, Tick
  <1> QED BY <1>1, <1>2

\* A good history agrees with every staple drawn from it.
LEMMA StaplesAgree ==
    ASSUME TypeOK, Good, \A s \in staples : s.paper.state # "REVOKED" => Drawn(s)
    PROVE  StapleTrue
  <1> SUFFICES ASSUME NEW s \in staples, s.paper.state # "REVOKED", NEW n \in 1..Len(s.view),
                      acked[n] # {}
               PROVE  acked[n] = {s.view[n].draft}
    BY DEF StapleTrue
  <1>1. Seen(s.view) /\ Backed(acked, tip) /\ Len(tip) <= MaxEvents /\ Len(tip) \in Nat
    BY TipFacts DEF Good, DiskGood
  <1>2. Len(s.view) \in Nat
    BY <1>1, LenProperties DEF Seen
  <1>3. n \in Positions /\ s.view[n].draft = tip[n]
    BY <1>1, <1>2, TipFacts DEF Seen, Positions
  <1> QED BY <1>1, <1>3 DEF Backed

\* An accident copies a file to another place, where it does not count.
LEMMA AccidentOnce ==
    ASSUME TypeOK, Good, Accident
    PROVE  RecordedOnce'
  <1>1. RecordedOnce /\ DiskGood /\ Names = 1..Extent
    BY GoodOnce, NamesFacts DEF Good
  <1>2. SUFFICES ASSUME NEW n \in NamesIn(stored')
                 PROVE  n \in Names /\ \A e \in InPlace(n)' : e \in InPlace(n)
    <2>1. \A n \in Names' : n \in Names /\ \A e \in InPlace(n)' : e \in InPlace(n)
      BY <1>2 DEF Names
    <2> QED BY <1>1, <2>1 DEF RecordedOnce
  <1>3. CASE UNCHANGED stored
    BY <1>2, <1>3 DEF Names, InPlace
  <1>4. ASSUME NEW m \in Names, Removed(m)
        PROVE  n \in Names /\ \A e \in InPlace(n)' : e \in InPlace(n)
    <2>1. \A i \in Positions : stored'[i] = IF i = m THEN Absent ELSE stored[i]
      BY <1>4 DEF Removed, TypeOK
    <2>2. n \in Positions /\ stored'[n] # Absent
      BY <1>2 DEF NamesIn
    <2> QED BY <2>1, <2>2 DEF Names, NamesIn, InPlace
  <1>5. ASSUME NEW m \in Names, NEW k \in Names, m # k, Replaced(m, k)
        PROVE  n \in Names /\ \A e \in InPlace(n)' : e \in InPlace(n)
    <2>1. \A i \in Positions : stored'[i] = IF i = m THEN stored[k] ELSE stored[i]
      BY <1>5 DEF Replaced, TypeOK
    <2>2. n \in Positions /\ stored'[n] # Absent
      BY <1>2 DEF NamesIn
    <2>3. n # m => n \in Names /\ \A e \in InPlace(n)' : e \in InPlace(n)
      BY <2>1, <2>2 DEF Names, NamesIn, InPlace
    <2>4. ASSUME n = m, NEW e \in InPlace(n)'
          PROVE  FALSE
      <3>1. e \in stored[k] /\ e \notin Partial /\ Len(e.before) + 1 = n
        BY <2>1, <2>2, <2>4 DEF InPlace
      <3>2. stored[k] # Partial /\ k \in 1..Extent
        BY <1>1, <3>1 DEF Partial
      <3>3. stored[k] = {Contents(stored[k])} /\ Len(Contents(stored[k]).before) = k - 1
        BY <1>1, <3>2, PlacedFacts
      <3>4. k \in Int
        BY <3>2, NamesFacts, <1>1
      <3> QED BY <1>5, <2>4, <3>1, <3>3, <3>4
    <2> QED BY <1>5, <2>3, <2>4
  <1> QED BY <1>3, <1>4, <1>5 DEF Accident, PutBack

-----------------------------------------------------------------------------
(* The gate.                                                                 *)

LEMMA WantFacts ==
    ASSUME NEW s, NEW want \in Wants, NEW at, StapleAllows(s.paper, want, at)
    PROVE  want.minimum \in Nat
  <1>1. want.minimum \in Minimums
    BY DEF Wants
  <1> QED BY <1>1, ContinuityAssumption

\* What it allows, it checked against the staple at that moment.
LEMMA NextGate ==
    ASSUME TypeOK, GateTrue, MishapNext
    PROVE  GateTrue' /\ \A s \in staples : s \in staples'
  <1>1. \A s \in staples : s \in staples'
    BY DEF MishapNext, Accident, Next, Begin, Continue, Deploys, BeginInit, BeginAppend,
           BeginImport, BeginStaple, LayNext, LookUp, AppendImported, ReadToAppend, CreateEvent,
           FillEvent, OpenTip, RenameTip, ReadAgain, Report, Judge, WriteFails, Crash, BeginGate,
           ShowPlan, EndGate, RewritePlan, Tick
  <1> SUFFICES GateTrue'
    BY <1>1
  <1>2. CASE UNCHANGED job
    BY <1>1, <1>2 DEF GateTrue, job
  <1>3. ASSUME NEW s \in staples, NEW want \in Wants, BeginGate(s, want)
        PROVE  GateTrue'
    <2>1. /\ gate' = [phase |-> "hashed", staple |-> s, want |-> want, saved |-> 0]
          /\ allowed' = allowed /\ want.minimum \in Nat
      BY <1>3, WantFacts DEF BeginGate
    <2>2. /\ gate'.phase = "hashed" /\ gate'.staple = s /\ gate'.want = want
          /\ gate'.saved = 0
      BY <2>1
    <2> QED BY <1>1, <2>1, <2>2 DEF GateTrue
  <1>4. CASE ShowPlan
    <2>1. /\ gate' = [phase |-> "shown", staple |-> gate.staple, want |-> gate.want,
                      saved |-> gate.saved, shown |-> gate.saved]
          /\ allowed' = allowed /\ gate.phase = "hashed"
      BY <1>4 DEF ShowPlan
    <2>2. /\ gate'.phase = "shown" /\ gate'.staple = gate.staple /\ gate'.want = gate.want
          /\ gate'.saved = gate.saved /\ gate'.shown = gate.saved
      BY <2>1
    <2>3. gate # NoGate
      BY <2>1 DEF NoGate
    <2> QED BY <1>1, <2>1, <2>2, <2>3 DEF GateTrue
  <1>5. CASE EndGate
    <2>1. gate.phase = "shown" /\ gate' = NoGate
      BY <1>5 DEF EndGate
    <2>2. gate # NoGate
      BY <2>1 DEF NoGate
    <2>3. ASSUME NEW a \in allowed', a \notin allowed
          PROVE  LET s == a.staple.paper
                 IN  /\ a.staple \in staples' /\ s.state = "CURRENT" /\ s.policy = a.want.policy
                     /\ a.want.minimum \in Nat /\ a.want.minimum <= Len(s.tip)
                     /\ a.at < s.until /\ s.issued <= a.at + StapleSkew /\ a.shown = 0
      <3>1. /\ gate.saved = 0 /\ StapleAllows(gate.staple.paper, gate.want, now)
            /\ a = [staple |-> gate.staple, want |-> gate.want, at |-> now, shown |-> gate.shown]
        BY <1>5, <2>3 DEF EndGate
      <3>2. /\ gate.staple \in staples /\ gate.want.minimum \in Nat
            /\ gate.shown \in Nat /\ gate.shown <= gate.saved
        BY <2>1, <2>2 DEF GateTrue
      <3>3. /\ a.staple = gate.staple /\ a.want = gate.want /\ a.at = now /\ a.shown = 0
        BY <3>1, <3>2
      <3>4. gate.staple.paper.state = "CURRENT"
        BY <3>1 DEF StapleAllows, EffectiveState
      <3>5. /\ gate.staple.paper.policy = gate.want.policy
            /\ Len(gate.staple.paper.tip) >= gate.want.minimum
            /\ gate.staple.paper.issued <= now + StapleSkew /\ now < gate.staple.paper.until
        BY <3>1 DEF StapleAllows, StapleFits
      <3> QED BY <1>1, <3>2, <3>3, <3>4, <3>5
    <2>4. \A a \in allowed : a.staple \in staples'
      BY <1>1 DEF GateTrue
    <2> QED BY <2>1, <2>3, <2>4 DEF GateTrue
  <1>6. CASE RewritePlan
    <2>1. gate # NoGate /\ gate' = [gate EXCEPT !.saved = @ + 1] /\ allowed' = allowed
      BY <1>6 DEF RewritePlan
    <2>2. /\ gate.phase \in {"hashed", "shown"} /\ gate.saved \in Nat
          /\ gate.phase = "shown" => gate.shown \in Nat /\ gate.shown <= gate.saved
          /\ gate.staple \in staples /\ gate.want.minimum \in Nat
      BY <2>1 DEF GateTrue
    <2>3. /\ gate'.phase = gate.phase /\ gate'.staple = gate.staple /\ gate'.want = gate.want
          /\ gate'.shown = gate.shown /\ (gate'.saved = gate.saved + 1 \/ gate'.saved = gate.saved)
      BY <2>1
    <2> QED BY <1>1, <2>1, <2>2, <2>3 DEF GateTrue
  <1>7. ASSUME NEW p \in Procs, Begin(p) \/ Continue(p)
        PROVE  UNCHANGED job
    BY <1>7 DEF Begin, Continue, BeginInit, BeginAppend, BeginImport, BeginStaple, LayNext, LookUp,
           AppendImported, ReadToAppend, CreateEvent, FillEvent, OpenTip, RenameTip, ReadAgain,
           Report, Judge, WriteFails, Crash
  <1>8. Accident \/ Tick => UNCHANGED job
    BY DEF Accident, Tick
  <1>9. \/ \E p \in Procs : Begin(p) \/ Continue(p)
        \/ \E s \in staples : \E want \in Wants : BeginGate(s, want)
        \/ ShowPlan \/ EndGate \/ RewritePlan \/ Tick \/ Accident
    BY DEF MishapNext, Next, Deploys
  <1> QED BY <1>2, <1>3, <1>4, <1>5, <1>6, <1>7, <1>8, <1>9

-----------------------------------------------------------------------------
(* The invariant.                                                            *)

LEMMA InitInv ==
    ASSUME MishapInit
    PROVE  IndInv
  <1>1. /\ now = 1 /\ spared = TRUE /\ tip = <<>> /\ staples = {} /\ allowed = {} /\ gate = NoGate
        /\ stored = [n \in Positions |-> {}] /\ acked = [n \in Positions |-> {}]
        /\ proc = [p \in Procs |-> Idle]
    BY DEF MishapInit, Init, Absent
  <1>2. \A p \in Procs : proc[p].phase = "idle"
    BY <1>1 DEF Idle
  <1>3. Len(tip) = 0 /\ tip \in Seq(Drafts)
    BY <1>1, EmptySeq
  <1>4. TypeOK
    <2>1. \A p \in Procs : Commanded(proc[p])
      BY <1>2 DEF Commanded, Phases
    <2>2. DOMAIN proc = Procs
      BY <1>1
    <2> QED BY <1>1, <1>3, <2>1, <2>2 DEF TypeOK
  <1>5. Good
    <2>1. DiskGood
      BY <1>1, <1>3, ContinuityAssumption DEF DiskGood, Backed, Positions, Absent
    <2>2. \A p \in Procs : ReaderGood(p) /\ WriterGood(p) /\ ~Writing(p)
      BY <1>2 DEF ReaderGood, WriterGood, Writing
    <2> QED BY <1>1, <2>1, <2>2 DEF Good
  <1>6. RecordedOnce
    BY <1>4, <1>5, GoodOnce
  <1>7. StapleTrue /\ GateTrue
    BY <1>1 DEF StapleTrue, GateTrue
  <1> QED BY <1>4, <1>5, <1>6, <1>7 DEF IndInv

\* The same of the state after a step.
LEMMA GoodNext ==
    /\ TypeOK' /\ Good' => RecordedOnce'
    /\ TypeOK' /\ Good' /\ (\A s \in staples : s.paper.state # "REVOKED" => Drawn(s))' =>
           StapleTrue'
  <1>1. TypeOK /\ Good => RecordedOnce
    BY GoodOnce
  <1>2. TypeOK /\ Good /\ (\A s \in staples : s.paper.state # "REVOKED" => Drawn(s)) => StapleTrue
    BY StaplesAgree
  <1> QED BY <1>1, <1>2, PTL

\* Every step of a command, of the gate, and the accident keep it.
LEMMA NextInv ==
    ASSUME IndInv, [MishapNext]_<<vars, spared>>
    PROVE  IndInv'
  <1>1. TypeOK /\ (Good \/ Blocked) /\ RecordedOnce /\ StapleTrue /\ GateTrue
    BY DEF IndInv
  <1>2. ASSUME Good, Next, UNCHANGED spared
        PROVE  IndInv'
    <2>1. TypeOK' /\ Good'
      BY <1>1, <1>2, NextGood
    <2>2. RecordedOnce'
      BY <2>1, GoodNext
    <2>3. \A s \in staples' : s.paper.state # "REVOKED" => Drawn(s)
      BY <1>1, <1>2, NextStaples DEF StapleTrue
    <2>4. StapleTrue'
      BY <2>1, <2>3, GoodNext
    <2>5. GateTrue'
      BY <1>1, <1>2, NextGate DEF MishapNext
    <2> QED BY <2>1, <2>2, <2>4, <2>5 DEF IndInv
  <1>3. ASSUME Blocked, Next, UNCHANGED spared
        PROVE  IndInv'
    <2>1. /\ TypeOK' /\ Blocked' /\ UNCHANGED <<stored, tip, acked>>
          /\ \A s \in staples' : s.paper.state # "REVOKED" => s \in staples
      BY <1>1, <1>3, NextBlocked
    <2>2. RecordedOnce'
      BY <1>1, <2>1 DEF RecordedOnce, Names, NamesIn, InPlace
    <2>3. StapleTrue'
      BY <1>1, <2>1 DEF StapleTrue
    <2>4. GateTrue'
      BY <1>1, <1>3, NextGate DEF MishapNext
    <2> QED BY <2>1, <2>2, <2>3, <2>4 DEF IndInv
  <1>4. CASE Accident
    <2>1. spared /\ UNCHANGED <<staples, acked>>
      BY <1>4 DEF Accident
    <2>2. Good
      BY <1>1, <2>1 DEF Blocked
    <2>3. TypeOK' /\ (Good' \/ Blocked')
      BY <1>1, <1>4, <2>2, AccidentInv
    <2>4. RecordedOnce'
      BY <1>1, <1>4, <2>2, AccidentOnce
    <2>5. StapleTrue'
      BY <1>1, <2>1 DEF StapleTrue
    <2>6. GateTrue'
      BY <1>1, <1>4, NextGate DEF MishapNext
    <2> QED BY <2>3, <2>4, <2>5, <2>6 DEF IndInv
  <1>5. CASE UNCHANGED <<vars, spared>>
    <2>1. UNCHANGED <<stored, tip, acked, proc, staples, spared, now, laid, gate, allowed>>
      BY <1>5 DEF vars
    <2>2. TypeOK'
      BY <1>1, <2>1 DEF TypeOK
    <2>3. Good' \/ Blocked'
      <3>1. CASE Good
        BY <1>1, <2>1, <3>1, SameFiles DEF TypeOK
      <3>2. CASE Blocked
        BY <2>1, <3>2 DEF Blocked
      <3> QED BY <1>1, <3>1, <3>2
    <2>4. RecordedOnce'
      BY <1>1, <2>1 DEF RecordedOnce, Names, NamesIn, InPlace
    <2>5. StapleTrue' /\ GateTrue'
      BY <1>1, <2>1 DEF StapleTrue, GateTrue
    <2> QED BY <2>2, <2>3, <2>4, <2>5 DEF IndInv
  <1> QED BY <1>1, <1>2, <1>3, <1>4, <1>5 DEF MishapNext

-----------------------------------------------------------------------------
(* The theorems.                                                             *)

\* Whatever commands run together, fail or die, and whatever one accident does
\* to a history nobody writes to, the history is good or blocked for ever.
THEOREM HistoryInvariant == MishapSpec => []IndInv
  <1>1. MishapInit => IndInv
    BY InitInv
  <1>2. IndInv /\ [MishapNext]_<<vars, spared>> => IndInv'
    BY NextInv
  <1> QED BY <1>1, <1>2, PTL DEF MishapSpec

\* A history that verifies still holds, at its place, every entry that had been
\* reported as recorded before the reading began (chain.ts:247-347, 401-411).
THEOREM HistoriesAreKept == MishapSpec => []HistoryKept
  <1>1. IndInv => HistoryKept
    <2> SUFFICES ASSUME IndInv PROVE HistoryKept
      OBVIOUS
    <2>1. ASSUME NEW p \in Procs, proc[p].phase = "verified"
          PROVE  Holds(proc[p].view, proc[p].known)
      BY <2>1 DEF IndInv, Blocked, Good, ReaderGood
    <2>2. \A s \in staples : s.paper.state # "REVOKED" => Holds(s.view, s.known)
      BY DEF IndInv, StapleTrue, Drawn
    <2> QED BY <2>1, <2>2 DEF HistoryKept
  <1> QED BY <1>1, HistoryInvariant, PTL

\* At most one entry is written for a delivery or an event ID, however many
\* imports and appends race (github.ts:236-252, chain.ts:401-407).
THEOREM EntriesAreUnique == MishapSpec => []RecordedOnce
  <1>1. IndInv => RecordedOnce
    BY DEF IndInv
  <1> QED BY <1>1, HistoryInvariant, PTL

\* What a CURRENT staple says of the revocations in its history.
LEMMA LiftedFacts ==
    ASSUME NEW view, NEW policy, NEW at, Active(view, policy, at) = {},
           Len(view) \in Nat,
           NEW i \in 1..Len(view), Revokes(view[i].draft, policy)
    PROVE  \E j \in (i + 1)..Len(view) :
               /\ view[j].draft.supersedes = view[i].draft.id
               /\ view[j].draft.issuer # view[i].draft.issuer
               /\ view[j].signer \in policy.issuers
               /\ view[j].draft.fresh > at
  <1>1. PICK j \in 1..Len(view) : Repairs(view, j, i, policy, at)
    BY DEF Active
  <1>2. i < j
    BY <1>1 DEF Repairs
  <1>3. j \in (i + 1)..Len(view)
    BY <1>1, <1>2
  <1> QED BY <1>1, <1>3 DEF Repairs, SoundRepair

\* An ALLOW rests on a CURRENT staple that covers the moment, for the plan that
\* was inspected, and on a history in which every revocation was lifted and
\* every reported entry stands (staple.ts:299-370, terraform.ts:131-203).
THEOREM AllowsAreCovered == MishapSpec => []AllowedIsCovered
  <1>1. IndInv => AllowedIsCovered
    <2> SUFFICES ASSUME IndInv, NEW a \in allowed
                 PROVE  LET s == a.staple.paper
                            view == a.staple.view
                        IN  /\ a.at < s.until /\ s.until <= s.issued + MaxTtl
                            /\ s.issued <= a.at + StapleSkew
                            /\ a.shown = 0
                            /\ \A i \in 1..Len(view) :
                                   Revokes(view[i].draft, a.want.policy) =>
                                     \E j \in (i + 1)..Len(view) :
                                         /\ view[j].draft.supersedes = view[i].draft.id
                                         /\ view[j].draft.issuer # view[i].draft.issuer
                                         /\ view[j].signer \in a.want.policy.issuers
                                         /\ view[j].draft.fresh > s.issued
                            /\ Holds(view, a.staple.known)
                            /\ \A n \in 1 .. a.want.minimum :
                                   acked[n] # {} => acked[n] = {view[n].draft}
      BY DEF AllowedIsCovered
    <2> DEFINE s == a.staple.paper
               view == a.staple.view
    <2>1. /\ a.staple \in staples /\ s.state = "CURRENT" /\ s.policy = a.want.policy
          /\ a.want.minimum \in Nat /\ a.want.minimum <= Len(s.tip)
          /\ a.at < s.until /\ s.issued <= a.at + StapleSkew /\ a.shown = 0
      BY DEF IndInv, GateTrue
    <2>2. /\ Drawn(a.staple)
          /\ \A n \in 1..Len(view) : acked[n] # {} => acked[n] = {view[n].draft}
      BY <2>1 DEF IndInv, StapleTrue
    <2>3. /\ Len(s.tip) = Len(view) /\ Len(view) \in Nat /\ Holds(view, a.staple.known)
          /\ s.until <= s.issued + MaxTtl
          /\ Active(view, a.want.policy, s.issued) = {}
      BY <2>1, <2>2, LenProperties DEF Drawn
    <2>4. \A n \in 1 .. a.want.minimum : n \in 1..Len(view)
      BY <2>1, <2>3
    <2> HIDE DEF s, view
    <2>5. ASSUME NEW i \in 1..Len(view), Revokes(view[i].draft, a.want.policy)
          PROVE  \E j \in (i + 1)..Len(view) :
                     /\ view[j].draft.supersedes = view[i].draft.id
                     /\ view[j].draft.issuer # view[i].draft.issuer
                     /\ view[j].signer \in a.want.policy.issuers
                     /\ view[j].draft.fresh > s.issued
      BY <2>3, <2>5, LiftedFacts
    <2>6. /\ a.at < s.until /\ s.until <= s.issued + MaxTtl
          /\ s.issued <= a.at + StapleSkew /\ a.shown = 0
          /\ Holds(view, a.staple.known)
          /\ \A n \in 1 .. a.want.minimum : acked[n] # {} => acked[n] = {view[n].draft}
      BY <2>1, <2>2, <2>3, <2>4 DEF s, view
    <2> QED BY <2>5, <2>6 DEF s, view
  <1> QED BY <1>1, HistoryInvariant, PTL
=============================================================================
