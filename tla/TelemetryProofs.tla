---------------------------- MODULE TelemetryProofs ----------------------------
(***************************************************************************)
(* A run that telemetry calls clean was within its limits, and what was    *)
(* counted is never counted away: for every limit, every transcript, every *)
(* number of polls and of changes, and wherever the worker dies.           *)
(***************************************************************************)
EXTENDS TelemetryInv, TLAPS, FiniteSetTheorems, WellFoundedInduction, NaturalsInduction

-----------------------------------------------------------------------------
(* Numbers and finite sets.                                                 *)

\* A set of numbers that is not empty has a least one.
LEMMA Least ==
    ASSUME NEW S, S \subseteq Nat, S # {}
    PROVE  \E m \in S : \A n \in S : m <= n
<1>1. PICK m \in S : \A n \in S : ~(<<n, m>> \in OpToRel(<, Nat))
  BY WFMin, NatLessThanWellFounded, Zenon
<1>2. ASSUME NEW n \in S, n < m PROVE FALSE
  BY <1>1, <1>2 DEF OpToRel
<1> QED
  BY <1>2

\* The greatest member of a bounded set of numbers.
LEMMA MaxIsGreatest ==
    ASSUME NEW S, S \subseteq Nat, S # {}, NEW k \in Nat, \A s \in S : s <= k
    PROVE  Max(S) \in S /\ \A s \in S : s <= Max(S)
<1> DEFINE Bounds == {u \in Nat : \A s \in S : s <= u}
<1>1. PICK u \in Bounds : \A v \in Bounds : u <= v
  <2>1. Bounds \subseteq Nat /\ k \in Bounds
    OBVIOUS
  <2> QED
    BY <2>1, Least
<1>2. u \in S
  <2> SUFFICES ASSUME u \notin S PROVE FALSE
    OBVIOUS
  <2>1. PICK s \in S : TRUE
    OBVIOUS
  <2>2. u - 1 \in Bounds
    BY <1>1, <2>1
  <2> QED
    BY <1>1, <2>2
<1>3. \E x \in S : \A y \in S : x >= y
  BY <1>1, <1>2
<1> QED
  BY <1>3 DEF Max

LEMMA MaxOfTwo ==
    ASSUME NEW a \in Nat, NEW b \in Nat
    PROVE  Max({a, b}) = IF a >= b THEN a ELSE b
<1>1. \E x \in {a, b} : \A y \in {a, b} : x >= y
  OBVIOUS
<1> QED
  BY <1>1 DEF Max

\* The sizes of sets of positions.
LEMMA Sized ==
    ASSUME NEW n \in Nat, NEW T, T \subseteq 1 .. n
    PROVE  /\ IsFiniteSet(T) /\ Cardinality(T) \in Nat /\ Cardinality(T) <= n
           /\ \A S : S \subseteq T => /\ Cardinality(S) <= Cardinality(T)
                                      /\ Cardinality(S) = Cardinality(T) => S = T
           /\ Cardinality(T) = 0 <=> T = {}
<1>1. IsFiniteSet(1 .. n) /\ Cardinality(1 .. n) = n
  BY FS_Interval
<1>2. IsFiniteSet(T) /\ Cardinality(T) <= Cardinality(1 .. n)
  BY <1>1, FS_Subset
<1>3. Cardinality(T) \in Nat
  BY <1>2, FS_CardinalityType
<1> QED
  BY <1>1, <1>2, <1>3, FS_Subset, FS_EmptySet

\* Moving a set of positions does not change its size.
LEMMA Moved ==
    ASSUME NEW n \in Nat, NEW T, T \subseteq 1 .. n, NEW k \in Nat,
           NEW U, U \subseteq Nat,
           \A i \in T : i + k \in U, \A j \in U : j - k \in T
    PROVE  Cardinality(U) = Cardinality(T)
<1>1. [i \in T |-> i + k] \in Bijection(T, U)
  <2>1. [i \in T |-> i + k] \in [T -> U]
    OBVIOUS
  <2>2. \A i, j \in T : i + k = j + k => i = j
    OBVIOUS
  <2>3. \A j \in U : \E i \in T : i + k = j
    <3>1. \A j \in U : j - k \in T /\ (j - k) + k = j
      OBVIOUS
    <3> QED
      BY <3>1
  <2> QED
    BY <2>1, <2>2, <2>3 DEF Bijection, Injection, Surjection, IsInjective
<1>2. IsFiniteSet(T)
  BY Sized
<1> QED
  BY <1>1, <1>2, FS_Bijection DEF ExistsBijection

-----------------------------------------------------------------------------
(* Transcripts.                                                             *)

LEMMA PrefixIs ==
    ASSUME NEW s \in Seq(LineKinds), NEW t \in Seq(LineKinds)
    PROVE  /\ Len(s) \in Nat /\ Len(t) \in Nat /\ DOMAIN s = 1 .. Len(s)
           /\ IsPrefix(s, t) <=>
                Len(s) <= Len(t) /\ \A i \in 1 .. Len(s) : s[i] = t[i]
<1>1. ASSUME Len(s) <= Len(t)
      PROVE  SubSeq(s, 1, Len(s)) = SubSeq(t, 1, Len(s)) <=>
               \A i \in 1 .. Len(s) : s[i] = t[i]
  <2>1. /\ Len(SubSeq(s, 1, Len(s))) = Len(s) /\ Len(SubSeq(t, 1, Len(s))) = Len(s)
        /\ \A i \in 1 .. Len(s) : SubSeq(s, 1, Len(s))[i] = s[i]
        /\ \A i \in 1 .. Len(s) : SubSeq(t, 1, Len(s))[i] = t[i]
    BY <1>1
  <2> QED
    BY <1>1, <2>1
<1> QED
  BY <1>1 DEF IsPrefix

LEMMA PrefixOrder ==
    ASSUME NEW s \in Seq(LineKinds), NEW t \in Seq(LineKinds), NEW u \in Seq(LineKinds)
    PROVE  /\ IsPrefix(s, s) /\ IsPrefix(<<>>, s)
           /\ IsPrefix(s, t) /\ IsPrefix(t, u) => IsPrefix(s, u)
<1>1. <<>> \in Seq(LineKinds) /\ Len(<<>>) = 0
  OBVIOUS
<1>2. IsPrefix(s, s)
  BY PrefixIs
<1>3. IsPrefix(<<>>, s)
  <2> DEFINE e == <<>>
  <2>1. e \in Seq(LineKinds) /\ Len(e) = 0 /\ 1 .. 0 = {}
    BY <1>1
  <2> HIDE DEF e
  <2>2. Len(e) <= Len(s) /\ \A i \in 1 .. Len(e) : e[i] = s[i]
    BY <2>1
  <2>3. IsPrefix(e, s)
    BY <2>1, <2>2, PrefixIs
  <2> QED
    BY <2>3 DEF e
<1>4. ASSUME IsPrefix(s, t), IsPrefix(t, u) PROVE IsPrefix(s, u)
  <2>1. Len(s) <= Len(t) /\ \A i \in 1 .. Len(s) : s[i] = t[i]
    BY <1>4, PrefixIs
  <2>2. Len(t) <= Len(u) /\ \A i \in 1 .. Len(t) : t[i] = u[i]
    BY <1>4, PrefixIs
  <2>3. Len(s) <= Len(u) /\ \A i \in 1 .. Len(s) : s[i] = u[i]
    BY <2>1, <2>2, PrefixIs
  <2> QED
    BY <2>3, PrefixIs
<1> QED
  BY <1>2, <1>3, <1>4

LEMMA SizeIs ==
    ASSUME NEW r \in Transcripts
    PROVE  /\ r.lines \in Seq(LineKinds) /\ r.tail \in BOOLEAN
           /\ Len(r.lines) \in Nat /\ Size(r) \in Nat
           /\ r.tail => Size(r) = Len(r.lines) + 1
           /\ ~r.tail => Size(r) = Len(r.lines)
           /\ Size(r) = 0 <=> r = Empty
           /\ Len(r.lines) = 0 <=> r.lines = <<>>
<1>1. r.lines \in Seq(LineKinds) /\ r.tail \in BOOLEAN /\ Len(r.lines) \in Nat
  BY DEF Transcripts
<1>2. r.tail => Size(r) = Len(r.lines) + 1
  BY <1>1 DEF Size
<1>3. ~r.tail => Size(r) = Len(r.lines)
  BY <1>1 DEF Size
<1>4. Len(r.lines) = 0 <=> r.lines = <<>>
  BY <1>1
<1>5. r = Empty <=> r.lines = <<>> /\ ~r.tail
  BY <1>1 DEF Empty, Transcripts
<1> QED
  BY <1>1, <1>2, <1>3, <1>4, <1>5

LEMMA ExtendsOrder ==
    ASSUME NEW a \in Transcripts, NEW b \in Transcripts, NEW c \in Transcripts
    PROVE  /\ Extends(a, a) /\ Extends(a, Empty)
           /\ Extends(c, b) /\ Extends(b, a) => Extends(c, a)
           /\ Extends(b, a) => IsPrefix(a.lines, b.lines) /\ Size(a) <= Size(b)
<1>1. /\ a.lines \in Seq(LineKinds) /\ b.lines \in Seq(LineKinds)
      /\ c.lines \in Seq(LineKinds)
      /\ a.tail \in BOOLEAN /\ b.tail \in BOOLEAN /\ c.tail \in BOOLEAN
  BY DEF Transcripts
<1>2. IsPrefix(a.lines, b.lines) => Len(a.lines) <= Len(b.lines)
  BY <1>1, PrefixIs
<1>3. IsPrefix(b.lines, c.lines) => Len(b.lines) <= Len(c.lines)
  BY <1>1, PrefixIs
<1>4. /\ Len(a.lines) \in Nat /\ Len(b.lines) \in Nat /\ Len(c.lines) \in Nat
  BY <1>1
<1>5. Extends(a, a) /\ Extends(a, Empty)
  BY <1>1, PrefixOrder DEF Extends, Empty
<1>6. ASSUME Extends(c, b), Extends(b, a) PROVE Extends(c, a)
  <2>1. IsPrefix(a.lines, c.lines)
    BY <1>1, <1>6, PrefixOrder DEF Extends
  <2>2. /\ a.tail => b.tail \/ Len(b.lines) > Len(a.lines)
        /\ b.tail => c.tail \/ Len(c.lines) > Len(b.lines)
        /\ Len(a.lines) <= Len(b.lines) /\ Len(b.lines) <= Len(c.lines)
    BY <1>2, <1>3, <1>6 DEF Extends
  <2> QED
    BY <1>1, <1>4, <2>1, <2>2 DEF Extends
<1>7. ASSUME Extends(b, a) PROVE IsPrefix(a.lines, b.lines) /\ Size(a) <= Size(b)
  <2>1. /\ a.tail => Size(a) = Len(a.lines) + 1
        /\ ~a.tail => Size(a) = Len(a.lines)
        /\ b.tail => Size(b) = Len(b.lines) + 1
        /\ ~b.tail => Size(b) = Len(b.lines)
    BY SizeIs
  <2>2. /\ Len(a.lines) <= Len(b.lines) /\ IsPrefix(a.lines, b.lines)
        /\ a.tail => b.tail \/ Len(b.lines) > Len(a.lines)
    BY <1>2, <1>7 DEF Extends
  <2> QED
    BY <1>1, <1>4, <2>1, <2>2
<1> QED
  BY <1>5, <1>6, <1>7

\* The calls of a transcript, and those of one that it began as.
LEMMA ActionsOfPrefix ==
    ASSUME NEW s \in Seq(LineKinds), NEW t \in Seq(LineKinds), IsPrefix(s, t)
    PROVE  /\ Actions(s) \subseteq 1 .. Len(s) /\ Len(s) \in Nat
           /\ Actions(s) = {i \in Actions(t) : i <= Len(s)}
           /\ \A i \in Actions(s) : s[i] = t[i]
  BY PrefixIs DEF Actions

LEMMA SliceOfPrefix ==
    ASSUME NEW s \in Seq(LineKinds), NEW t \in Seq(LineKinds), IsPrefix(s, t),
           NEW n \in Nat
    PROVE  Slice(Actions(s), n) = {i \in Slice(Actions(t), n) : i <= Len(s)}
<1>1. ASSUME NEW i \in Actions(s)
      PROVE  {j \in Actions(s) : j < i} = {j \in Actions(t) : j < i}
  BY ActionsOfPrefix, PrefixIs
<1>2. Actions(s) = {i \in Actions(t) : i <= Len(s)}
  BY ActionsOfPrefix
<1>3. Slice(Actions(s), n) =
        {i \in Actions(s) : Cardinality({j \in Actions(t) : j < i}) >= n}
  BY <1>1 DEF Slice
<1> QED
  BY <1>2, <1>3 DEF Slice

\* What is left out by counting is what was there before.
LEMMA SliceIsOwn ==
    ASSUME NEW base \in Seq(LineKinds), NEW lines \in Seq(LineKinds),
           IsPrefix(base, lines)
    PROVE  Slice(Actions(lines), Cardinality(Actions(base)))
             = {i \in Actions(lines) : i > Len(base)}
<1>1. /\ Actions(base) \subseteq 1 .. Len(base) /\ Len(base) \in Nat
      /\ Actions(base) = {i \in Actions(lines) : i <= Len(base)}
  BY ActionsOfPrefix
<1>2. Actions(lines) \subseteq 1 .. Len(lines) /\ Len(lines) \in Nat
  BY DEF Actions
<1>3. ASSUME NEW i \in Actions(lines)
      PROVE  Cardinality({j \in Actions(lines) : j < i}) >= Cardinality(Actions(base))
               <=> i > Len(base)
  <2> DEFINE Before == {j \in Actions(lines) : j < i}
  <2>1. Before \subseteq 1 .. Len(lines)
    BY <1>2
  <2>2. CASE i > Len(base)
    <3>1. Actions(base) \subseteq Before
      BY <1>1, <1>2, <2>2
    <3>2. Cardinality(Actions(base)) <= Cardinality(Before)
      BY <1>2, <2>1, <3>1, Sized
    <3>3. Cardinality(Actions(base)) \in Nat /\ Cardinality(Before) \in Nat
      BY <1>1, <1>2, <2>1, Sized
    <3> QED
      BY <2>2, <3>2, <3>3
  <2>3. CASE ~(i > Len(base))
    <3>1. Before \subseteq Actions(base) /\ i \in Actions(base) /\ i \notin Before
      BY <1>1, <1>2, <2>3
    <3>2. /\ Cardinality(Before) <= Cardinality(Actions(base))
          /\ Cardinality(Before) # Cardinality(Actions(base))
      BY <1>1, <3>1, Sized
    <3>3. Cardinality(Actions(base)) \in Nat /\ Cardinality(Before) \in Nat
      BY <1>1, <1>2, <2>1, Sized
    <3> QED
      BY <2>3, <3>2, <3>3
  <2> QED
    BY <2>2, <2>3
<1> QED
  BY <1>3 DEF Slice

-----------------------------------------------------------------------------
(* What is counted.                                                         *)

Row(actions, first, last) == {i \in actions : first <= i /\ i <= last}

LEMMA StreakIs ==
    ASSUME NEW n \in Nat, NEW F, NEW A, A \subseteq 1 .. n
    PROVE  /\ Streak(F, A) \in Nat
           /\ \A first, last \in A :
                Row(A, first, last) \subseteq F
                  => Cardinality(Row(A, first, last)) <= Streak(F, A)
           /\ \/ Streak(F, A) = 0
              \/ \E first, last \in A :
                   /\ Row(A, first, last) \subseteq F
                   /\ Streak(F, A) = Cardinality(Row(A, first, last))
<1>0. \A T : T \subseteq A => Cardinality(T) \in Nat /\ Cardinality(T) <= n
  <2>1. ASSUME NEW T, T \subseteq A
        PROVE  Cardinality(T) \in Nat /\ Cardinality(T) <= n
    <3>1. T \subseteq 1 .. n
      BY <2>1
    <3> QED
      BY <3>1, Sized
  <2> QED
    BY <2>1
<1> DEFINE rows  == {{i \in A : first <= i /\ i <= last} : first, last \in A}
           runs  == {r \in rows : r \subseteq F}
           sizes == {0} \cup {Cardinality(row) : row \in runs}
<1>1. Streak(F, A) = Max(sizes)
  BY DEF Streak
<1>2. \A r \in runs : \E first, last \in A : r = Row(A, first, last)
  BY DEF Row
<1>3. \A first, last \in A :
        Row(A, first, last) \subseteq F
          => Row(A, first, last) \in runs
  BY DEF Row
<1> HIDE DEF rows, runs
<1>4. \A r \in runs : Cardinality(r) \in Nat /\ Cardinality(r) <= n
  <2>1. \A r \in runs : r \subseteq A
    BY <1>2 DEF Row
  <2> QED
    BY <1>0, <2>1
<1>5. sizes \subseteq Nat /\ sizes # {} /\ \A s \in sizes : s <= n
  BY <1>4
<1>6. Max(sizes) \in sizes /\ \A s \in sizes : s <= Max(sizes)
  BY <1>5, MaxIsGreatest
<1>7. \A r \in runs : Cardinality(r) <= Max(sizes)
  BY <1>6
<1>8. Max(sizes) = 0 \/ \E r \in runs : Max(sizes) = Cardinality(r)
  BY <1>6
<1>9. /\ Max(sizes) \in Nat
  BY <1>5, <1>6
<1> HIDE DEF sizes
<1>10. \A r \in runs : r \subseteq F
  BY DEF runs
<1>11. \A first, last \in A :
         Row(A, first, last) \subseteq F
           => Cardinality(Row(A, first, last)) <= Max(sizes)
  BY <1>3, <1>7
<1>12. \/ Max(sizes) = 0
       \/ \E first, last \in A :
            /\ Row(A, first, last) \subseteq F
            /\ Max(sizes) = Cardinality(Row(A, first, last))
  BY <1>2, <1>8, <1>10
<1> QED
  BY <1>1, <1>9, <1>11, <1>12

\* The numbers of a transcript's calls, one by one.
LEMMA MetricsAre ==
    ASSUME NEW n \in Nat, NEW lines, NEW A, A \subseteq 1 .. n
    PROVE  /\ Metrics(lines, A) \in Numbers
           /\ Metrics(lines, A).calls = Cardinality(A)
           /\ Metrics(lines, A).identical = Cardinality(A)
           /\ Metrics(lines, A).failed = Cardinality(Ended("error", lines, A))
           /\ Metrics(lines, A).streak = Streak(Ended("error", lines, A), A)
<1> DEFINE F == Ended("error", lines, A)
<1>1. Cardinality(F) \in Nat /\ Cardinality(A) \in Nat
  <2>1. F \subseteq 1 .. n
    BY DEF Ended
  <2> QED
    BY <2>1, Sized
<1>2. Streak(F, A) \in Nat
  BY StreakIs
<1>3. Metrics(lines, A) =
        [calls |-> Cardinality(A), failed |-> Cardinality(F),
         identical |-> Cardinality(A), streak |-> Streak(F, A)]
  BY DEF Metrics
<1> HIDE DEF F
<1>4. /\ Metrics(lines, A) \in Numbers
      /\ Metrics(lines, A).calls = Cardinality(A)
      /\ Metrics(lines, A).identical = Cardinality(A)
      /\ Metrics(lines, A).failed = Cardinality(F)
      /\ Metrics(lines, A).streak = Streak(F, A)
  BY <1>1, <1>2, <1>3 DEF Numbers
<1> QED
  BY <1>4 DEF F

\* A transcript that goes on has no fewer calls.
LEMMA MetricsGrow ==
    ASSUME NEW s \in Seq(LineKinds), NEW t \in Seq(LineKinds), IsPrefix(s, t),
           NEW n \in Nat,
           NEW S, S = Slice(Actions(s), n), NEW T, T = Slice(Actions(t), n)
    PROVE  \A number \in {"calls", "identical"} :
             Metrics(t, T)[number] >= Metrics(s, S)[number]
<1>1. /\ Len(s) \in Nat /\ Len(t) \in Nat /\ Len(s) <= Len(t)
      /\ \A i \in 1 .. Len(s) : s[i] = t[i]
  BY PrefixIs
<1>2. S = {i \in T : i <= Len(s)}
  BY SliceOfPrefix
<1>3. T \subseteq 1 .. Len(t)
  BY ActionsOfPrefix, PrefixOrder DEF Slice, Actions
<1>4. S \subseteq T /\ S \subseteq 1 .. Len(s)
  BY <1>1, <1>2, <1>3
<1>5. /\ Cardinality(S) <= Cardinality(T)
      /\ Cardinality(S) \in Nat /\ Cardinality(T) \in Nat
  BY <1>1, <1>3, <1>4, Sized
<1>6. /\ Metrics(t, T).calls = Cardinality(T) /\ Metrics(s, S).calls = Cardinality(S)
      /\ Metrics(t, T).identical = Cardinality(T)
      /\ Metrics(s, S).identical = Cardinality(S)
  BY <1>1, <1>3, <1>4, MetricsAre
<1> QED
  BY <1>5, <1>6

\* The lines after the b-th, and where the calls among them are.
IsRest(own, lines, b) ==
  /\ b \in Nat /\ b <= Len(lines)
  /\ own \in Seq(LineKinds) /\ Len(own) = Len(lines) - b
  /\ \A i \in 1 .. Len(own) : own[i] = lines[i + b]

CallsAfter(lines, b) == {i \in Actions(lines) : i > b}

LEMMA RestIs ==
    ASSUME NEW lines \in Seq(LineKinds), NEW b \in Nat, b <= Len(lines),
           NEW own, own = SubSeq(lines, b + 1, Len(lines))
    PROVE  IsRest(own, lines, b)
<1>1. own \in Seq(LineKinds)
  OBVIOUS
<1>2. Len(own) \in Nat /\ DOMAIN own = 1 .. Len(own)
  BY <1>1
<1>3. Len(own) = Len(lines) - b
  <2>1. Len(lines) \in Nat
    OBVIOUS
  <2>2. CASE b = Len(lines)
    <3>1. Len(own) = 0
      BY <2>1, <2>2
    <3> QED
      BY <2>1, <2>2, <3>1
  <2>3. CASE b < Len(lines)
    <3>1. Len(own) = Len(lines) - (b + 1) + 1
      BY <2>1, <2>3
    <3> QED
      BY ONLY <2>1, <3>1, b \in Nat
  <2> QED
    BY <2>1, <2>2, <2>3
<1>4. ASSUME NEW i \in 1 .. Len(own) PROVE own[i] = lines[i + b]
  <2>1. own[i] = lines[(b + 1) + i - 1]
    BY <1>3
  <2>2. (b + 1) + i - 1 = i + b
    BY <1>2
  <2> QED
    BY <2>1, <2>2
<1> QED
  BY <1>1, <1>2, <1>3, <1>4 DEF IsRest

\* The calls of the lines after the b-th, counted in the whole and on their own.
LEMMA OwnCalls ==
    ASSUME NEW lines \in Seq(LineKinds), NEW b, NEW own, IsRest(own, lines, b),
           NEW A, A = CallsAfter(lines, b)
    PROVE  /\ A \subseteq 1 .. Len(lines) /\ Calls(own) \subseteq 1 .. Len(own)
           /\ \A i \in Calls(own) : i + b \in A
           /\ \A j \in A : j - b \in Calls(own)
           /\ Cardinality(A) = Cardinality(Calls(own))
<1> b \in Nat /\ b <= Len(lines) /\ own \in Seq(LineKinds)
    /\ Len(own) = Len(lines) - b /\ \A i \in 1 .. Len(own) : own[i] = lines[i + b]
  BY DEF IsRest
<1> A = {i \in Actions(lines) : i > b}
  BY DEF CallsAfter
<1>1. /\ Len(lines) \in Nat /\ DOMAIN lines = 1 .. Len(lines)
      /\ Len(own) \in Nat /\ DOMAIN own = 1 .. Len(own)
  OBVIOUS
<1>2. \A i \in 1 .. Len(own) : i + b \in 1 .. Len(lines) /\ i + b > b
  BY <1>1
<1>3. \A j \in 1 .. Len(lines) :
        j > b => j - b \in 1 .. Len(own) /\ (j - b) + b = j
  BY <1>1
<1>4. A \subseteq 1 .. Len(lines) /\ Calls(own) \subseteq 1 .. Len(own)
  BY <1>1 DEF Actions, Calls, Of
<1>5. \A i \in Calls(own) : i + b \in A
  BY <1>1, <1>2 DEF Calls, Of, Actions
<1>6. ASSUME NEW j \in A PROVE j - b \in Calls(own)
  <2>1. j \in 1 .. Len(lines) /\ j > b /\ lines[j] = "call"
    BY <1>1 DEF Actions
  <2>2. own[j - b] = lines[j] /\ j - b \in 1 .. Len(own)
    BY <1>3, <2>1
  <2> QED
    BY <1>1, <2>1, <2>2 DEF Calls, Of
<1>7. Cardinality(A) = Cardinality(Calls(own))
  <2>1. A \subseteq Nat
    BY <1>1, <1>4
  <2>2. \A j \in A : j - b \in Calls(own)
    BY <1>6
  <2> QED
    BY ONLY <1>1, <1>4, <1>5, <2>1, <2>2, b \in Nat, Moved, Zenon
<1> QED
  BY <1>4, <1>5, <1>6, <1>7

\* The results of a call, and the last of them.
LEMMA ResultsAre ==
    ASSUME NEW lines \in Seq(LineKinds), NEW i
    PROVE  /\ Results(lines, i) \subseteq 1 .. Len(lines)
           /\ Results(lines, i) # {} =>
                /\ Max(Results(lines, i)) \in Results(lines, i)
                /\ \A j \in Results(lines, i) : j <= Max(Results(lines, i))
<1>1. Results(lines, i) \subseteq 1 .. Len(lines) /\ Len(lines) \in Nat
  BY DEF Results
<1>2. Results(lines, i) \subseteq Nat /\ \A j \in Results(lines, i) : j <= Len(lines)
  BY <1>1
<1> QED
  BY <1>1, <1>2, MaxIsGreatest

\* A call of the lines after the b-th failed there if it did to the worker.
LEMMA OwnFailed ==
    ASSUME NEW lines \in Seq(LineKinds), NEW b, NEW own, IsRest(own, lines, b),
           NEW A, A = CallsAfter(lines, b),
           NEW F, F = Ended("error", lines, A)
    PROVE  /\ F \subseteq A /\ Failed(own) \subseteq Calls(own)
           /\ \A i \in Failed(own) : i + b \in F
           /\ \A i \in F : i - b \in Failed(own)
           /\ Cardinality(F) = Cardinality(Failed(own))
<1> b \in Nat /\ b <= Len(lines) /\ own \in Seq(LineKinds)
    /\ Len(own) = Len(lines) - b /\ \A i \in 1 .. Len(own) : own[i] = lines[i + b]
  BY DEF IsRest
<1>1. /\ Len(lines) \in Nat /\ DOMAIN lines = 1 .. Len(lines)
      /\ Len(own) \in Nat /\ DOMAIN own = 1 .. Len(own)
  OBVIOUS
<1>2. /\ A \subseteq 1 .. Len(lines) /\ Calls(own) \subseteq 1 .. Len(own)
      /\ \A i \in Calls(own) : i + b \in A
      /\ \A j \in A : j - b \in Calls(own)
  BY OwnCalls
<1>3. F \subseteq A /\ Failed(own) \subseteq Calls(own)
  BY DEF Ended, Failed
<1>4. A \subseteq Actions(lines) /\ \A i \in Actions(lines) : i > b => i \in A
  BY DEF CallsAfter
<1>5. \A kind : \A j \in Of(kind, own) :
        /\ j \in 1 .. Len(own) /\ j + b \in 1 .. Len(lines) /\ lines[j + b] = kind
  BY <1>1 DEF Of
<1>6. \A j \in 1 .. Len(lines) : j > b => j - b \in Of(lines[j], own)
  BY <1>1 DEF Of
<1>7. Actions(lines) \subseteq 1 .. Len(lines)
      /\ \A k \in Actions(lines) : lines[k] = "call"
  BY <1>1 DEF Actions
<1>8. ASSUME NEW i \in Failed(own) PROVE i + b \in F
  <2>1. PICK j \in Of("error", own) :
          /\ i < j /\ \A k \in Calls(own) : ~(i < k /\ k < j)
          /\ \A k \in Of("ok", own) :
               j < k => \E l \in Calls(own) : j < l /\ l < k
    BY DEF Failed
  <2> DEFINE R == Results(lines, i + b)
  <2>2. i \in Nat /\ j \in Nat /\ i + b \in A /\ i + b > b
    BY <1>1, <1>2, <1>3, <1>5
  <2>3. ASSUME NEW k \in Actions(lines), ~(k <= i + b) PROVE j + b < k
    <3>1. k \in Nat /\ k > b /\ k \in A
      BY <1>4, <1>7, <2>2, <2>3
    <3>2. k - b \in Calls(own) /\ i < k - b
      BY <1>2, <2>2, <2>3, <3>1
    <3>3. k # j + b
      BY <1>5, <1>7
    <3> QED
      BY <2>1, <2>2, <3>1, <3>2, <3>3
  <2>4. j + b \in R
    <3>1. j + b \in DOMAIN lines /\ lines[j + b] = "error"
      BY <1>1, <1>5
    <3>2. i + b < j + b
      BY <2>1, <2>2
    <3> QED
      BY <2>3, <3>1, <3>2 DEF Results
  <2>5. PICK m \in R : m = Max(R) /\ j + b <= m
    BY <2>4, ResultsAre
  <2>6. m \in 1 .. Len(lines) /\ lines[m] \in {"ok", "error"}
        /\ \A k \in Actions(lines) : k <= i + b \/ m < k
    BY <1>1 DEF Results
  <2>7. ASSUME lines[m] = "ok" PROVE FALSE
    <3>1. m # j + b /\ m \in Nat
      BY <1>5, <2>6, <2>7
    <3>2. m > b /\ m - b \in Of("ok", own) /\ j < m - b
      BY <1>6, <2>2, <2>5, <2>6, <2>7, <3>1
    <3>3. PICK l \in Calls(own) : j < l /\ l < m - b
      BY <2>1, <3>2
    <3>4. l \in Nat /\ l + b \in Actions(lines)
      BY <1>2, <1>4, <3>3
    <3>5. l + b > i + b /\ l + b < m
      BY <2>1, <2>2, <3>1, <3>3, <3>4
    <3> QED
      BY <2>2, <2>6, <3>1, <3>4, <3>5
  <2>8. lines[m] = "error"
    BY <2>6, <2>7
  <2>9. R # {} /\ lines[Max(R)] = "error"
    BY <2>5, <2>8
  <2> QED
    BY <2>2, <2>9 DEF Ended
<1>9. ASSUME NEW i \in F PROVE i - b \in Failed(own)
  <2> DEFINE R == Results(lines, i)
  <2>1. i \in A /\ R # {} /\ lines[Max(R)] = "error"
    BY DEF Ended
  <2>2. PICK m \in R : m = Max(R) /\ \A j \in R : j <= m
    BY <2>1, ResultsAre
  <2>3. /\ m \in 1 .. Len(lines) /\ lines[m] = "error" /\ i < m
        /\ \A k \in Actions(lines) : k <= i \/ m < k
    BY <1>1, <2>1, <2>2 DEF Results
  <2>4. i \in Nat /\ i > b /\ i - b \in Calls(own) /\ m \in Nat
    BY <1>1, <1>2, <2>1, <2>3 DEF CallsAfter
  <2>5. m - b \in Of("error", own) /\ i - b < m - b
    BY <1>6, <2>3, <2>4
  <2>6. ASSUME NEW k \in Calls(own), i - b < k, k < m - b PROVE FALSE
    <3>1. k \in Nat /\ k + b \in Actions(lines)
      BY <1>2, <1>4
    <3>2. i < k + b /\ k + b < m
      BY <2>4, <2>6, <3>1
    <3>3. k + b <= i \/ m < k + b
      BY ONLY <2>3, <3>1
    <3> QED
      BY ONLY <2>4, <3>1, <3>2, <3>3, i \in Nat, b \in Nat
  <2>7. ASSUME NEW k \in Of("ok", own), m - b < k,
               ~ \E l \in Calls(own) : m - b < l /\ l < k
        PROVE  FALSE
    <3>1. k \in Nat /\ k + b \in DOMAIN lines /\ lines[k + b] = "ok"
      BY <1>1, <1>5
    <3>2. i < k + b /\ m < k + b
      BY <2>3, <2>4, <2>7, <3>1
    <3>3. ASSUME NEW c \in Actions(lines), ~(c <= i) PROVE k + b < c
      <4>1. c \in Nat /\ m < c /\ c # k + b
        BY <1>7, <2>3, <3>1, <3>3
      <4>2. c > b /\ c - b \in Calls(own) /\ m - b < c - b
        BY <1>2, <1>4, <2>4, <3>3, <4>1
      <4>3. ~(c - b < k)
        BY <2>7, <4>2
      <4> QED
        BY <3>1, <4>1, <4>3
    <3>4. k + b \in R
      BY <3>1, <3>2, <3>3 DEF Results
    <3> QED
      BY <2>2, <2>4, <3>1, <3>2, <3>4
  <2> QED
    BY <2>4, <2>5, <2>6, <2>7 DEF Failed
<1>10. Cardinality(F) = Cardinality(Failed(own))
  <2>1. Failed(own) \subseteq 1 .. Len(own) /\ F \subseteq Nat
    BY <1>1, <1>2, <1>3
  <2>2. \A i \in Failed(own) : i + b \in F
    BY <1>8
  <2>3. \A i \in F : i - b \in Failed(own)
    BY <1>9
  <2> QED
    BY ONLY <1>1, <2>1, <2>2, <2>3, b \in Nat, Moved, Zenon
<1> QED
  BY <1>3, <1>8, <1>9, <1>10

\* The usage reported in the lines after the b-th.
LEMMA OwnUsage ==
    ASSUME NEW lines \in Seq(LineKinds), NEW base \in Seq(LineKinds),
           NEW b, b = Len(base), IsPrefix(base, lines),
           NEW own, IsRest(own, lines, b)
    PROVE  Count("usage", lines) - Count("usage", base) = Cardinality(Of("usage", own))
<1> b \in Nat /\ b <= Len(lines) /\ own \in Seq(LineKinds)
    /\ Len(own) = Len(lines) - b /\ \A i \in 1 .. Len(own) : own[i] = lines[i + b]
  BY DEF IsRest
<1>1. /\ Len(lines) \in Nat /\ DOMAIN lines = 1 .. Len(lines)
      /\ Len(own) \in Nat /\ DOMAIN own = 1 .. Len(own)
      /\ DOMAIN base = 1 .. b
  OBVIOUS
<1>2. b <= Len(lines) /\ \A i \in 1 .. b : base[i] = lines[i]
  BY PrefixIs
<1> PICK old : old = Of("usage", base)
  OBVIOUS
<1> PICK new : new = {j \in Of("usage", lines) : j > b}
  OBVIOUS
<1>3. old \subseteq 1 .. b /\ new \subseteq 1 .. Len(lines) /\ old \cap new = {}
  <2>1. old \subseteq 1 .. b
    BY <1>1 DEF Of
  <2>2. new \subseteq 1 .. Len(lines) /\ \A j \in new : j > b
    BY <1>1 DEF Of
  <2> QED
    BY <2>1, <2>2
<1>4. Of("usage", lines) = old \cup new
  <2>1. \A i \in 1 .. b : i \in old <=> i \in Of("usage", lines)
    BY <1>1, <1>2 DEF Of
  <2>2. \A i \in Of("usage", lines) : i \in 1 .. Len(lines)
    BY <1>1 DEF Of
  <2>3. \A i \in Of("usage", lines) : i \in old \/ i \in new
    BY <1>1, <2>1, <2>2
  <2> QED
    BY <1>3, <2>1, <2>3
<1>5. Of("usage", own) \subseteq 1 .. Len(own)
  BY <1>1 DEF Of
<1>6. Cardinality(new) = Cardinality(Of("usage", own))
  <2>1. \A i \in 1 .. Len(own) : i + b \in 1 .. Len(lines) /\ i + b > b
    BY <1>1
  <2>2. \A j \in 1 .. Len(lines) :
          j > b => j - b \in 1 .. Len(own) /\ (j - b) + b = j
    BY <1>1
  <2>3. \A i \in Of("usage", own) : i + b \in new
    BY <1>1, <2>1 DEF Of
  <2>4. \A j \in new : j - b \in Of("usage", own)
    <3>1. SUFFICES ASSUME NEW j \in new PROVE j - b \in Of("usage", own)
      OBVIOUS
    <3>2. j \in 1 .. Len(lines) /\ j > b /\ lines[j] = "usage"
      BY <1>1 DEF Of
    <3>3. j - b \in 1 .. Len(own) /\ own[j - b] = lines[j]
      BY <2>2, <3>2
    <3> QED
      BY <1>1, <3>2, <3>3 DEF Of
  <2>5. new \subseteq Nat
    BY <1>3
  <2> QED
    BY ONLY <1>1, <1>5, <2>3, <2>4, <2>5, b \in Nat, Moved, Zenon
<1>7. /\ IsFiniteSet(old) /\ Cardinality(old) \in Nat
      /\ IsFiniteSet(new) /\ Cardinality(new) \in Nat
  BY <1>1, <1>3, Sized
<1>8. Cardinality(old \cup new) = Cardinality(old) + Cardinality(new)
  <2>1. Cardinality(old \cap new) = 0
    BY <1>3, FS_EmptySet
  <2>2. Cardinality(old \cup new)
          = Cardinality(old) + Cardinality(new) - Cardinality(old \cap new)
    BY <1>7, FS_Union
  <2> QED
    BY <1>7, <2>1, <2>2
<1>9. /\ Count("usage", lines) = Cardinality(old) + Cardinality(new)
      /\ Count("usage", base) = Cardinality(old)
  <2>1. Count("usage", lines) = Cardinality(old \cup new)
    BY <1>4 DEF Count, Of
  <2>2. Count("usage", base) = Cardinality(old)
    BY DEF Count, Of
  <2> QED
    BY <1>8, <2>1, <2>2
<1> QED
  BY <1>6, <1>7, <1>9

\* A row of failed calls is one to the worker.
LEMMA OwnRow ==
    ASSUME NEW lines \in Seq(LineKinds), NEW b, NEW own, IsRest(own, lines, b),
           NEW A, A = CallsAfter(lines, b),
           NEW n \in Nat, FailedRow(own, n)
    PROVE  n <= Streak(Ended("error", lines, A), A)
<1> b \in Nat
  BY DEF IsRest
<1>1. /\ A \subseteq 1 .. Len(lines) /\ Calls(own) \subseteq 1 .. Len(own)
      /\ \A i \in Calls(own) : i + b \in A
      /\ \A j \in A : j - b \in Calls(own)
      /\ \A i \in Failed(own) : i + b \in Ended("error", lines, A)
  BY OwnCalls, OwnFailed
<1> Len(lines) \in Nat /\ Len(own) \in Nat
  BY DEF IsRest
<1>2. PICK first \in Calls(own), last \in Calls(own) :
        /\ Cardinality(Row(Calls(own), first, last)) = n
        /\ Row(Calls(own), first, last) \subseteq Failed(own)
  BY DEF FailedRow, Row
<1> PICK row : row = Row(Calls(own), first, last)
  OBVIOUS
<1> PICK moved : moved = Row(A, first + b, last + b)
  OBVIOUS
<1>3. /\ row \subseteq 1 .. Len(own) /\ moved \subseteq Nat /\ moved \subseteq A
  BY <1>1 DEF Row
<1>4. first \in Nat /\ last \in Nat
  BY <1>1
<1>5. ASSUME NEW i \in row PROVE i + b \in moved
  <2>1. i \in Calls(own) /\ first <= i /\ i <= last /\ i \in Nat
    BY <1>3 DEF Row
  <2>2. first + b <= i + b /\ i + b <= last + b
    BY <1>4, <2>1
  <2> QED
    BY <1>1, <2>1, <2>2 DEF Row
<1>6. ASSUME NEW j \in moved PROVE j - b \in row /\ (j - b) + b = j
  <2>1. j \in A /\ first + b <= j /\ j <= last + b /\ j \in Nat
    BY <1>3 DEF Row
  <2>2. first <= j - b /\ j - b <= last /\ (j - b) + b = j
    BY <1>4, <2>1
  <2> QED
    BY <1>1, <2>1, <2>2 DEF Row
<1>7. Cardinality(moved) = Cardinality(row)
  <2>1. \A i \in row : i + b \in moved
    BY <1>5
  <2>2. \A j \in moved : j - b \in row
    BY <1>6
  <2> QED
    BY ONLY <1>3, <2>1, <2>2, b \in Nat, Len(own) \in Nat, Moved, Zenon
<1>8. moved \subseteq Ended("error", lines, A)
  BY <1>1, <1>2, <1>6
<1>9. first + b \in A /\ last + b \in A
  BY <1>1
<1>10. Cardinality(Row(A, first + b, last + b)) <= Streak(Ended("error", lines, A), A)
  BY <1>1, <1>8, <1>9, StreakIs
<1> QED
  BY <1>2, <1>7, <1>10

\* What a transcript's limits say of the lines after its first ones is what the
\* worker counts.
LEMMA WithinIs ==
    ASSUME NEW base \in Seq(LineKinds), NEW lines \in Seq(LineKinds),
           IsPrefix(base, lines),
           NEW A, A = Slice(Actions(lines), Cardinality(Actions(base))),
           NEW m, m = Metrics(lines, A),
           Limits.calls # None => m.calls <= Limits.calls,
           Limits.failed # None => m.failed <= Limits.failed,
           Limits.identical # None => m.identical <= Limits.identical,
           Limits.streak # None => m.streak <= Limits.streak,
           Limits.tokens # None =>
             /\ Of("usage", lines) # {}
             /\ Count("usage", lines) - Count("usage", base) <= Limits.tokens
    PROVE  Within(lines, base)
<1> PICK b \in Nat : b = Len(base)
  BY PrefixIs
<1> PICK own : own = SubSeq(lines, b + 1, Len(lines))
  OBVIOUS
<1>1. b <= Len(lines) /\ Len(lines) \in Nat
  BY PrefixIs
<1>2. IsRest(own, lines, b)
  BY <1>1, RestIs
<1>3. A = CallsAfter(lines, b)
  BY SliceIsOwn DEF CallsAfter
<1>4. A \subseteq 1 .. Len(lines)
  BY <1>2, <1>3, OwnCalls
<1>5. m.calls = Cardinality(Calls(own)) /\ m.identical = Cardinality(Calls(own))
  BY <1>1, <1>2, <1>3, <1>4, OwnCalls, MetricsAre
<1>6. m.failed = Cardinality(Failed(own))
  <2>1. m.failed = Cardinality(Ended("error", lines, A))
    BY <1>1, <1>4, MetricsAre
  <2> QED
    BY <1>2, <1>3, <2>1, OwnFailed
<1>8. m \in Numbers /\ m.streak = Streak(Ended("error", lines, A), A)
  BY <1>1, <1>4, MetricsAre
<1>9. Count("usage", lines) - Count("usage", base) = Cardinality(Of("usage", own))
  BY <1>2, OwnUsage
<1>10. ASSUME Limits.streak # None PROVE ~FailedRow(own, Limits.streak + 1)
  <2>1. Limits.streak \in Nat /\ m.streak \in Nat /\ m.streak <= Limits.streak
    BY <1>8, <1>10, TelemetryAssumption DEF Numbers
  <2>2. ASSUME FailedRow(own, Limits.streak + 1) PROVE FALSE
    <3>1. Limits.streak + 1 <= Streak(Ended("error", lines, A), A)
      BY <1>2, <1>3, <2>1, <2>2, OwnRow
    <3> QED
      BY <1>8, <2>1, <3>1
  <2> QED
    BY <2>2
<1> QED
  BY <1>5, <1>6, <1>9, <1>10 DEF Within

-----------------------------------------------------------------------------
(* What the worker does to its state.                                       *)

Grows(c, d) ==
  /\ c.breach # "none" => d.breach # "none"
  /\ c.completed \subseteq d.completed
  /\ \A number \in {"calls", "identical"} :
       d.metrics[number] >= c.metrics[number]

\* Whatever is counted is a number.
LEMMA CountIs ==
    ASSUME NEW lines \in Seq(LineKinds)
    PROVE  /\ \A kind : /\ Count(kind, lines) \in Nat
                        /\ Count(kind, lines) = Cardinality(Of(kind, lines))
           /\ \A kind : Count(kind, lines) = 0 <=> Of(kind, lines) = {}
           /\ \A n : /\ Slice(Actions(lines), n) \subseteq 1 .. Len(lines)
                     /\ Metrics(lines, Slice(Actions(lines), n)) \in Numbers
           /\ Cardinality(Actions(lines)) \in Nat
<1>1. Len(lines) \in Nat /\ DOMAIN lines = 1 .. Len(lines)
  OBVIOUS
<1>2. \A kind : Of(kind, lines) \subseteq 1 .. Len(lines)
  BY <1>1 DEF Of
<1>3. \A n : Slice(Actions(lines), n) \subseteq 1 .. Len(lines)
  BY <1>1 DEF Slice, Actions
<1>4. Actions(lines) \subseteq 1 .. Len(lines)
  BY <1>1 DEF Actions
<1>5. \A kind : Count(kind, lines) = Cardinality(Of(kind, lines))
  BY DEF Count, Of
<1> QED
  BY <1>1, <1>2, <1>3, <1>4, <1>5, Sized, MetricsAre

\* Before anything was counted there is nothing to count.
LEMMA NothingOwn ==
    ASSUME NEW base \in Seq(LineKinds)
    PROVE  /\ Slice(Actions(base), Cardinality(Actions(base))) = {}
           /\ Metrics(base, {}) = Metrics(<<>>, {})
           /\ Metrics(base, {}) \in Numbers
<1>1. Slice(Actions(base), Cardinality(Actions(base))) = {}
  <2>1. IsPrefix(base, base)
    BY PrefixOrder
  <2>2. Slice(Actions(base), Cardinality(Actions(base)))
          = {i \in Actions(base) : i > Len(base)}
    BY <2>1, SliceIsOwn
  <2>3. Len(base) \in Nat /\ Actions(base) \subseteq 1 .. Len(base)
    BY DEF Actions
  <2> QED
    BY <2>2, <2>3
<1>2. ASSUME NEW lines PROVE Ended("error", lines, {}) = {}
  BY DEF Ended
<1>3. Metrics(base, {}) = Metrics(<<>>, {})
  BY <1>2 DEF Metrics
<1>5. Metrics(base, {}) \in Numbers
  <2>1. {} \subseteq 1 .. 0 /\ 0 \in Nat
    OBVIOUS
  <2> QED
    BY <2>1, MetricsAre
<1> QED
  BY <1>1, <1>3, <1>5

LEMMA ReadableIs ==
    ASSUME NEW raw \in Transcripts
    PROVE  Readable(raw) <=> Whole(raw.lines) /\ (raw.tail => raw.lines # <<>>)
  BY DEF Readable, Whole

LEMMA WholePrefix ==
    ASSUME NEW s \in Seq(LineKinds), NEW t \in Seq(LineKinds), IsPrefix(s, t), Whole(t)
    PROVE  Whole(s)
  BY PrefixIs DEF Whole

\* updateParsed keeps the numbers those of what was parsed, and lowers none.
LEMMA ParsedKeeps ==
    ASSUME NEW c \in Cores, NEW base \in Transcripts, NEW raw \in Transcripts,
           NEW t \in Nat, Based(c, base), Numbered(c, base), c.breach = "none",
           IsPrefix(Seen(c, base).lines, raw.lines),
           NEW d, d = Parsed(c, raw, t)
    PROVE  /\ d \in Cores /\ Based(d, base) /\ Numbered(d, base) /\ Grows(c, d)
           /\ d.latest = raw /\ d.known = c.known /\ d.previous = c.previous
           /\ d.captured = c.captured /\ d.dirty = c.dirty
<1>own. PICK own : own = Slice(Actions(raw.lines), c.baseCalls)
  OBVIOUS
<1>done. PICK done : done = Ended("ok", raw.lines, own)
  OBVIOUS
<1>seen. PICK seen : seen = [c EXCEPT !.latest = raw]
  OBVIOUS
<1>status. PICK status : status = IF raw.tail THEN "PARTIAL" ELSE "READY"
  OBVIOUS
<1>since. PICK since : since = IF ~raw.tail THEN None
                         ELSE IF seen.partialSince = None THEN t ELSE seen.partialSince
  OBVIOUS
<1>good. PICK good : good = [seen EXCEPT !.status = status, !.partialSince = since,
                                    !.errorSince = None]
  OBVIOUS
<1>broken. PICK broken : /\ broken = "TELEMETRY_INTEGRITY" /\ broken \in Breaches
                         /\ broken # "none"
  BY DEF Breaches
<1>old. PICK old \in Seq(LineKinds) : old = Seen(c, base).lines
  BY DEF Seen, Cores, Transcripts
<1>1. /\ raw.lines \in Seq(LineKinds) /\ None # raw /\ None \notin Nat
      /\ own \subseteq 1 .. Len(raw.lines) /\ Metrics(raw.lines, own) \in Numbers
      /\ Count("usage", raw.lines) \in Nat /\ Len(raw.lines) \in Nat
  BY <1>own, CountIs, TelemetryAssumption DEF Transcripts
<1>2. done \subseteq Nat
  <2>1. done \subseteq own
    BY <1>done DEF Ended
  <2> QED
    BY <1>1, <2>1
<1>3. ASSUME Whole(raw.lines)
      PROVE  /\ c.metrics = Metrics(old, Slice(Actions(old), c.baseCalls))
             /\ \A number \in {"calls", "identical"} :
                  Metrics(raw.lines, own)[number] >= c.metrics[number]
  <2>1. Whole(old)
    BY <1>1, <1>3, <1>old, WholePrefix
  <2>2. c.metrics = Metrics(old, Slice(Actions(old), c.baseCalls))
    BY <1>old, <2>1 DEF Numbered, Counted
  <2>3. c.baseCalls \in Nat
    BY DEF Cores
  <2> QED
    BY <1>1, <1>old, <1>own, <2>2, <2>3, MetricsGrow
<1>4. /\ seen \in Cores /\ seen.latest = raw /\ seen.known = c.known
      /\ seen.previous = c.previous /\ seen.captured = c.captured
      /\ seen.dirty = c.dirty /\ seen.metrics = c.metrics /\ seen.tokens = c.tokens
      /\ seen.completed = c.completed /\ seen.baseCalls = c.baseCalls
      /\ seen.baseTokens = c.baseTokens /\ seen.breach = c.breach
      /\ seen.errorSince = c.errorSince /\ seen.partialSince = c.partialSince
  BY <1>seen DEF Cores
<1>5. /\ good \in Cores /\ good.latest = raw /\ good.known = c.known
      /\ good.previous = c.previous /\ good.captured = c.captured
      /\ good.dirty = c.dirty /\ good.metrics = c.metrics /\ good.tokens = c.tokens
      /\ good.completed = c.completed /\ good.baseCalls = c.baseCalls
      /\ good.baseTokens = c.baseTokens /\ good.breach = c.breach
      /\ good.errorSince = None /\ (good.partialSince = None => ~raw.tail)
      /\ good.status # "UNREADABLE"
  <2>1. status \in {"PARTIAL", "READY"}
    BY <1>status
  <2>2. since \in Nat \cup {None} /\ (since = None => ~raw.tail)
    BY <1>1, <1>4, <1>since DEF Cores
  <2> QED
    BY ONLY <1>4, <1>good, <2>1, <2>2 DEF Cores
<1>6. CASE c.latest = raw
  <2>1. d = c
    BY <1>6 DEF Parsed
  <2> QED
    BY <1>6, <2>1 DEF Grows, Cores, Numbers
<1>7. CASE c.latest # raw /\ ~Readable(raw)
  <2>1. d = Unreadable(seen, t)
    BY <1>7, <1>seen DEF Parsed
  <2>2. /\ d \in Cores /\ d.latest = raw /\ d.known = c.known
        /\ d.previous = c.previous /\ d.captured = c.captured
        /\ d.dirty = c.dirty /\ d.metrics = c.metrics /\ d.tokens = c.tokens
        /\ d.completed = c.completed /\ d.baseCalls = c.baseCalls
        /\ d.baseTokens = c.baseTokens /\ d.breach = c.breach
        /\ d.errorSince # None
    <3> PICK e : e = IF seen.errorSince = None THEN t ELSE seen.errorSince
      OBVIOUS
    <3>1. e \in Nat /\ e # None
      BY <1>1, <1>4 DEF Cores
    <3>2. d = [seen EXCEPT !.status = "UNREADABLE", !.errorSince = e]
      BY <1>4, <2>1 DEF Unreadable, Cores
    <3> QED
      BY ONLY <1>4, <3>1, <3>2 DEF Cores
  <2>3. ASSUME Whole(raw.lines) PROVE Counted(d, raw.lines)
    <3>1. raw.lines = <<>> /\ Len(raw.lines) = 0
      BY <1>1, <1>7, <2>3, ReadableIs
    <3>2. old = <<>>
      <4>1. Len(old) <= Len(raw.lines) /\ Len(old) \in Nat
        BY <1>1, <1>old, PrefixIs
      <4>2. Len(old) = 0
        BY <3>1, <4>1
      <4> QED
        BY <4>2
    <3>3. old = raw.lines /\ Whole(old)
      BY <2>3, <3>1, <3>2
    <3>4. Counted(c, old)
      BY <1>old, <3>3 DEF Numbered
    <3> QED
      BY <2>2, <3>3, <3>4 DEF Counted
  <2>4. Numbered(d, base)
    BY <1>1, <2>2, <2>3 DEF Numbered, Seen
  <2>5. Based(d, base)
    BY <2>2 DEF Based
  <2>6. Grows(c, d)
    BY <2>2 DEF Grows, Cores, Numbers
  <2> QED
    BY <2>2, <2>4, <2>5, <2>6
<1>8. CASE /\ c.latest # raw /\ Readable(raw)
           /\ Cardinality(Actions(raw.lines)) < c.baseCalls
  <2>1. d = Broken(good)
    BY <1>8, <1>seen, <1>status, <1>since, <1>good DEF Parsed
  <2>2. /\ d \in Cores /\ d.latest = raw /\ d.known = c.known
        /\ d.previous = c.previous /\ d.captured = c.captured
        /\ d.dirty = c.dirty /\ d.metrics = c.metrics
        /\ d.completed = c.completed /\ d.baseCalls = c.baseCalls
        /\ d.baseTokens = c.baseTokens /\ d.breach # "none"
    <3>1. d = [good EXCEPT !.breach = broken]
      BY <1>broken, <2>1 DEF Broken
    <3> QED
      BY ONLY <1>5, <1>broken, <3>1 DEF Cores
  <2> QED
    BY <2>2 DEF Numbered, Based, Grows, Cores, Numbers
<1>9. CASE /\ c.latest # raw /\ Readable(raw)
           /\ ~(Cardinality(Actions(raw.lines)) < c.baseCalls)
           /\ Usage(raw.lines) # None /\ Usage(raw.lines) < c.baseTokens
  <2>1. d = Broken([good EXCEPT !.metrics = Metrics(raw.lines, own)])
    BY <1>9, <1>own, <1>seen, <1>status, <1>since, <1>good DEF Parsed
  <2>2. /\ d \in Cores /\ d.latest = raw /\ d.known = c.known
        /\ d.previous = c.previous /\ d.captured = c.captured
        /\ d.dirty = c.dirty /\ d.metrics = Metrics(raw.lines, own)
        /\ d.completed = c.completed /\ d.baseCalls = c.baseCalls
        /\ d.baseTokens = c.baseTokens /\ d.breach # "none"
    <3> PICK numbers \in Numbers : numbers = Metrics(raw.lines, own)
      BY <1>1
    <3>1. d = [good EXCEPT !.metrics = numbers, !.breach = broken]
      BY <1>5, <1>broken, <2>1 DEF Broken, Cores
    <3> QED
      BY ONLY <1>5, <1>broken, <3>1, numbers \in Numbers,
              numbers = Metrics(raw.lines, own) DEF Cores
  <2>3. Whole(raw.lines)
    BY <1>9, ReadableIs
  <2> QED
    BY <1>3, <2>2, <2>3 DEF Numbered, Based, Grows, Cores
<1>10. CASE /\ c.latest # raw /\ Readable(raw)
            /\ ~(Cardinality(Actions(raw.lines)) < c.baseCalls)
            /\ ~(Usage(raw.lines) # None /\ Usage(raw.lines) < c.baseTokens)
  <2>tokens. PICK tokens : tokens = IF Usage(raw.lines) = None THEN None
                             ELSE Usage(raw.lines) - c.baseTokens
    OBVIOUS
  <2>most. PICK most : most = c.completed \cup done
    OBVIOUS
  <2>1. /\ tokens \in Nat \cup {None}
        /\ tokens # None =>
             /\ Of("usage", raw.lines) # {}
             /\ tokens = Count("usage", raw.lines) - c.baseTokens
    <3>1. c.baseTokens \in Nat
      BY DEF Cores
    <3>2. CASE Count("usage", raw.lines) = 0
      BY <2>tokens, <3>2 DEF Usage
    <3>3. CASE Count("usage", raw.lines) # 0
      <4>1. Usage(raw.lines) = Count("usage", raw.lines) /\ Usage(raw.lines) # None
        BY <1>1, <3>3 DEF Usage
      <4>2. Of("usage", raw.lines) # {}
        BY <1>1, <3>3, CountIs
      <4> QED
        BY <1>1, <1>10, <2>tokens, <3>1, <4>1, <4>2
    <3> QED
      BY <3>2, <3>3
  <2>2. most \in SUBSET Nat /\ c.completed \subseteq most
    BY <1>2, <2>most DEF Cores
  <2>at. PICK at : at = IF done \subseteq good.completed THEN good.progressAt ELSE t
    OBVIOUS
  <2>3. at \in Nat
    BY <1>5, <2>at DEF Cores
  <2>4. d = [good EXCEPT !.metrics = Metrics(raw.lines, own), !.tokens = tokens,
                         !.completed = most, !.progressAt = at]
    BY <1>5, <1>10, <1>own, <1>done, <1>seen, <1>status, <1>since, <1>good, <2>tokens,
       <2>most, <2>at DEF Parsed
  <2>5. /\ d \in Cores /\ d.latest = raw /\ d.known = c.known
        /\ d.previous = c.previous /\ d.captured = c.captured
        /\ d.dirty = c.dirty /\ d.metrics = Metrics(raw.lines, own)
        /\ d.tokens = tokens /\ d.completed = most /\ d.baseCalls = c.baseCalls
        /\ d.baseTokens = c.baseTokens /\ d.breach = c.breach
        /\ d.errorSince = None /\ (d.partialSince = None => ~raw.tail)
        /\ d.status # "UNREADABLE"
    <3> PICK numbers \in Numbers : numbers = Metrics(raw.lines, own)
      BY <1>1
    <3>1. d = [good EXCEPT !.metrics = numbers, !.tokens = tokens,
                           !.completed = most, !.progressAt = at]
      BY <2>4
    <3>2. tokens \in Nat \cup {None}
      BY <2>1
    <3>3. d \in Cores
      <4>1. PICK part : part = [good EXCEPT !.metrics = numbers, !.tokens = tokens]
        OBVIOUS
      <4>2. good \in Cores
        BY <1>5
      <4>3. part \in Cores
        BY ONLY <3>2, <4>1, <4>2, numbers \in Numbers DEF Cores
      <4>4. d = [part EXCEPT !.completed = most, !.progressAt = at]
        BY ONLY <3>1, <4>1, <4>2 DEF Cores
      <4>5. most \in SUBSET Nat /\ at \in Nat
        BY <2>2, <2>3
      <4> QED
        BY ONLY <4>3, <4>4, <4>5 DEF Cores
    <3>4. /\ d.latest = good.latest /\ d.known = good.known
          /\ d.previous = good.previous /\ d.captured = good.captured
          /\ d.dirty = good.dirty /\ d.metrics = numbers
          /\ d.tokens = tokens /\ d.completed = most /\ d.baseCalls = good.baseCalls
          /\ d.baseTokens = good.baseTokens /\ d.breach = good.breach
          /\ d.errorSince = good.errorSince /\ d.partialSince = good.partialSince
          /\ d.status = good.status
      BY ONLY <1>5, <3>1 DEF Cores
    <3> QED
      BY <1>5, <3>3, <3>4
  <2>6. Whole(raw.lines)
    BY <1>10, ReadableIs
  <2>7. Counted(d, raw.lines)
    BY <1>own, <2>1, <2>5 DEF Counted
  <2>8. Numbered(d, base)
    BY <1>1, <2>5, <2>6, <2>7 DEF Numbered, Seen
  <2>9. Grows(c, d)
    BY <1>3, <2>2, <2>5, <2>6 DEF Grows
  <2>10. Based(d, base)
    BY <2>5 DEF Based
  <2> QED
    BY <2>5, <2>8, <2>9, <2>10
<1> QED
  BY <1>6, <1>7, <1>8, <1>9, <1>10

\* A breach ends what is known of the numbers, and changes none of them.
Preserves(c, d, base) ==
  /\ Based(c, base) => Based(d, base)
  /\ Numbered(c, base) => Numbered(d, base)
  /\ FollowsFile(c, base) => FollowsFile(d, base)
  /\ FollowsCaptured(c, base) => FollowsCaptured(d, base)

LEMMA BreachKeeps ==
    ASSUME NEW c \in Cores, NEW base \in Transcripts, NEW b \in Breaches,
           NEW d, d = [c EXCEPT !.breach = b]
    PROVE  /\ d \in Cores /\ Preserves(c, d, base) /\ Grows(c, d)
           /\ d.breach = b /\ b # "none"
<1>1. b # "none"
  BY DEF Breaches
<1>2. /\ d \in Cores /\ d.breach = b
      /\ d.latest = c.latest /\ d.known = c.known /\ d.previous = c.previous
      /\ d.captured = c.captured /\ d.dirty = c.dirty /\ d.metrics = c.metrics
      /\ d.completed = c.completed /\ d.baseCalls = c.baseCalls
      /\ d.baseTokens = c.baseTokens
  BY ONLY c \in Cores, b \in Breaches, d = [c EXCEPT !.breach = b] DEF Cores
<1>3. Based(c, base) => Based(d, base)
  BY <1>2 DEF Based
<1>4. Numbered(d, base)
  BY <1>1, <1>2 DEF Numbered
<1>5. FollowsFile(c, base) => FollowsFile(d, base)
  BY <1>1, <1>2 DEF FollowsFile, Seen
<1>6. FollowsCaptured(c, base) => FollowsCaptured(d, base)
  BY <1>2 DEF FollowsCaptured, Seen
<1>7. Grows(c, d)
  BY <1>1, <1>2 DEF Grows, Cores, Numbers
<1> QED
  BY <1>1, <1>2, <1>3, <1>4, <1>5, <1>6, <1>7 DEF Preserves

\* A transcript that is empty is waited for.
LEMMA WaitingKeeps ==
    ASSUME NEW c \in Cores, NEW base \in Transcripts,
           NEW d, d = [c EXCEPT !.status = "WAITING"]
    PROVE  /\ d \in Cores /\ Preserves(c, d, base) /\ Grows(c, d)
           /\ d.status = "WAITING" /\ d.latest = c.latest /\ d.known = c.known
           /\ d.previous = c.previous /\ d.captured = c.captured
           /\ d.dirty = c.dirty /\ d.breach = c.breach
           /\ d.errorSince = c.errorSince
<1>1. /\ d \in Cores /\ d.status = "WAITING"
      /\ d.latest = c.latest /\ d.known = c.known /\ d.previous = c.previous
      /\ d.captured = c.captured /\ d.dirty = c.dirty /\ d.metrics = c.metrics
      /\ d.completed = c.completed /\ d.baseCalls = c.baseCalls
      /\ d.baseTokens = c.baseTokens /\ d.breach = c.breach
      /\ d.errorSince = c.errorSince /\ d.partialSince = c.partialSince
      /\ d.tokens = c.tokens
  BY ONLY c \in Cores, d = [c EXCEPT !.status = "WAITING"] DEF Cores
<1>2. Based(c, base) => Based(d, base)
  BY <1>1 DEF Based
<1>3. Numbered(c, base) => Numbered(d, base)
  BY <1>1 DEF Numbered, Seen, Counted
<1>4. FollowsFile(c, base) => FollowsFile(d, base)
  BY <1>1 DEF FollowsFile, Seen
<1>5. FollowsCaptured(c, base) => FollowsCaptured(d, base)
  BY <1>1 DEF FollowsCaptured, Seen
<1>6. Grows(c, d)
  BY <1>1 DEF Grows, Cores, Numbers
<1> QED
  BY <1>1, <1>2, <1>3, <1>4, <1>5, <1>6 DEF Preserves

\* A file that changes while it is read is an error until it can be parsed.
LEMMA UnreadableKeeps ==
    ASSUME NEW c \in Cores, NEW base \in Transcripts, NEW t \in Nat,
           NEW d, d = Unreadable(c, t)
    PROVE  /\ d \in Cores /\ Preserves(c, d, base) /\ Grows(c, d)
           /\ d.errorSince # None
<1>1. None \notin Nat
  BY TelemetryAssumption
<1>2. PICK e : e = IF c.errorSince = None THEN t ELSE c.errorSince
  OBVIOUS
<1>3. e \in Nat /\ e # None
  BY <1>1, <1>2 DEF Cores
<1>4. d = [c EXCEPT !.status = "UNREADABLE", !.errorSince = e]
  BY <1>2 DEF Unreadable, Cores
<1>5. /\ d \in Cores /\ d.errorSince = e
      /\ d.latest = c.latest /\ d.known = c.known /\ d.previous = c.previous
      /\ d.captured = c.captured /\ d.dirty = c.dirty /\ d.metrics = c.metrics
      /\ d.completed = c.completed /\ d.baseCalls = c.baseCalls
      /\ d.baseTokens = c.baseTokens /\ d.breach = c.breach
      /\ d.tokens = c.tokens
  BY ONLY c \in Cores, <1>3, <1>4 DEF Cores
<1>6. Based(c, base) => Based(d, base)
  BY <1>5 DEF Based
<1>7. Numbered(c, base) => Numbered(d, base)
  BY <1>3, <1>5 DEF Numbered, Seen, Counted
<1>8. FollowsFile(c, base) => FollowsFile(d, base)
  BY <1>3, <1>5 DEF FollowsFile, Seen
<1>9. FollowsCaptured(c, base) => FollowsCaptured(d, base)
  BY <1>5 DEF FollowsCaptured, Seen
<1>10. Grows(c, d)
  BY <1>5 DEF Grows, Cores, Numbers
<1> QED
  BY <1>3, <1>5, <1>6, <1>7, <1>8, <1>9, <1>10 DEF Preserves

\* poll of the captured stdout.
LEMMA ReadCapturedKeeps ==
    ASSUME NEW c \in Cores, NEW base \in Transcripts, CoreInv(c, base, FALSE),
           c.breach = "none", NEW t \in Nat, NEW d, d = ReadCaptured(c, t)
    PROVE  /\ d \in Cores /\ CoreInv(d, base, FALSE) /\ Grows(c, d)
           /\ d.captured = c.captured
           /\ Seen(d, base) = c.captured
           /\ d.status # "WAITING" => Size(c.captured) > 0
<1>1. Based(c, base) /\ Numbered(c, base) /\ FollowsCaptured(c, base)
  BY DEF CoreInv
<1>2. c.captured \in Transcripts /\ c.dirty \in BOOLEAN
  BY DEF Cores
<1>3. Grows(c, c)
  BY DEF Grows, Cores, Numbers
<1>4. CASE c.dirty
  <2>1. PICK clean : clean = [c EXCEPT !.dirty = FALSE]
    OBVIOUS
  <2>2. /\ clean \in Cores /\ clean.dirty = FALSE
        /\ clean.latest = c.latest /\ clean.breach = c.breach
        /\ clean.captured = c.captured /\ clean.metrics = c.metrics
        /\ clean.completed = c.completed /\ clean.baseCalls = c.baseCalls
        /\ clean.baseTokens = c.baseTokens /\ clean.tokens = c.tokens
        /\ clean.errorSince = c.errorSince /\ clean.partialSince = c.partialSince
        /\ clean.status = c.status
    BY ONLY c \in Cores, <2>1 DEF Cores
  <2>3. Based(clean, base) /\ Numbered(clean, base)
    BY <1>1, <2>2 DEF Based, Numbered, Seen, Counted
  <2>4. IsPrefix(Seen(clean, base).lines, c.captured.lines)
    BY <1>1, <2>2 DEF FollowsCaptured, Seen
  <2>5. d = Parsed(clean, c.captured, t)
    BY <1>4, <2>1 DEF ReadCaptured
  <2>6. /\ d \in Cores /\ Based(d, base) /\ Numbered(d, base) /\ Grows(clean, d)
        /\ d.latest = c.captured /\ d.captured = c.captured /\ d.dirty = FALSE
    BY <1>2, <2>2, <2>3, <2>4, <2>5, ParsedKeeps
  <2>7. None # c.captured
    BY <1>2, TelemetryAssumption
  <2>8. Seen(d, base) = c.captured
    BY <2>6, <2>7 DEF Seen
  <2>9. IsPrefix(c.captured.lines, c.captured.lines)
    BY <1>2, PrefixOrder DEF Transcripts
  <2>10. FollowsCaptured(d, base)
    BY <1>1, <2>6, <2>8, <2>9 DEF FollowsCaptured
  <2>11. Grows(c, d)
    BY <2>2, <2>6 DEF Grows
  <2>12. Size(c.captured) > 0
    BY <1>1, <1>4 DEF FollowsCaptured
  <2> QED
    BY <2>6, <2>8, <2>10, <2>11, <2>12 DEF CoreInv
<1>5. CASE ~c.dirty /\ Size(c.captured) = 0
  <2>1. d = [c EXCEPT !.status = "WAITING"]
    BY <1>5 DEF ReadCaptured
  <2>2. /\ d \in Cores /\ CoreInv(d, base, FALSE) /\ Grows(c, d)
        /\ d.status = "WAITING" /\ d.latest = c.latest /\ d.captured = c.captured
    BY <1>1, <2>1, WaitingKeeps DEF CoreInv, Preserves
  <2>3. Seen(d, base) = c.captured
    BY <1>1, <1>5, <2>2 DEF FollowsCaptured, Seen
  <2> QED
    BY <2>2, <2>3
<1>6. CASE ~c.dirty /\ Size(c.captured) # 0
  <2>1. d = c
    BY <1>6 DEF ReadCaptured
  <2>2. Size(c.captured) > 0
    BY <1>2, <1>6, SizeIs
  <2>3. Seen(c, base) = c.captured
    BY <1>1, <1>6 DEF FollowsCaptured
  <2> QED
    BY <1>3, <2>1, <2>2, <2>3
<1> QED
  BY <1>2, <1>4, <1>5, <1>6

\* poll of the external file.
AsRead(c, f) ==
  /\ f.kind # "regular" => f.raw = Empty
  /\ c.known /\ f.kind = "regular" /\ ~f.touched => f.raw = c.previous

ReadsFile(c, f, t, d, g) ==
  \E torn \in BOOLEAN :
    /\ d = ReadExternal(c, f, torn, t)
    /\ g = IF torn \/ f.kind # "regular" THEN f
           ELSE [f EXCEPT !.touched = FALSE, !.replaced = FALSE]

Remembered(d, f, torn) ==
  d.breach = "none" /\ d.known /\ f.kind = "regular" /\ (~torn \/ ~f.touched)
    => f.raw = d.previous

LEMMA ReadExternalKeeps ==
    ASSUME NEW c \in Cores, NEW base \in Transcripts, CoreInv(c, base, TRUE),
           c.breach = "none", NEW t \in Nat, NEW f \in Files, AsRead(c, f),
           NEW d, NEW g, ReadsFile(c, f, t, d, g)
    PROVE  /\ d \in Cores /\ CoreInv(d, base, TRUE) /\ Grows(c, d)
           /\ d.breach = "none" /\ d.errorSince = None => Seen(d, base) = f.raw
           /\ d.breach = "none" /\ d.status # "WAITING" /\ d.errorSince = None =>
                Size(f.raw) > 0
           /\ g \in Files /\ g.raw = f.raw /\ g.kind = f.kind
           /\ d.breach = "none" => AsRead(d, g)
<1>a. PICK torn \in BOOLEAN :
        /\ d = ReadExternal(c, f, torn, t)
        /\ g = IF torn \/ f.kind # "regular" THEN f
               ELSE [f EXCEPT !.touched = FALSE, !.replaced = FALSE]
  BY DEF ReadsFile
<1>b. /\ g \in Files /\ g.raw = f.raw /\ g.kind = f.kind
      /\ f.kind = "regular" => g.touched = (f.touched /\ torn)
  BY <1>a DEF Files
<1>c. SUFFICES /\ d \in Cores /\ CoreInv(d, base, TRUE) /\ Grows(c, d)
               /\ d.breach = "none" /\ d.errorSince = None => Seen(d, base) = f.raw
               /\ d.breach = "none" /\ d.status # "WAITING"
                    /\ d.errorSince = None => Size(f.raw) > 0
               /\ Remembered(d, f, torn)
  BY <1>b DEF Remembered, AsRead
<1> USE <1>a DEF AsRead, Remembered
<1>1. Based(c, base) /\ Numbered(c, base) /\ FollowsFile(c, base)
  BY DEF CoreInv
<1>2. /\ f.raw \in Transcripts /\ f.kind \in {"absent", "regular", "other"}
      /\ c.previous \in Transcripts /\ f.raw.lines \in Seq(LineKinds)
      /\ c.known \in BOOLEAN /\ f.touched \in BOOLEAN /\ f.replaced \in BOOLEAN
  BY DEF Files, Cores, Transcripts
<1>3. Grows(c, c)
  BY DEF Grows, Cores, Numbers
<1>4. ASSUME NEW b \in Breaches, d = [c EXCEPT !.breach = b]
      PROVE  /\ d \in Cores /\ CoreInv(d, base, TRUE) /\ Grows(c, d)
             /\ d.breach # "none"
  BY <1>1, <1>4, BreachKeeps DEF CoreInv, Preserves
<1>5. "TELEMETRY_INTEGRITY" \in Breaches /\ "TRANSCRIPT_SIZE" \in Breaches
  BY DEF Breaches
<1>6. CASE f.kind = "absent"
  <2>1. CASE c.known
    BY <1>4, <1>5, <1>6, <2>1 DEF ReadExternal, Broken
  <2>2. CASE ~c.known
    <3>1. d = c
      BY <1>6, <2>2 DEF ReadExternal
    <3>2. Seen(c, base) = Empty /\ f.raw = Empty
      BY <1>1, <1>6, <2>2 DEF FollowsFile, Seen
    <3>3. c.errorSince = None => c.status = "WAITING"
      BY <1>1, <2>2 DEF FollowsFile
    <3> QED
      BY <1>3, <2>2, <3>1, <3>2, <3>3
  <2> QED
    BY <1>2, <2>1, <2>2
<1>7. CASE f.kind = "other" \/ (f.kind = "regular" /\ c.known /\ f.replaced)
  <2>1. d = Broken(c)
    BY <1>7 DEF ReadExternal
  <2> QED
    BY <1>4, <1>5, <2>1 DEF Broken
<1>8. CASE f.kind = "regular" /\ ~(c.known /\ f.replaced)
  <2>1. CASE Size(f.raw) > MaxSize
    <3>1. d = [c EXCEPT !.breach = "TRANSCRIPT_SIZE"]
      BY <1>8, <2>1 DEF ReadExternal
    <3> QED
      BY <1>4, <1>5, <3>1
  <2>2. CASE ~(Size(f.raw) > MaxSize) /\ c.known /\ ~f.touched
    <3>1. f.raw = c.previous /\ Seen(c, base) = c.previous
      BY <1>1, <1>8, <2>2 DEF FollowsFile
    <3>2. CASE Size(c.previous) = 0
      <4>1. d = [c EXCEPT !.status = "WAITING"]
        BY <1>8, <2>2, <3>2 DEF ReadExternal
      <4>2. /\ d \in Cores /\ CoreInv(d, base, TRUE) /\ Grows(c, d)
            /\ d.status = "WAITING" /\ d.latest = c.latest
            /\ d.previous = c.previous
        BY <1>1, <4>1, WaitingKeeps DEF CoreInv, Preserves
      <4>3. Seen(d, base) = Seen(c, base)
        BY <4>2 DEF Seen
      <4> QED
        BY <3>1, <4>2, <4>3
    <3>3. CASE Size(c.previous) # 0
      <4>1. d = c
        BY <1>8, <2>2, <3>3 DEF ReadExternal
      <4>2. Size(c.previous) > 0
        BY <1>2, <3>3, SizeIs
      <4> QED
        BY <1>3, <3>1, <4>1, <4>2
    <3> QED
      BY <3>2, <3>3
  <2>3. CASE ~(Size(f.raw) > MaxSize) /\ ~(c.known /\ ~f.touched) /\ torn
    <3>1. d = Unreadable(c, t)
      BY <1>8, <2>3 DEF ReadExternal
    <3>2. /\ d \in Cores /\ CoreInv(d, base, TRUE) /\ Grows(c, d)
          /\ d.errorSince # None /\ d.known = c.known
      <4>1. d.known = c.known
        BY <3>1 DEF Unreadable, Cores
      <4> QED
        BY <1>1, <3>1, <4>1, UnreadableKeeps DEF CoreInv, Preserves
    <3> QED
      BY <1>2, <2>3, <3>2
  <2>4. CASE /\ ~(Size(f.raw) > MaxSize) /\ ~(c.known /\ ~f.touched) /\ ~torn
             /\ c.known /\ ~Extends(f.raw, c.previous)
    <3>1. d = Broken(c)
      BY <1>8, <2>4 DEF ReadExternal
    <3> QED
      BY <1>4, <1>5, <3>1 DEF Broken
  <2>5. CASE /\ ~(Size(f.raw) > MaxSize) /\ ~(c.known /\ ~f.touched) /\ ~torn
             /\ ~(c.known /\ ~Extends(f.raw, c.previous))
    <3>1. PICK kept : kept = [c EXCEPT !.known = TRUE, !.previous = f.raw]
      OBVIOUS
    <3>2. /\ kept \in Cores /\ kept.known = TRUE /\ kept.previous = f.raw
          /\ kept.latest = c.latest /\ kept.breach = c.breach
          /\ kept.metrics = c.metrics /\ kept.completed = c.completed
          /\ kept.baseCalls = c.baseCalls /\ kept.baseTokens = c.baseTokens
          /\ kept.tokens = c.tokens /\ kept.errorSince = c.errorSince
          /\ kept.partialSince = c.partialSince /\ kept.status = c.status
          /\ kept.captured = c.captured /\ kept.dirty = c.dirty
      BY ONLY c \in Cores, <1>2, <3>1 DEF Cores
    <3>3. Based(kept, base) /\ Numbered(kept, base) /\ Grows(c, kept)
      BY <1>1, <1>3, <3>2 DEF Based, Numbered, Seen, Counted, Grows
    <3>4. Extends(f.raw, c.previous) /\ Extends(f.raw, base)
      <4>1. CASE c.known
        BY <1>1, <1>2, <2>5, <4>1, ExtendsOrder DEF FollowsFile
      <4>2. CASE ~c.known
        <5>1. c.previous = Empty /\ base = Empty
          BY <1>1, <4>2 DEF FollowsFile, Seen
        <5> QED
          BY <1>2, <5>1, ExtendsOrder
      <4> QED
        BY <4>1, <4>2
    <3>5. Seen(kept, base) = c.previous
      BY <1>1, <3>2 DEF FollowsFile, Seen
    <3>6. CASE Size(f.raw) = 0
      <4>1. d = [kept EXCEPT !.status = "WAITING"]
        BY <1>8, <2>5, <3>1, <3>6 DEF ReadExternal
      <4>2. /\ d \in Cores /\ d.known = TRUE /\ d.previous = f.raw
            /\ d.latest = c.latest /\ d.breach = c.breach /\ d.status = "WAITING"
            /\ d.metrics = c.metrics /\ d.completed = c.completed
            /\ d.baseCalls = c.baseCalls /\ d.baseTokens = c.baseTokens
            /\ d.tokens = c.tokens /\ d.errorSince = c.errorSince
            /\ d.partialSince = c.partialSince
        BY ONLY <3>2, <4>1 DEF Cores
      <4>3. c.previous = f.raw
        <5>1. Size(c.previous) = 0
          BY <1>2, <3>4, <3>6, SizeIs, ExtendsOrder
        <5> QED
          BY <1>2, <3>6, <5>1, SizeIs
      <4>4. c.latest = None
        BY <1>1, <3>6, <4>3 DEF FollowsFile
      <4>5. Seen(d, base) = f.raw
        BY <1>1, <4>2, <4>3 DEF FollowsFile, Seen
      <4>6. FollowsFile(d, base)
        BY <3>4, <4>2, <4>4, <4>5 DEF FollowsFile
      <4>7. Based(d, base) /\ Numbered(d, base) /\ Grows(c, d)
        BY <1>1, <1>3, <4>2 DEF Based, Numbered, Seen, Counted, Grows
      <4> QED
        BY <4>2, <4>5, <4>6, <4>7 DEF CoreInv
    <3>7. CASE Size(f.raw) # 0
      <4>1. d = Parsed(kept, f.raw, t)
        BY <1>8, <2>5, <3>1, <3>7 DEF ReadExternal
      <4>2. IsPrefix(Seen(kept, base).lines, f.raw.lines)
        BY <1>2, <3>4, <3>5, ExtendsOrder
      <4>3. kept.breach = "none"
        BY <3>2
      <4>4. /\ d \in Cores /\ Based(d, base) /\ Numbered(d, base) /\ Grows(kept, d)
            /\ d.latest = f.raw /\ d.known = kept.known /\ d.previous = kept.previous
        BY <1>2, <3>2, <3>3, <4>1, <4>2, <4>3, ParsedKeeps
      <4>5. Seen(d, base) = f.raw
        BY <1>2, <4>4, TelemetryAssumption DEF Seen
      <4>6. Size(f.raw) > 0
        BY <1>2, <3>7, SizeIs
      <4>7. FollowsFile(d, base)
        BY <3>2, <3>4, <4>4, <4>5, <4>6 DEF FollowsFile
      <4>8. Grows(c, d)
        BY <3>2, <4>4 DEF Grows
      <4> QED
        BY <3>2, <4>4, <4>5, <4>6, <4>7, <4>8 DEF CoreInv
    <3> QED
      BY <3>6, <3>7
  <2> QED
    BY <1>2, <2>1, <2>2, <2>3, <2>4, <2>5
<1>9. \/ f.kind = "absent"
      \/ f.kind = "other" \/ (f.kind = "regular" /\ c.known /\ f.replaced)
      \/ f.kind = "regular" /\ ~(c.known /\ f.replaced)
  BY <1>2
<1> QED
  BY <1>6, <1>7, <1>8, <1>9

\* A chunk more.
LEMMA WithIs ==
    ASSUME NEW r \in Transcripts, NEW chunk \in LineKinds \cup {"tail"}
    PROVE  /\ With(r, chunk) \in Transcripts
           /\ IsPrefix(r.lines, With(r, chunk).lines)
           /\ Size(With(r, chunk)) > 0
<1>1. r.lines \in Seq(LineKinds) /\ Len(r.lines) \in Nat
  BY DEF Transcripts
<1>2. CASE chunk = "tail"
  <2>1. With(r, chunk) = [r EXCEPT !.tail = TRUE]
    BY <1>2 DEF With
  <2>2. /\ With(r, chunk) \in Transcripts /\ With(r, chunk).lines = r.lines
        /\ With(r, chunk).tail = TRUE
    BY <2>1 DEF Transcripts
  <2>3. IsPrefix(r.lines, r.lines)
    BY <1>1, PrefixOrder
  <2>4. Size(With(r, chunk)) = Len(r.lines) + 1
    BY <2>2, SizeIs
  <2> QED
    BY <1>1, <2>2, <2>3, <2>4
<1>3. CASE chunk # "tail"
  <2>1. chunk \in LineKinds
    BY <1>3
  <2>2. PICK more : more = Append(r.lines, chunk)
    OBVIOUS
  <2>3. /\ more \in Seq(LineKinds) /\ Len(more) = Len(r.lines) + 1
        /\ \A i \in 1 .. Len(r.lines) : more[i] = r.lines[i]
    BY <1>1, <2>1, <2>2
  <2>4. /\ With(r, chunk) \in Transcripts /\ With(r, chunk).lines = more
        /\ With(r, chunk).tail = FALSE
    BY <1>3, <2>2, <2>3 DEF With, Transcripts
  <2>5. IsPrefix(r.lines, more)
    BY <1>1, <2>3, PrefixIs
  <2>6. Size(With(r, chunk)) = Len(more)
    BY <2>4, SizeIs
  <2> QED
    BY <1>1, <2>3, <2>4, <2>5, <2>6
<1> QED
  BY <1>2, <1>3

LEMMA CapturedKeeps ==
    ASSUME NEW c \in Cores, NEW base \in Transcripts,
           NEW chunk \in LineKinds \cup {"tail"}, NEW d, d = Captured(c, chunk)
    PROVE  /\ d \in Cores /\ Preserves(c, d, base) /\ Grows(c, d)
           /\ d.breach = "none" =>
                c.breach = "none" /\ d.captured = With(c.captured, chunk)
<1>1. CASE Size(With(c.captured, chunk)) > MaxSize
  <2>1. d = [c EXCEPT !.breach = "TRANSCRIPT_SIZE"]
    BY <1>1 DEF Captured
  <2>2. "TRANSCRIPT_SIZE" \in Breaches
    BY DEF Breaches
  <2> QED
    BY <2>1, <2>2, BreachKeeps
<1>2. CASE ~(Size(With(c.captured, chunk)) > MaxSize)
  <2>1. PICK more \in Transcripts : more = With(c.captured, chunk)
    BY WithIs DEF Cores
  <2>2. d = [c EXCEPT !.captured = more, !.dirty = TRUE]
    BY <1>2, <2>1 DEF Captured, Cores
  <2>3. /\ d \in Cores /\ d.captured = more /\ d.dirty = TRUE
        /\ d.known = c.known /\ d.previous = c.previous
        /\ d.latest = c.latest /\ d.breach = c.breach
        /\ d.metrics = c.metrics /\ d.completed = c.completed
        /\ d.baseCalls = c.baseCalls /\ d.baseTokens = c.baseTokens
        /\ d.tokens = c.tokens /\ d.errorSince = c.errorSince
        /\ d.partialSince = c.partialSince /\ d.status = c.status
    BY ONLY c \in Cores, <2>1, <2>2 DEF Cores
  <2>4. Seen(d, base) = Seen(c, base) /\ Seen(c, base) \in Transcripts
    BY <2>3 DEF Seen, Cores
  <2>5. IsPrefix(c.captured.lines, more.lines) /\ Size(more) > 0
    BY <2>1, WithIs DEF Cores
  <2>6. FollowsCaptured(c, base) => FollowsCaptured(d, base)
    <3>1. /\ Seen(c, base).lines \in Seq(LineKinds) /\ more.lines \in Seq(LineKinds)
          /\ c.captured.lines \in Seq(LineKinds)
      BY <2>1, <2>4 DEF Cores, Transcripts
    <3>2. IsPrefix(Seen(c, base).lines, c.captured.lines)
            => IsPrefix(Seen(c, base).lines, more.lines)
      BY <2>5, <3>1, PrefixOrder
    <3> QED
      BY <2>3, <2>4, <2>5, <3>2 DEF FollowsCaptured
  <2>7. Based(c, base) => Based(d, base)
    BY <2>3 DEF Based
  <2>8. Numbered(c, base) => Numbered(d, base)
    BY <2>3, <2>4 DEF Numbered, Counted
  <2>9. FollowsFile(c, base) => FollowsFile(d, base)
    BY <2>3, <2>4 DEF FollowsFile
  <2>10. Grows(c, d)
    BY <2>3 DEF Grows, Cores, Numbers
  <2> QED
    BY <2>1, <2>3, <2>6, <2>7, <2>8, <2>9, <2>10 DEF Preserves
<1> QED
  BY <1>1, <1>2

LEMMA StartedKeeps ==
    ASSUME NEW c \in Cores, NEW base \in Transcripts, NEW t \in Nat,
           NEW d, d = Started(c, t)
    PROVE  /\ d \in Cores /\ Preserves(c, d, base) /\ Grows(c, d)
           /\ d.breach = c.breach /\ d.captured = c.captured
           /\ d.known = c.known /\ d.previous = c.previous
<1>1. None \notin Nat
  BY TelemetryAssumption
<1>2. PICK p : p = IF c.partialSince = None THEN None ELSE t
  OBVIOUS
<1>3. PICK e : e = IF c.errorSince = None THEN None ELSE t
  OBVIOUS
<1>4. /\ p \in Nat \cup {None} /\ e \in Nat \cup {None}
      /\ (p = None) <=> (c.partialSince = None)
      /\ (e = None) <=> (c.errorSince = None)
  BY <1>1, <1>2, <1>3
<1>5. d = [c EXCEPT !.startedAt = t, !.progressAt = t, !.partialSince = p,
                    !.errorSince = e]
  BY <1>2, <1>3 DEF Started, Cores
<1>6. PICK part : part = [c EXCEPT !.startedAt = t, !.progressAt = t]
  OBVIOUS
<1>7. part \in Cores
  BY ONLY c \in Cores, t \in Nat, <1>6 DEF Cores
<1>8. d = [part EXCEPT !.partialSince = p, !.errorSince = e]
  BY ONLY c \in Cores, <1>5, <1>6 DEF Cores
<1>9. d \in Cores
  BY ONLY <1>4, <1>7, <1>8 DEF Cores
<1>10. /\ d.captured = c.captured /\ d.dirty = c.dirty
       /\ d.known = c.known /\ d.previous = c.previous
       /\ d.latest = c.latest /\ d.breach = c.breach
       /\ d.metrics = c.metrics /\ d.completed = c.completed
       /\ d.baseCalls = c.baseCalls /\ d.baseTokens = c.baseTokens
       /\ d.tokens = c.tokens /\ d.errorSince = e
       /\ d.partialSince = p /\ d.status = c.status
  BY ONLY c \in Cores, <1>5 DEF Cores
<1>11. Seen(d, base) = Seen(c, base)
  BY <1>10 DEF Seen
<1>12. Based(c, base) => Based(d, base)
  BY <1>10 DEF Based
<1>13. Numbered(c, base) => Numbered(d, base)
  BY <1>4, <1>10, <1>11 DEF Numbered, Counted
<1>14. FollowsFile(c, base) => FollowsFile(d, base)
  BY <1>4, <1>10, <1>11 DEF FollowsFile
<1>15. FollowsCaptured(c, base) => FollowsCaptured(d, base)
  BY <1>10, <1>11 DEF FollowsCaptured
<1>16. Grows(c, d)
  BY <1>10 DEF Grows, Cores, Numbers
<1> QED
  BY <1>9, <1>10, <1>12, <1>13, <1>14, <1>15, <1>16 DEF Preserves

LEMMA EmptyIs == Empty \in Transcripts /\ Empty.lines = <<>> /\ Empty.tail = FALSE
                   /\ Size(Empty) = 0 /\ Len(<<>>) = 0
<1>1. Empty \in Transcripts /\ Empty.lines = <<>> /\ Empty.tail = FALSE
  BY DEF Empty, Transcripts
<1> QED
  BY <1>1, SizeIs

\* A worker that was just made.
LEMMA NewKeeps ==
    ASSUME NEW c, c = NewCore(0)
    PROVE  /\ c \in Cores /\ CoreInv(c, Empty, TRUE) /\ CoreInv(c, Empty, FALSE)
           /\ c.breach = "none" /\ c.captured = Empty /\ c.known = FALSE
<1>1. <<>> \in Seq(LineKinds) /\ Actions(<<>>) = {} /\ Of("usage", <<>>) = {}
  BY DEF Actions, Of
<1>2. /\ Cardinality(Actions(<<>>)) = 0 /\ Count("usage", <<>>) = 0
      /\ Slice(Actions(<<>>), 0) = {} /\ Metrics(<<>>, {}) \in Numbers
  <2>1. Cardinality({}) = 0
    BY FS_EmptySet
  <2>2. Count("usage", <<>>) = 0
    BY <1>1, CountIs
  <2>3. Slice({}, 0) = {}
    BY DEF Slice
  <2> QED
    BY <1>1, <2>1, <2>2, <2>3, NothingOwn
<1>3. PICK zero \in Numbers : zero = Metrics(<<>>, {})
  BY <1>2
<1>4. /\ c.known = FALSE /\ c.previous = Empty /\ c.latest = None
      /\ c.baseCalls = 0 /\ c.baseTokens = 0 /\ c.status = "WAITING"
      /\ c.errorSince = None /\ c.partialSince = None /\ c.metrics = zero
      /\ c.tokens = None /\ c.completed = {} /\ c.startedAt = 0 /\ c.progressAt = 0
      /\ c.captured = Empty /\ c.dirty = FALSE /\ c.breach = "none"
  BY <1>3 DEF NewCore
<1>5. c \in Cores
  BY <1>3, EmptyIs DEF NewCore, Cores
<1>6. Seen(c, Empty) = Empty
  BY <1>4 DEF Seen
<1>7. Based(c, Empty)
  BY <1>2, <1>4, EmptyIs DEF Based
<1>8. Numbered(c, Empty)
  <2>1. Slice(Actions(<<>>), c.baseCalls) = {}
    BY <1>1, <1>2, <1>4
  <2>2. c.metrics = Metrics(<<>>, Slice(Actions(<<>>), c.baseCalls))
    BY <1>3, <1>4, <2>1
  <2>3. Counted(c, <<>>)
    BY <1>4, <2>2 DEF Counted
  <2>4. Whole(<<>>)
    BY DEF Whole
  <2> QED
    BY <1>4, <1>6, <2>3, <2>4, EmptyIs DEF Numbered
<1>9. Extends(Empty, Empty) /\ IsPrefix(<<>>, <<>>)
  BY <1>1, EmptyIs, ExtendsOrder, PrefixOrder
<1>10. FollowsFile(c, Empty)
  BY <1>4, <1>6, <1>9 DEF FollowsFile
<1>11. FollowsCaptured(c, Empty)
  BY <1>4, <1>6, <1>9, EmptyIs DEF FollowsCaptured
<1> QED
  BY <1>4, <1>5, <1>7, <1>8, <1>10, <1>11 DEF CoreInv

\* The file that is there when the worker begins is what is left out.
LEMMA BaselineKeeps ==
    ASSUME NEW raw \in Transcripts, Size(raw) = 0 \/ Readable(raw),
           NEW d, d = Baseline(NewCore(0), raw)
    PROVE  /\ d \in Cores /\ CoreInv(d, raw, TRUE) /\ Grows(NewCore(0), d)
           /\ d.breach = "none" /\ d.previous = raw
<1>1. PICK c \in Cores : c = NewCore(0)
  BY NewKeeps
<1>2. /\ c.latest = None /\ c.baseCalls = 0 /\ c.baseTokens = 0
      /\ c.errorSince = None /\ c.partialSince = None
      /\ c.metrics = Metrics(<<>>, {}) /\ c.status = "WAITING"
      /\ c.tokens = None /\ c.breach = "none" /\ c.completed = {}
  BY <1>1 DEF NewCore
<1>3. Numbered(c, Empty)
  BY <1>1, NewKeeps DEF CoreInv
<1>4. Extends(raw, raw)
  BY ExtendsOrder
<1>5. CASE Size(raw) = 0
  <2>1. raw = Empty
    BY <1>5, SizeIs
  <2>2. d = [c EXCEPT !.known = TRUE, !.previous = raw]
    BY <1>1, <1>5 DEF Baseline
  <2>3. /\ d \in Cores /\ d.known = TRUE /\ d.previous = raw
        /\ d.latest = c.latest /\ d.breach = c.breach
        /\ d.metrics = c.metrics /\ d.completed = c.completed
        /\ d.baseCalls = c.baseCalls /\ d.baseTokens = c.baseTokens
        /\ d.tokens = c.tokens /\ d.errorSince = c.errorSince
        /\ d.partialSince = c.partialSince /\ d.status = c.status
    BY ONLY c \in Cores, raw \in Transcripts, <2>2 DEF Cores
  <2>4. Based(c, Empty)
    BY <1>1, NewKeeps DEF CoreInv
  <2>5. Based(d, raw) /\ Numbered(d, raw)
    BY <1>3, <2>1, <2>3, <2>4 DEF Based, Numbered, Seen, Counted
  <2>6. FollowsFile(d, raw)
    BY <1>2, <1>4, <2>1, <2>3 DEF FollowsFile, Seen
  <2>7. Grows(c, d)
    BY <2>3 DEF Grows, Cores, Numbers
  <2> QED
    BY <1>1, <1>2, <2>3, <2>5, <2>6, <2>7 DEF CoreInv
<1>6. CASE Size(raw) # 0
  <2>1. raw.lines \in Seq(LineKinds) /\ raw.tail \in BOOLEAN /\ Whole(raw.lines)
    BY <1>6, ReadableIs DEF Transcripts
  <2>2. PICK calls \in Nat : calls = Cardinality(Actions(raw.lines))
    BY <2>1, CountIs
  <2>3. PICK tokens \in Nat : tokens = Count("usage", raw.lines)
    BY <2>1, CountIs
  <2>4. PICK status \in {"READY", "PARTIAL"} :
          status = IF raw.tail THEN "PARTIAL" ELSE "READY"
    OBVIOUS
  <2>5. PICK since \in Nat \cup {None} :
          since = IF raw.tail THEN c.startedAt ELSE None
    BY DEF Cores
  <2>6. since = None => ~raw.tail
    BY <2>5, TelemetryAssumption DEF Cores
  <2>7. d = [c EXCEPT !.known = TRUE, !.previous = raw, !.baseCalls = calls,
                      !.baseTokens = tokens, !.status = status,
                      !.partialSince = since]
    BY <1>1, <1>6, <2>2, <2>3, <2>4, <2>5 DEF Baseline
  <2>8. PICK part : part = [c EXCEPT !.known = TRUE, !.previous = raw]
    OBVIOUS
  <2>9. part \in Cores
    BY ONLY c \in Cores, raw \in Transcripts, <2>8 DEF Cores
  <2>10. PICK more : more = [part EXCEPT !.baseCalls = calls, !.baseTokens = tokens]
    OBVIOUS
  <2>11. more \in Cores
    BY ONLY <2>9, <2>10, calls \in Nat, tokens \in Nat DEF Cores
  <2>12. d = [more EXCEPT !.status = status, !.partialSince = since]
    BY ONLY c \in Cores, <2>7, <2>8, <2>9, <2>10 DEF Cores
  <2>13. d \in Cores
    BY ONLY <2>11, <2>12, status \in {"READY", "PARTIAL"},
            since \in Nat \cup {None} DEF Cores
  <2>14. /\ d.known = TRUE /\ d.previous = raw /\ d.latest = c.latest
         /\ d.breach = c.breach /\ d.metrics = c.metrics
         /\ d.completed = c.completed /\ d.baseCalls = calls
         /\ d.baseTokens = tokens /\ d.tokens = c.tokens
         /\ d.errorSince = c.errorSince /\ d.partialSince = since
         /\ d.status = status
    BY ONLY c \in Cores, <2>7 DEF Cores
  <2>15. Seen(d, raw) = raw
    BY <1>2, <2>14 DEF Seen
  <2>16. Metrics(raw.lines, Slice(Actions(raw.lines), calls)) = Metrics(<<>>, {})
    BY <2>1, <2>2, NothingOwn
  <2>17. Counted(d, raw.lines)
    BY <1>2, <2>14, <2>16 DEF Counted
  <2>18. status # "UNREADABLE"
    BY <2>4
  <2>19. Based(d, raw) /\ Numbered(d, raw)
    BY <2>1, <2>2, <2>3, <2>6, <2>14, <2>15, <2>17, <2>18 DEF Based, Numbered
  <2>20. FollowsFile(d, raw)
    BY <1>2, <1>4, <2>14, <2>15 DEF FollowsFile
  <2>21. Grows(c, d)
    BY <1>2, <2>14 DEF Grows, Cores, Numbers
  <2> QED
    BY <1>1, <1>2, <2>13, <2>14, <2>19, <2>20, <2>21 DEF CoreInv
<1> QED
  BY <1>5, <1>6

\* What limitBreach finds is the name of a breach, or nothing is exceeded.
LEMMA LimitsHold ==
    ASSUME NEW c, NEW t, NEW terminal,
           NEW checks, checks = Checks(c, t, terminal)
    PROVE  /\ LimitBreach(c, t, terminal) \in Breaches \cup {"none"}
           /\ LimitBreach(c, t, terminal) = "none" =>
                \A i \in 1 .. 9 : ~checks[i][2]
<1>1. DOMAIN checks = 1 .. 9 /\ \A i \in 1 .. 9 : checks[i][1] \in Breaches
  BY DEF Checks, Breaches
<1>2. PICK met : met = {i \in 1 .. 9 : checks[i][2]}
  OBVIOUS
<1>3. LimitBreach(c, t, terminal) = IF met = {} THEN "none" ELSE checks[Min(met)][1]
  BY <1>1, <1>2 DEF LimitBreach
<1>4. ASSUME met # {} PROVE Min(met) \in met
  <2>1. met \subseteq Nat
    BY <1>2
  <2>2. \E m \in met : \A n \in met : m <= n
    BY <1>4, <2>1, Least
  <2> QED
    BY <2>2 DEF Min
<1>5. ASSUME met # {} PROVE LimitBreach(c, t, terminal) \in Breaches
  BY <1>1, <1>2, <1>3, <1>4, <1>5
<1>6. "none" \notin Breaches
  BY DEF Breaches
<1> QED
  BY <1>2, <1>3, <1>5, <1>6

\* A last poll that finds nothing: what was seen is whole and within the limits.
LEMMA NothingFound ==
    ASSUME NEW c \in Cores, NEW base \in Transcripts, Numbered(c, base),
           Based(c, base), Extends(Seen(c, base), base),
           NEW t \in Nat, Verdict(c, t, TRUE) = "none"
    PROVE  /\ c.breach = "none" /\ c.errorSince = None
           /\ ~Seen(c, base).tail /\ Whole(Seen(c, base).lines)
           /\ \/ \A limit \in DOMAIN Limits : Limits[limit] = None
              \/ /\ c.status # "WAITING"
                 /\ Within(Seen(c, base).lines, base.lines)
<1>0. PICK checks : checks = Checks(c, t, TRUE)
  OBVIOUS
<1>1. c.breach = "none" /\ LimitBreach(c, t, TRUE) = "none"
  <2>1. "none" \notin Breaches
    BY DEF Breaches
  <2> QED
    BY <2>1 DEF Verdict, Cores
<1>2. \A i \in 1 .. 9 : ~checks[i][2]
  BY <1>0, <1>1, LimitsHold
<1>3. /\ ~checks[1][2] /\ ~checks[2][2] /\ ~checks[3][2] /\ ~checks[4][2]
      /\ ~checks[5][2] /\ ~checks[6][2] /\ ~checks[7][2] /\ ~checks[8][2]
  BY ONLY <1>2
<1>4. c.status = "WAITING" => \A limit \in DOMAIN Limits : Limits[limit] = None
  BY <1>0, <1>3 DEF Checks, Overdue
<1>5. c.errorSince = None /\ c.partialSince = None
  BY <1>0, <1>3 DEF Checks, Overdue
<1>6. Limits.tokens # None /\ c.status \in {"READY", "PARTIAL"} => c.tokens # None
  BY <1>0, <1>3 DEF Checks, Overdue
<1>7. /\ ~Above(c.metrics.calls, Limits.calls)
      /\ ~Above(c.metrics.failed, Limits.failed)
      /\ ~Above(c.metrics.identical, Limits.identical)
      /\ ~Above(c.metrics.streak, Limits.streak)
      /\ ~Above(c.tokens, Limits.tokens)
  BY <1>0, <1>3 DEF Checks
<1>8. Seen(c, base) \in Transcripts
  BY DEF Seen, Cores
<1>9. ~Seen(c, base).tail /\ Whole(Seen(c, base).lines)
  BY <1>1, <1>5 DEF Numbered
<1>10. CASE c.status = "WAITING"
  BY <1>1, <1>4, <1>5, <1>9, <1>10
<1>11. CASE c.status # "WAITING"
  <2>1. c.status \in {"READY", "PARTIAL"}
    BY <1>1, <1>5, <1>11 DEF Numbered, Cores
  <2>2. Counted(c, Seen(c, base).lines)
    BY <1>1, <1>9 DEF Numbered
  <2>3. /\ Seen(c, base).lines \in Seq(LineKinds) /\ base.lines \in Seq(LineKinds)
        /\ IsPrefix(base.lines, Seen(c, base).lines)
    BY <1>8 DEF Transcripts, Extends
  <2> PICK lines \in Seq(LineKinds) : lines = Seen(c, base).lines
    BY <2>3
  <2> PICK A : A = Slice(Actions(lines), Cardinality(Actions(base.lines)))
    OBVIOUS
  <2>4. c.metrics = Metrics(lines, A) /\ c.metrics \in Numbers
    BY <2>2 DEF Counted, Based, Cores
  <2>5. /\ c.metrics.calls \in Nat /\ c.metrics.failed \in Nat
        /\ c.metrics.identical \in Nat /\ c.metrics.streak \in Nat
    BY <2>4 DEF Numbers
  <2>6. /\ None \notin Nat
        /\ Limits.calls # None => Limits.calls \in Nat
        /\ Limits.failed # None => Limits.failed \in Nat
        /\ Limits.identical # None => Limits.identical \in Nat
        /\ Limits.streak # None => Limits.streak \in Nat
        /\ Limits.tokens # None => Limits.tokens \in Nat
    BY TelemetryAssumption
  <2>7. ASSUME NEW n \in Nat, NEW limit, ~Above(n, limit), limit # None, limit \in Nat
        PROVE  n <= limit
    BY <2>6, <2>7 DEF Above
  <2>8. /\ Limits.calls # None => c.metrics.calls <= Limits.calls
        /\ Limits.failed # None => c.metrics.failed <= Limits.failed
        /\ Limits.identical # None => c.metrics.identical <= Limits.identical
        /\ Limits.streak # None => c.metrics.streak <= Limits.streak
    BY <1>7, <2>5, <2>6, <2>7
  <2>9. ASSUME Limits.tokens # None
        PROVE  /\ Of("usage", lines) # {}
               /\ Count("usage", lines) - Count("usage", base.lines) <= Limits.tokens
    <3>1. c.tokens # None /\ c.tokens \in Nat /\ c.tokens <= Limits.tokens
      BY <1>6, <1>7, <2>1, <2>6, <2>7, <2>9 DEF Cores
    <3>2. /\ Of("usage", lines) # {}
          /\ c.tokens = Count("usage", lines) - Count("usage", base.lines)
      BY <2>2, <3>1 DEF Counted, Based
    <3> QED
      BY <3>1, <3>2
  <2>10. Within(lines, base.lines)
    BY <2>3, <2>4, <2>8, <2>9, WithinIs
  <2> QED
    BY <1>1, <1>5, <1>9, <1>11, <2>10
<1> QED
  BY <1>10, <1>11

-----------------------------------------------------------------------------
(* The steps.                                                               *)

\* Whatever is done to the file, it is seen that it was done.
LEMMA ChangeIs ==
    ASSUME file \in Files, Written \subseteq LineKinds,
           \/ AppendToFile \/ Touch \/ Truncate \/ Rewrite \/ Replace \/ Delete
    PROVE  \E new \in Files :
             /\ Change(new)
             /\ new.kind # "regular" => new.raw = Empty
             /\ new.kind = "regular" => new.touched
<1>1. Empty \in Transcripts /\ file.raw \in Transcripts
  BY EmptyIs DEF Files
<1>2. CASE AppendToFile
  <2>1. PICK chunk \in Chunks :
          Change([kind |-> "regular", touched |-> TRUE,
                  replaced |-> file.kind # "regular" \/ file.replaced,
                  raw |-> With(IF file.kind = "regular" THEN file.raw ELSE Empty,
                               chunk)])
    BY <1>2 DEF AppendToFile
  <2>2. chunk \in LineKinds \cup {"tail"}
    BY DEF Chunks
  <2>3. PICK old \in Transcripts :
          old = IF file.kind = "regular" THEN file.raw ELSE Empty
    BY <1>1
  <2>4. With(old, chunk) \in Transcripts
    BY <2>2, WithIs
  <2>5. PICK new : new = [kind |-> "regular", touched |-> TRUE,
                          replaced |-> file.kind # "regular" \/ file.replaced,
                          raw |-> With(old, chunk)]
    OBVIOUS
  <2>6. (file.kind # "regular" \/ file.replaced) \in BOOLEAN
    BY DEF Files
  <2>7. new \in Files /\ new.kind = "regular" /\ new.touched
    BY <2>4, <2>5, <2>6 DEF Files
  <2> QED
    BY <2>1, <2>3, <2>5, <2>7
<1>3. CASE Touch
  <2>1. PICK new : new = [file EXCEPT !.touched = TRUE]
    OBVIOUS
  <2>2. new \in Files /\ new.touched /\ new.kind = file.kind
    BY <2>1 DEF Files
  <2> QED
    BY <1>3, <2>1, <2>2 DEF Touch
<1>4. CASE Truncate
  <2>1. PICK new : new = [file EXCEPT !.raw = Empty, !.touched = TRUE]
    OBVIOUS
  <2>2. new \in Files /\ new.touched /\ new.kind = file.kind
    BY <1>1, <2>1 DEF Files
  <2> QED
    BY <1>4, <2>1, <2>2 DEF Truncate
<1>5. CASE Rewrite
  <2>1. PICK raw \in Found \ {Empty} :
          file.kind = "regular"
            /\ Change([file EXCEPT !.raw = raw, !.touched = TRUE])
    BY <1>5 DEF Rewrite
  <2>2. raw \in Transcripts
    BY BoundsAssumption
  <2>3. PICK new : new = [file EXCEPT !.raw = raw, !.touched = TRUE]
    OBVIOUS
  <2>4. new \in Files /\ new.touched /\ new.kind = file.kind
    BY <2>2, <2>3 DEF Files
  <2> QED
    BY <2>1, <2>3, <2>4
<1>6. CASE Replace
  <2>1. PICK new : new = [file EXCEPT !.replaced = TRUE, !.touched = TRUE]
    OBVIOUS
  <2>2. new \in Files /\ new.touched /\ new.kind = file.kind
    BY <2>1 DEF Files
  <2> QED
    BY <1>6, <2>1, <2>2 DEF Replace
<1>7. CASE Delete
  <2>1. PICK kind \in {"absent", "other"} :
          Change([file EXCEPT !.kind = kind, !.raw = Empty])
    BY <1>7 DEF Delete
  <2>2. PICK new : new = [file EXCEPT !.kind = kind, !.raw = Empty]
    OBVIOUS
  <2>3. new \in Files /\ new.kind = kind /\ new.raw = Empty
    BY <1>1, <2>2 DEF Files
  <2> QED
    BY <2>1, <2>2, <2>3
<1> QED
  BY <1>2, <1>3, <1>4, <1>5, <1>6, <1>7

\* A poll finds the name of a breach, or nothing.
LEMMA VerdictIs ==
    ASSUME NEW c \in Cores, NEW t, NEW terminal
    PROVE  Verdict(c, t, terminal) \in Breaches \cup {"none"}
<1>1. c.breach \in Breaches \cup {"none"}
  BY DEF Cores
<1>2. LimitBreach(c, t, terminal) \in Breaches \cup {"none"}
  BY LimitsHold
<1> QED
  BY <1>1, <1>2 DEF Verdict

\* The messages in front of the worker.
LEMMA InboxIs ==
    ASSUME TypeOK, inbox # <<>>
    PROVE  /\ Head(inbox) \in Messages /\ Head(inbox) = inbox[1]
           /\ Tail(inbox) \in Seq(Messages)
           /\ Head(inbox).kind = "poll" =>
                /\ Head(inbox).now \in Nat /\ Head(inbox).enforce \in BOOLEAN
                /\ Head(inbox).terminal \in BOOLEAN
           /\ Head(inbox).kind = "start" => Head(inbox).now \in Nat
           /\ Head(inbox).kind = "append" =>
                Head(inbox).chunk \in LineKinds \cup {"tail"}
<1>1. inbox \in Seq(Messages)
  BY DEF TypeOK
<1>2. /\ Head(inbox) \in Messages /\ Head(inbox) = inbox[1]
      /\ Tail(inbox) \in Seq(Messages)
  BY <1>1
<1> QED
  BY <1>2 DEF Messages

\* What a step does to the worker's state keeps what is said of it.
CoreKept ==
  /\ core' \in Cores /\ CoreInv(core', read'.base, External') /\ Grows(core, core')
  /\ read' \in [base : Transcripts, last : Transcripts]

LEMMA SameCore ==
    ASSUME TypeOK, CoreInv(core, read.base, External),
           core' = core, read' = read, transport' = transport
    PROVE  CoreKept
<1>1. core \in Cores
  BY DEF TypeOK
<1>2. Grows(core, core)
  BY <1>1 DEF Grows, Cores, Numbers
<1>3. CoreInv(core', read'.base, External')
  BY DEF External
<1> QED
  BY <1>1, <1>2, <1>3 DEF CoreKept, TypeOK

LEMMA BootKeeps ==
    ASSUME TypeOK, StartInv, CoreInv(core, read.base, External), Boot
    PROVE  /\ CoreKept
           /\ worker' = "up" => core'.breach = "none" /\ read'.last = read.last
           /\ worker' = "up" /\ ~External => core' = core /\ read'.base = Empty
           /\ worker' = "up" /\ External /\ core'.known => core'.previous = file.raw
<1>1. core = NewCore(0) /\ read.base = Empty /\ transport' = transport
  BY DEF StartInv, Boot, world
<1>2. /\ core \in Cores /\ core.breach = "none" /\ core.known = FALSE
      /\ Empty \in Transcripts
  BY <1>1, NewKeeps, EmptyIs
<1>3. file \in Files /\ file.raw \in Transcripts
      /\ file.kind \in {"absent", "regular", "other"}
  BY DEF TypeOK, Files
<1>4. CASE worker' = "dead"
  <2>1. core' = core /\ read' = read
    BY <1>4 DEF Boot
  <2> QED
    BY <1>1, <1>4, <2>1, SameCore
<1>5. CASE worker' # "dead" /\ External /\ file.kind # "absent"
  <2>1. /\ core' = Baseline(NewCore(0), file.raw)
        /\ read' = [read EXCEPT !.base = file.raw]
        /\ file.kind # "other"
        /\ ~(Size(file.raw) > 0 /\ ~Readable(file.raw))
    BY <1>1, <1>5 DEF Boot
  <2>2. Size(file.raw) = 0 \/ Readable(file.raw)
    BY <1>3, <2>1, SizeIs
  <2>3. /\ core' \in Cores /\ CoreInv(core', file.raw, TRUE) /\ Grows(NewCore(0), core')
        /\ core'.breach = "none" /\ core'.previous = file.raw
    BY ONLY <1>3, <2>1, <2>2, BaselineKeeps
  <2>4. /\ read'.base = file.raw /\ read'.last = read.last
        /\ read' \in [base : Transcripts, last : Transcripts]
    BY <1>3, <2>1 DEF TypeOK
  <2>5. External'
    BY <1>1, <1>5 DEF External
  <2>6. CoreInv(core', read'.base, External')
    BY <2>3, <2>4, <2>5 DEF CoreInv
  <2> QED
    BY <1>1, <1>5, <2>3, <2>4, <2>6 DEF CoreKept
<1>6. CASE worker' # "dead" /\ ~(External /\ file.kind # "absent")
  <2>1. core' = core /\ read' = [read EXCEPT !.base = Empty]
    BY <1>6 DEF Boot
  <2>2. read' = read
    BY <1>1, <2>1 DEF TypeOK
  <2> QED
    BY <1>1, <1>2, <2>1, <2>2, SameCore
<1> QED
  BY <1>4, <1>5, <1>6

\* A poll leaves what it has read in read.last, if nothing went wrong.
LEMMA PollKeeps ==
    ASSUME TypeOK, CoreInv(core, read.base, External), FileInv, WorkerPolls
    PROVE  /\ CoreKept /\ FileInv'
           /\ read'.base = read.base
           /\ ~External => core'.captured = core.captured
           /\ core'.breach = "none" /\ (~External \/ core'.errorSince = None) =>
                /\ Seen(core', read'.base) = read'.last
                /\ core'.status # "WAITING" => Size(read'.last) > 0
           /\ core'.breach = "none" /\ ~External => read'.last = core.captured
           /\ file' \in Files /\ file'.raw = file.raw /\ file'.kind = file.kind
<1>1. /\ transport' = transport /\ inbox # <<>> /\ Head(inbox).kind = "poll"
      /\ External' = External
  BY DEF WorkerPolls, External
<1>2. PICK t \in Nat : t = Head(inbox).now
  BY <1>1, InboxIs
<1>3. /\ core \in Cores /\ read.base \in Transcripts /\ file \in Files
      /\ file.raw \in Transcripts /\ core.captured \in Transcripts
      /\ read \in [base : Transcripts, last : Transcripts]
  BY DEF TypeOK, Files, Cores
<1>4. CASE core.breach # "none"
  <2>1. core' = core /\ file' = file /\ read' = read
    BY <1>4 DEF WorkerPolls, Answer
  <2>2. CoreKept
    BY <1>1, <2>1, SameCore
  <2>3. FileInv'
    BY <1>1, <2>1 DEF FileInv
  <2> QED
    BY <1>3, <1>4, <2>1, <2>2, <2>3
<1>5. CASE core.breach = "none" /\ ~External
  <2>1. /\ core' = ReadCaptured(core, t) /\ file' = file
        /\ read' = [read EXCEPT !.last = core.captured]
    BY <1>2, <1>5 DEF WorkerPolls, Answer
  <2>2. CoreInv(core, read.base, FALSE)
    BY <1>5 DEF CoreInv
  <2>3. /\ core' \in Cores /\ CoreInv(core', read.base, FALSE) /\ Grows(core, core')
        /\ core'.captured = core.captured
        /\ Seen(core', read.base) = core.captured
        /\ core'.status # "WAITING" => Size(core.captured) > 0
    <3>0. PICK d : d = core'
      OBVIOUS
    <3>1. PICK c \in Cores, base \in Transcripts : c = core /\ base = read.base
      BY <1>3
    <3>2. CoreInv(c, base, FALSE) /\ c.breach = "none" /\ d = ReadCaptured(c, t)
      BY <1>5, <2>1, <2>2, <3>0, <3>1
    <3>3. /\ d \in Cores /\ CoreInv(d, base, FALSE) /\ Grows(c, d)
          /\ d.captured = c.captured
          /\ Seen(d, base) = c.captured
          /\ d.status # "WAITING" => Size(c.captured) > 0
      BY ONLY <3>2, c \in Cores, base \in Transcripts, t \in Nat, ReadCapturedKeeps
    <3> QED
      BY <3>0, <3>1, <3>3
  <2>4. /\ read'.last = core.captured /\ read'.base = read.base
        /\ read' \in [base : Transcripts, last : Transcripts]
    BY ONLY <1>3, <2>1
  <2>5. CoreInv(core', read'.base, External')
    BY <1>1, <1>5, <2>3, <2>4 DEF CoreInv
  <2>6. FileInv'
    BY <1>1, <1>5, <2>1 DEF FileInv
  <2> QED
    BY <1>3, <1>5, <2>1, <2>3, <2>4, <2>5, <2>6 DEF CoreKept
<1>6. CASE core.breach = "none" /\ External
  <2>1. PICK torn \in BOOLEAN :
          /\ core' = ReadExternal(core, file, torn, t)
          /\ file' = IF torn \/ file.kind # "regular" THEN file
                     ELSE [file EXCEPT !.touched = FALSE, !.replaced = FALSE]
          /\ read' = [read EXCEPT !.last = file.raw]
    BY <1>2, <1>6 DEF WorkerPolls, Answer
  <2>2. /\ CoreInv(core, read.base, TRUE)
        /\ file.kind # "regular" => file.raw = Empty
        /\ core.known /\ file.kind = "regular" /\ ~file.touched =>
             file.raw = core.previous
    BY <1>6 DEF CoreInv, FileInv
  <2>3. /\ core' \in Cores /\ CoreInv(core', read.base, TRUE) /\ Grows(core, core')
        /\ core'.breach = "none" /\ core'.errorSince = None =>
             Seen(core', read.base) = file.raw
        /\ core'.breach = "none" /\ core'.status # "WAITING"
             /\ core'.errorSince = None => Size(file.raw) > 0
        /\ file' \in Files /\ file'.raw = file.raw /\ file'.kind = file.kind
        /\ core'.breach = "none" => AsRead(core', file')
    <3>0. PICK d, g : d = core' /\ g = file'
      OBVIOUS
    <3>1. PICK c \in Cores, base \in Transcripts, f \in Files :
            c = core /\ base = read.base /\ f = file
      BY <1>3
    <3>2. CoreInv(c, base, TRUE) /\ c.breach = "none" /\ AsRead(c, f)
      BY <1>6, <2>2, <3>1 DEF AsRead
    <3>3. ReadsFile(c, f, t, d, g)
      BY <2>1, <3>0, <3>1 DEF ReadsFile
    <3>4. /\ d \in Cores /\ CoreInv(d, base, TRUE) /\ Grows(c, d)
          /\ d.breach = "none" /\ d.errorSince = None => Seen(d, base) = f.raw
          /\ d.breach = "none" /\ d.status # "WAITING" /\ d.errorSince = None =>
               Size(f.raw) > 0
          /\ g \in Files /\ g.raw = f.raw /\ g.kind = f.kind
          /\ d.breach = "none" => AsRead(d, g)
      BY ONLY <3>2, <3>3, c \in Cores, base \in Transcripts, f \in Files, t \in Nat,
              ReadExternalKeeps
    <3> QED
      BY <3>0, <3>1, <3>4
  <2>4. /\ read'.last = file.raw /\ read'.base = read.base
        /\ read' \in [base : Transcripts, last : Transcripts]
    BY <1>3, <2>1
  <2>5. CoreInv(core', read'.base, External')
    BY <1>1, <1>6, <2>3, <2>4 DEF CoreInv
  <2>6. FileInv'
    BY <2>2, <2>3 DEF FileInv, AsRead
  <2> QED
    BY <1>6, <2>3, <2>4, <2>5, <2>6 DEF CoreKept
<1> QED
  BY <1>4, <1>5, <1>6

\* The messages that are no polls.
LEMMA StartKeeps ==
    ASSUME TypeOK, CoreInv(core, read.base, External), WorkerStarts
    PROVE  /\ CoreKept /\ core'.breach = core.breach
           /\ core'.captured = core.captured
           /\ core'.known = core.known /\ core'.previous = core.previous
<1>1. PICK t \in Nat : t = Head(inbox).now
  BY InboxIs DEF WorkerStarts
<1>2. core' = Started(core, t) /\ read' = read /\ External' = External
  BY <1>1 DEF WorkerStarts, world, External
<1>3. core \in Cores /\ read.base \in Transcripts
  BY DEF TypeOK
<1>4. /\ core' \in Cores /\ Preserves(core, core', read.base) /\ Grows(core, core')
      /\ core'.breach = core.breach /\ core'.captured = core.captured
      /\ core'.known = core.known /\ core'.previous = core.previous
  BY ONLY <1>1, <1>2, <1>3, StartedKeeps
<1>5. CoreInv(core', read'.base, External')
  BY <1>2, <1>4 DEF CoreInv, Preserves
<1> QED
  BY <1>2, <1>4, <1>5 DEF CoreKept, TypeOK

LEMMA AppendKeeps ==
    ASSUME TypeOK, CoreInv(core, read.base, External), WorkerAppends
    PROVE  /\ CoreKept
           /\ core'.breach = "none" =>
                /\ core.breach = "none"
                /\ core'.captured = With(core.captured, Head(inbox).chunk)
           /\ core'.known = core.known /\ core'.previous = core.previous
<1>1. PICK chunk \in LineKinds \cup {"tail"} : chunk = Head(inbox).chunk
  BY InboxIs DEF WorkerAppends
<1>2. core' = Captured(core, chunk) /\ read' = read /\ External' = External
  BY <1>1 DEF WorkerAppends, world, External
<1>3. core \in Cores /\ read.base \in Transcripts
  BY DEF TypeOK
<1>4. /\ core' \in Cores /\ Preserves(core, core', read.base) /\ Grows(core, core')
      /\ core'.breach = "none" =>
           core.breach = "none" /\ core'.captured = With(core.captured, chunk)
  BY ONLY <1>1, <1>2, <1>3, CapturedKeeps
<1>5. CoreInv(core', read'.base, External')
  BY <1>2, <1>4 DEF CoreInv, Preserves
<1>6. core'.known = core.known /\ core'.previous = core.previous
  BY <1>2, <1>3 DEF Captured, Cores
<1> QED
  BY <1>1, <1>2, <1>4, <1>5, <1>6 DEF CoreKept, TypeOK

\* Only the worker touches its state and what it has read.
LEMMA CoreStep == TelemetryInv /\ [Next]_vars => CoreKept
<1> SUFFICES ASSUME TypeOK, StartInv, CoreInv(core, read.base, External), FileInv,
                    [Next]_vars
             PROVE  CoreKept
  BY DEF TelemetryInv
<1>1. CASE Boot
  BY <1>1, BootKeeps
<1>2. CASE WorkerPolls
  BY <1>2, PollKeeps
<1>3. CASE WorkerStarts
  BY <1>3, StartKeeps
<1>4. CASE WorkerAppends
  BY <1>4, AppendKeeps
<1>5. CASE AppendToFile \/ Touch \/ Truncate \/ Rewrite \/ Replace \/ Delete
  <2>1. PICK new \in Files : Change(new)
    BY <1>5, ChangeIs, BoundsAssumption DEF TypeOK
  <2> QED
    BY <2>1, SameCore DEF Change
<1>6. CASE Tick \/ WorkerDies \/ UNCHANGED vars
  BY <1>6, SameCore DEF Tick, WorkerDies, world, vars
<1>7. CASE HandleMessage \/ WorkerGone \/ Start \/ AppendCaptured
  BY <1>7, SameCore DEF HandleMessage, WorkerGone, Start, AppendCaptured, world
<1>8. CASE \/ PollOnInterval \/ PollSettled \/ ChildExits \/ FinalPoll
           \/ FinalAnswered \/ GiveUp \/ Close
  BY <1>8, SameCore
  DEF PollOnInterval, PollSettled, ChildExits, FinalPoll, FinalAnswered, GiveUp,
      Close, world
<1> QED
  BY <1>1, <1>2, <1>3, <1>4, <1>5, <1>6, <1>7, <1>8 DEF Next

\* One message more, or one less.
LEMMA Appended ==
    ASSUME NEW S, NEW s \in Seq(S), NEW e \in S
    PROVE  /\ Append(s, e) \in Seq(S) /\ Len(Append(s, e)) = Len(s) + 1
           /\ Len(s) \in Nat /\ Append(s, e) # <<>>
           /\ DOMAIN Append(s, e) = 1 .. Len(s) + 1 /\ DOMAIN s = 1 .. Len(s)
           /\ \A i \in 1 .. Len(s) : Append(s, e)[i] = s[i]
           /\ Append(s, e)[Len(s) + 1] = e
  OBVIOUS

LEMMA Taken ==
    ASSUME NEW S, NEW s \in Seq(S), s # <<>>
    PROVE  /\ Tail(s) \in Seq(S) /\ Len(s) \in Nat /\ Len(s) > 0
           /\ Len(Tail(s)) = Len(s) - 1 /\ DOMAIN s = 1 .. Len(s)
           /\ DOMAIN Tail(s) = 1 .. Len(s) - 1
           /\ \A i \in 1 .. Len(s) - 1 : Tail(s)[i] = s[i + 1]
           /\ Head(s) = s[1] /\ s[1] \in S
  OBVIOUS

\* What the worker says, and what is left of what it was told.
LEMMA AnswerIs ==
    ASSUME TypeOK, CoreInv(core, read.base, External), FileInv, WorkerPolls
    PROVE  \E v \in Breaches \cup {"none"} :
             /\ outbox' = Append(outbox, [kind |-> "result", verdict |-> v])
             /\ inbox # <<>> /\ inbox' = Tail(inbox)
             /\ Head(inbox).enforce =>
                  v = Verdict(core', Head(inbox).now, Head(inbox).terminal)
<1>1. core' \in Cores
  BY PollKeeps DEF CoreKept
<1>2. PICK v : v = IF Head(inbox).enforce \/ core'.breach # "none"
                   THEN Verdict(core', Head(inbox).now, Head(inbox).terminal)
                   ELSE "none"
  OBVIOUS
<1>3. v \in Breaches \cup {"none"}
  BY <1>1, <1>2, VerdictIs
<1>4. \/ core.breach # "none" /\ Answer(Head(inbox), core)
      \/ Answer(Head(inbox), ReadCaptured(core, Head(inbox).now))
      \/ \E torn \in BOOLEAN :
           Answer(Head(inbox), ReadExternal(core, file, torn, Head(inbox).now))
  BY DEF WorkerPolls
<1>5. /\ outbox' = Append(outbox, [kind |-> "result", verdict |-> v])
      /\ inbox' = Tail(inbox)
  BY <1>2, <1>4 DEF Answer
<1> QED
  BY <1>2, <1>3, <1>5 DEF WorkerPolls

LEMMA OutboxIs ==
    ASSUME TypeOK, outbox # <<>>
    PROVE  /\ Head(outbox) \in Reports /\ Head(outbox) = outbox[1]
           /\ Tail(outbox) \in Seq(Reports)
           /\ Head(outbox).kind = "result" =>
                Head(outbox).verdict \in Breaches \cup {"none"}
<1>1. outbox \in Seq(Reports)
  BY DEF TypeOK
<1>2. /\ Head(outbox) \in Reports /\ Head(outbox) = outbox[1]
      /\ Tail(outbox) \in Seq(Reports)
  BY <1>1
<1> QED
  BY <1>2 DEF Reports

\* What the supervisor posts is a message.
LEMMA PostIs ==
    ASSUME TypeOK
    PROVE  /\ [kind |-> "start", now |-> now] \in Messages
           /\ now \in Nat
           /\ \A at \in Nat, b \in BOOLEAN :
                [kind |-> "poll", now |-> at, enforce |-> TRUE, terminal |-> b]
                  \in Messages
           /\ \A chunk \in LineKinds \cup {"tail"} :
                [kind |-> "append", chunk |-> chunk] \in Messages
  BY DEF TypeOK, Messages

LEMMA Posted ==
    ASSUME TypeOK, NEW m \in Messages, Post(m)
    PROVE  inbox' \in Seq(Messages)
<1>1. inbox \in Seq(Messages) /\ inbox' = Append(inbox, m)
  BY DEF TypeOK, Post
<1> QED
  BY <1>1

LEMMA TypeStep == TelemetryInv /\ [Next]_vars => TypeOK'
<1> SUFFICES ASSUME TypeOK, StartInv, CoreInv(core, read.base, External), FileInv,
                    TelemetryInv, [Next]_vars
             PROVE  TypeOK'
  BY DEF TelemetryInv
<1>1. core' \in Cores /\ read' \in [base : Transcripts, last : Transcripts]
  BY CoreStep DEF CoreKept
<1>2. CASE Boot
  <2>1. /\ [kind |-> "error"] \in Reports /\ [kind |-> "ready"] \in Reports
    BY DEF Reports
  <2>2. outbox' \in Seq(Reports)
    <3>1. outbox \in Seq(Reports)
      BY DEF TypeOK
    <3>2. \/ outbox' = Append(outbox, [kind |-> "error"])
          \/ outbox' = Append(outbox, [kind |-> "ready"])
      BY <1>2 DEF Boot
    <3> QED
      BY <2>1, <3>1, <3>2
  <2>3. file' \in Files
    BY <1>2 DEF Boot, TypeOK, Files, world
  <2>4. worker' \in {"starting", "up", "dead"}
    BY <1>2 DEF Boot
  <2> QED
    BY <1>1, <1>2, <2>2, <2>3, <2>4 DEF Boot, TypeOK, world, thread
<1>3. CASE WorkerPolls
  <2>1. PICK v \in Breaches \cup {"none"} :
          /\ outbox' = Append(outbox, [kind |-> "result", verdict |-> v])
          /\ inbox # <<>> /\ inbox' = Tail(inbox)
    BY <1>3, AnswerIs
  <2>2. outbox' \in Seq(Reports)
    <3>1. [kind |-> "result", verdict |-> v] \in Reports
      BY DEF Reports
    <3> QED
      BY <2>1, <3>1 DEF TypeOK
  <2>3. inbox' \in Seq(Messages)
    BY <2>1, InboxIs
  <2>4. file' \in Files
    BY <1>3, PollKeeps
  <2> QED
    BY <1>1, <1>3, <2>2, <2>3, <2>4 DEF WorkerPolls, TypeOK, thread
<1>4. CASE WorkerStarts \/ WorkerAppends
  <2>1. inbox' \in Seq(Messages)
    BY <1>4, InboxIs DEF WorkerStarts, WorkerAppends
  <2> QED
    BY <1>1, <1>4, <2>1 DEF WorkerStarts, WorkerAppends, TypeOK, thread, world
<1>5. CASE AppendToFile \/ Touch \/ Truncate \/ Rewrite \/ Replace \/ Delete
  <2>1. PICK new \in Files : Change(new)
    BY <1>5, ChangeIs, BoundsAssumption DEF TypeOK
  <2> QED
    BY <1>1, <2>1 DEF Change, TypeOK, thread
<1>6. CASE Tick \/ WorkerDies \/ UNCHANGED vars
  BY <1>1, <1>6 DEF Tick, WorkerDies, world, thread, vars, TypeOK
<1>7. CASE HandleMessage
  <2>1. outbox # <<>> /\ outbox' = Tail(outbox)
    BY <1>7 DEF HandleMessage
  <2>2. /\ ready' \in {"pending", "fulfilled", "rejected"} /\ failed' \in BOOLEAN
        /\ poll' \in {"idle", "pending", "rejected", "none"} \cup Breaches
    BY <1>7, <2>1, OutboxIs DEF HandleMessage, Fail, TypeOK
  <2> QED
    BY <1>1, <1>7, <2>1, <2>2, OutboxIs DEF HandleMessage, TypeOK, world
<1>8. CASE WorkerGone
  BY <1>1, <1>8 DEF WorkerGone, Fail, TypeOK, world
<1>9. CASE Start
  <2>1. inbox' \in Seq(Messages)
    <3>1. inbox' = inbox \/ Post([kind |-> "start", now |-> now])
      BY <1>9 DEF Start
    <3> QED
      BY <3>1, PostIs, Posted DEF TypeOK
  <2> QED
    BY <1>1, <1>9, <2>1 DEF Start, TypeOK, world
<1>10. CASE AppendCaptured
  <2>1. PICK chunk \in LineKinds \cup {"tail"} :
          IF failed
          THEN /\ outcome' = First("error")
               /\ UNCHANGED <<sent, inbox>>
          ELSE /\ Post([kind |-> "append", chunk |-> chunk])
               /\ sent' = With(sent, chunk)
               /\ outcome' = IF Size(sent') > MaxSize THEN First("TRANSCRIPT_SIZE")
                             ELSE outcome
    BY <1>10, BoundsAssumption DEF AppendCaptured, Chunks
  <2>2. sent' \in Transcripts
    BY <2>1, WithIs DEF TypeOK
  <2>3. inbox' \in Seq(Messages)
    BY <2>1, PostIs, Posted DEF TypeOK
  <2>4. outcome' \in {"none", "clean", "error"} \cup Breaches
    BY <2>1 DEF First, Breaches, TypeOK
  <2> QED
    BY <1>1, <1>10, <2>2, <2>3, <2>4 DEF AppendCaptured, TypeOK
<1>11. CASE PollOnInterval
  <2>1. inbox' \in Seq(Messages)
    <3>1. \/ inbox' = inbox
          \/ Post([kind |-> "poll", now |-> now, enforce |-> TRUE,
                   terminal |-> FALSE])
      BY <1>11 DEF PollOnInterval, Ask
    <3> QED
      BY <3>1, PostIs, Posted DEF TypeOK
  <2> QED
    BY <1>1, <1>11, <2>1 DEF PollOnInterval, Ask, TypeOK, world
<1>12. CASE PollSettled
  <2>1. outcome' \in {"none", "clean", "error"} \cup Breaches
    BY <1>12 DEF PollSettled, First, TypeOK
  <2> QED
    BY <1>1, <1>12, <2>1 DEF PollSettled, TypeOK, world
<1>13. CASE ChildExits
  BY <1>1, <1>13 DEF ChildExits, TypeOK, world
<1>14. CASE FinalPoll
  <2>1. inbox' \in Seq(Messages)
    <3>1. PICK at \in Nat :
            \/ inbox' = inbox
            \/ Post([kind |-> "poll", now |-> at, enforce |-> TRUE,
                     terminal |-> TRUE])
      BY <1>14 DEF FinalPoll, Ask, TypeOK
    <3> QED
      BY <3>1, PostIs, Posted DEF TypeOK
  <2> QED
    BY <1>1, <1>14, <2>1 DEF FinalPoll, Ask, TypeOK, world
<1>15. CASE FinalAnswered
  <2>1. outcome' \in {"none", "clean", "error"} \cup Breaches
    BY <1>15 DEF FinalAnswered, First, TypeOK, TelemetryInv, PendingInv
  <2> QED
    BY <1>1, <1>15, <2>1 DEF FinalAnswered, TypeOK, world
<1>16. CASE GiveUp \/ Close
  BY <1>1, <1>16 DEF GiveUp, Close, First, TypeOK, world
<1> QED
  BY <1>2, <1>3, <1>4, <1>5, <1>6, <1>7, <1>8, <1>9, <1>10, <1>11, <1>12, <1>13,
     <1>14, <1>15, <1>16 DEF Next

LEMMA StartInvStep == TelemetryInv /\ [Next]_vars => StartInv'
<1> SUFFICES ASSUME TypeOK, StartInv, [Next]_vars PROVE StartInv'
  BY DEF TelemetryInv
<1> USE DEF StartInv
<1>1. CASE Boot \/ WorkerPolls \/ WorkerStarts \/ WorkerAppends
  <2>1. worker' # "starting" /\ phase' = phase /\ ready' = ready
    BY <1>1 DEF Boot, WorkerPolls, WorkerStarts, WorkerAppends, thread, world
  <2> QED
    BY <2>1
<1>2. CASE AppendToFile \/ Touch \/ Truncate \/ Rewrite \/ Replace \/ Delete
  <2>1. PICK new : Change(new)
    BY <1>2 DEF AppendToFile, Touch, Truncate, Rewrite, Replace, Delete
  <2> QED
    BY <2>1 DEF Change, thread
<1>3. CASE Tick \/ WorkerDies \/ UNCHANGED vars
  BY <1>3 DEF Tick, WorkerDies, world, thread, vars
<1>4. CASE HandleMessage \/ WorkerGone
  BY <1>4 DEF HandleMessage, WorkerGone, Fail, world
<1>5. CASE Start
  BY <1>5 DEF Start, world
<1>6. CASE AppendCaptured \/ PollOnInterval
  BY <1>6 DEF AppendCaptured, PollOnInterval, world
<1>7. CASE PollSettled \/ ChildExits \/ FinalPoll
  BY <1>7 DEF PollSettled, ChildExits, FinalPoll, world
<1>8. CASE FinalAnswered \/ GiveUp \/ Close
  BY <1>8 DEF FinalAnswered, GiveUp, Close, world
<1> QED
  BY <1>1, <1>2, <1>3, <1>4, <1>5, <1>6, <1>7, <1>8 DEF Next

LEMMA FileInvStep == TelemetryInv /\ [Next]_vars => FileInv'
<1> SUFFICES ASSUME TypeOK, StartInv, CoreInv(core, read.base, External), FileInv,
                    [Next]_vars
             PROVE  FileInv'
  BY DEF TelemetryInv
<1>1. CASE Boot
  <2>1. CASE worker' = "dead"
    BY <1>1, <2>1 DEF Boot, FileInv, External, world
  <2>2. CASE worker' # "dead"
    <3>1. External' = External /\ worker' = "up"
      BY <1>1, <2>2 DEF Boot, External, world
    <3>2. file'.kind = file.kind /\ file'.raw = file.raw
      BY <1>1, <2>2 DEF Boot, TypeOK, Files
    <3>3. External /\ core'.known => core'.previous = file.raw
      BY <1>1, <3>1, BootKeeps
    <3> QED
      BY <3>1, <3>2, <3>3 DEF FileInv
  <2> QED
    BY <2>1, <2>2
<1>2. CASE WorkerPolls
  BY <1>2, PollKeeps
<1>3. CASE WorkerStarts
  <2>1. /\ core'.breach = core.breach /\ core'.known = core.known
        /\ core'.previous = core.previous /\ file' = file /\ External' = External
    BY <1>3, StartKeeps DEF WorkerStarts, world, External
  <2> QED
    BY <2>1 DEF FileInv
<1>4. CASE WorkerAppends
  <2>1. /\ core'.breach = "none" => core.breach = "none"
        /\ core'.known = core.known
        /\ core'.previous = core.previous /\ file' = file /\ External' = External
    BY <1>4, AppendKeeps DEF WorkerAppends, world, External
  <2> QED
    BY <2>1 DEF FileInv
<1>5. CASE AppendToFile \/ Touch \/ Truncate \/ Rewrite \/ Replace \/ Delete
  <2>1. PICK new \in Files :
          /\ Change(new)
          /\ new.kind # "regular" => new.raw = Empty
          /\ new.kind = "regular" => new.touched
    BY <1>5, ChangeIs, BoundsAssumption DEF TypeOK
  <2> QED
    BY <2>1 DEF Change, FileInv
<1>6. CASE Tick \/ WorkerDies \/ UNCHANGED vars
  BY <1>6 DEF Tick, WorkerDies, world, vars, FileInv, External
<1>7. CASE HandleMessage \/ WorkerGone \/ Start \/ AppendCaptured
  BY <1>7 DEF HandleMessage, WorkerGone, Start, AppendCaptured, world, FileInv,
              External
<1>8. CASE \/ PollOnInterval \/ PollSettled \/ ChildExits \/ FinalPoll
           \/ FinalAnswered \/ GiveUp \/ Close
  BY <1>8
  DEF PollOnInterval, PollSettled, ChildExits, FinalPoll, FinalAnswered, GiveUp,
      Close, world, FileInv, External
<1> QED
  BY <1>1, <1>2, <1>3, <1>4, <1>5, <1>6, <1>7, <1>8 DEF Next

-----------------------------------------------------------------------------
(* The messages.                                                            *)

LEMMA WhereAppended ==
    ASSUME NEW S, NEW box \in Seq(S), NEW m \in S, NEW kind
    PROVE  Where(kind, Append(box, m)) =
             Where(kind, box) \cup (IF m.kind = kind THEN {Len(box) + 1} ELSE {})
<1>1. PICK more : more = Append(box, m)
  OBVIOUS
<1>2. /\ DOMAIN more = 1 .. Len(box) + 1 /\ DOMAIN box = 1 .. Len(box)
      /\ Len(box) \in Nat /\ more[Len(box) + 1] = m
      /\ \A i \in 1 .. Len(box) : more[i] = box[i]
  BY <1>1
<1>3. \A i : i \in 1 .. Len(box) + 1 <=> i \in 1 .. Len(box) \/ i = Len(box) + 1
  BY <1>2
<1> QED
  BY <1>1, <1>2, <1>3 DEF Where

LEMMA WhereTaken ==
    ASSUME NEW S, NEW box \in Seq(S), box # <<>>, NEW kind
    PROVE  /\ \A i \in Where(kind, Tail(box)) : i \in Nat /\ i + 1 \in Where(kind, box)
           /\ \A i \in Where(kind, box) :
                i \in Nat /\ (i # 1 => i - 1 \in Where(kind, Tail(box)))
           /\ \A i \in Where(kind, Tail(box)) : Tail(box)[i] = box[i + 1]
           /\ Head(box).kind = kind <=> 1 \in Where(kind, box)
<1>1. PICK rest : rest = Tail(box)
  OBVIOUS
<1>2. /\ Len(box) \in Nat /\ Len(box) > 0 /\ Len(rest) = Len(box) - 1
      /\ DOMAIN box = 1 .. Len(box) /\ DOMAIN rest = 1 .. Len(box) - 1
      /\ \A i \in 1 .. Len(box) - 1 : rest[i] = box[i + 1]
      /\ Head(box) = box[1]
  BY <1>1
<1>3. \A i \in 1 .. Len(box) - 1 : i \in Nat /\ i + 1 \in 1 .. Len(box)
  BY <1>2
<1>4. \A i \in 1 .. Len(box) :
        i \in Nat /\ (i # 1 => i - 1 \in 1 .. Len(box) - 1 /\ (i - 1) + 1 = i)
  BY <1>2
<1>5. 1 \in 1 .. Len(box)
  BY <1>2
<1>6. \A i \in Where(kind, rest) : i \in 1 .. Len(box) - 1 /\ rest[i].kind = kind
  BY <1>2 DEF Where
<1>7. \A i : i \in Where(kind, box) <=> i \in 1 .. Len(box) /\ box[i].kind = kind
  BY <1>2 DEF Where
<1>8. ASSUME NEW i \in Where(kind, box), i # 1 PROVE i - 1 \in Where(kind, rest)
  <2>1. /\ i - 1 \in 1 .. Len(box) - 1 /\ (i - 1) + 1 = i /\ box[i].kind = kind
    BY <1>4, <1>7, <1>8
  <2>2. rest[i - 1] = box[i]
    BY <1>2, <2>1
  <2> QED
    BY <1>2, <2>1, <2>2 DEF Where
<1> QED
  BY <1>1, <1>2, <1>3, <1>4, <1>5, <1>6, <1>7, <1>8

\* Another message: the sequence of transcripts is one longer, or one shorter.
LEMMA CarriesMore ==
    ASSUME NEW box \in Seq(Messages), NEW m \in Messages, NEW first, NEW last,
           Carries(first, box, last)
    PROVE  Carries(first, Append(box, m), Effect(last, m))
<1>1. PICK h \in [1 .. Len(box) + 1 -> Transcripts] :
        /\ h[1] = first /\ h[Len(box) + 1] = last
        /\ \A i \in 1 .. Len(box) : h[i + 1] = Effect(h[i], box[i])
  BY DEF Carries
<1>2. PICK more : more = Append(box, m)
  OBVIOUS
<1>3. /\ Len(more) = Len(box) + 1 /\ Len(box) \in Nat /\ more[Len(box) + 1] = m
      /\ \A i \in 1 .. Len(box) : more[i] = box[i]
  BY <1>2
<1>4. Effect(last, m) \in Transcripts
  <2>1. last \in Transcripts
    BY <1>1, <1>3
  <2>2. m.kind = "append" => m.chunk \in LineKinds \cup {"tail"}
    BY DEF Messages
  <2> QED
    BY <2>1, <2>2, WithIs DEF Effect
<1>5. PICK g : g = [i \in 1 .. Len(box) + 2 |->
                      IF i = Len(box) + 2 THEN Effect(last, m) ELSE h[i]]
  OBVIOUS
<1>6. /\ g[Len(box) + 2] = Effect(last, m)
      /\ \A i \in 1 .. Len(box) + 1 : g[i] = h[i]
      /\ g \in [1 .. Len(box) + 2 -> Transcripts]
  <2>1. \A i \in 1 .. Len(box) + 1 : i \in 1 .. Len(box) + 2 /\ i # Len(box) + 2
    BY <1>3
  <2>2. \A i \in 1 .. Len(box) + 2 : i # Len(box) + 2 => i \in 1 .. Len(box) + 1
    BY <1>3
  <2>3. Len(box) + 2 \in 1 .. Len(box) + 2
    BY <1>3
  <2> QED
    BY <1>1, <1>4, <1>5, <2>1, <2>2, <2>3
<1>7. g[1] = first
  BY <1>1, <1>3, <1>6
<1>8. ASSUME NEW i \in 1 .. Len(box) + 1 PROVE g[i + 1] = Effect(g[i], more[i])
  <2>1. CASE i = Len(box) + 1
    BY <1>1, <1>3, <1>6, <2>1
  <2>2. CASE i # Len(box) + 1
    <3>1. i \in 1 .. Len(box) /\ i + 1 \in 1 .. Len(box) + 1
      BY <1>3, <2>2
    <3> QED
      BY <1>1, <1>3, <1>6, <3>1
  <2> QED
    BY <2>1, <2>2
<1>9. Len(more) + 1 = Len(box) + 2
  BY <1>3
<1> QED
  BY <1>2, <1>3, <1>6, <1>7, <1>8, <1>9 DEF Carries

LEMMA CarriesLess ==
    ASSUME NEW box \in Seq(Messages), box # <<>>, NEW first, NEW last,
           Carries(first, box, last)
    PROVE  Carries(Effect(first, Head(box)), Tail(box), last)
<1>1. PICK h \in [1 .. Len(box) + 1 -> Transcripts] :
        /\ h[1] = first /\ h[Len(box) + 1] = last
        /\ \A i \in 1 .. Len(box) : h[i + 1] = Effect(h[i], box[i])
  BY DEF Carries
<1>2. PICK rest : rest = Tail(box)
  OBVIOUS
<1>3. /\ Len(rest) = Len(box) - 1 /\ Len(box) \in Nat /\ Len(box) > 0
      /\ Head(box) = box[1]
      /\ \A i \in 1 .. Len(box) - 1 : rest[i] = box[i + 1]
  BY <1>2
<1>4. PICK g : g = [i \in 1 .. Len(box) |-> h[i + 1]]
  OBVIOUS
<1>5. \A i \in 1 .. Len(box) : i + 1 \in 1 .. Len(box) + 1
  BY <1>3
<1>6. g \in [1 .. Len(box) -> Transcripts] /\ \A i \in 1 .. Len(box) : g[i] = h[i + 1]
  BY <1>1, <1>4, <1>5
<1>7. 1 \in 1 .. Len(box) /\ Len(box) \in 1 .. Len(box)
  BY <1>3
<1>8. g[1] = Effect(first, Head(box)) /\ g[Len(box)] = last
  <2>1. h[1 + 1] = Effect(h[1], box[1])
    BY <1>1, <1>7
  <2> QED
    BY <1>1, <1>3, <1>6, <1>7, <2>1
<1>9. ASSUME NEW i \in 1 .. Len(box) - 1 PROVE g[i + 1] = Effect(g[i], rest[i])
  <2>1. i \in 1 .. Len(box) /\ i + 1 \in 1 .. Len(box)
    BY <1>3
  <2>2. h[(i + 1) + 1] = Effect(h[i + 1], box[i + 1])
    BY <1>1, <2>1
  <2> QED
    BY <1>3, <1>6, <2>1, <2>2
<1>10. Len(rest) + 1 = Len(box)
  BY <1>3
<1> QED
  BY <1>2, <1>3, <1>6, <1>8, <1>9, <1>10 DEF Carries

LEMMA CarriesNone == ASSUME NEW r \in Transcripts PROVE Carries(r, <<>>, r)
<1>1. PICK h : h = [i \in 1 .. 1 |-> r]
  OBVIOUS
<1>2. h \in [1 .. 1 -> Transcripts] /\ h[1] = r
  BY <1>1
<1>3. Len(<<>>) = 0
  OBVIOUS
<1> QED
  BY <1>2, <1>3 DEF Carries

LEMMA FlowStep == TelemetryInv /\ [Next]_vars => FlowInv'
<1> SUFFICES ASSUME TypeOK, StartInv, CoreInv(core, read.base, External), FileInv,
                    FlowInv, [Next]_vars
             PROVE  FlowInv'
  BY DEF TelemetryInv
<1>1. inbox \in Seq(Messages) /\ core \in Cores
  BY DEF TypeOK
<1>2. ASSUME transport' = transport, core' = core, inbox' = inbox, sent' = sent
      PROVE  FlowInv'
  BY <1>2 DEF FlowInv, External
<1>3. ASSUME transport' = transport, core' = core, NEW m \in Messages, Post(m),
             sent' = Effect(sent, m)
      PROVE  FlowInv'
  <2>1. External' = External
    BY <1>3 DEF External
  <2>2. ASSUME Carries(core.captured, inbox, sent)
        PROVE  Carries(core.captured, Append(inbox, m), Effect(sent, m))
    BY <1>1, <1>3, <2>2, CarriesMore
  <2> QED
    BY <1>3, <2>1, <2>2 DEF FlowInv, Post
<1>4. ASSUME transport' = transport, inbox # <<>>, inbox' = Tail(inbox), sent' = sent,
             ~External /\ core'.breach = "none" =>
               /\ core.breach = "none"
               /\ core'.captured = Effect(core.captured, Head(inbox))
      PROVE  FlowInv'
  <2>1. External' = External
    BY <1>4 DEF External
  <2>2. ASSUME Carries(core.captured, inbox, sent)
        PROVE  Carries(Effect(core.captured, Head(inbox)), Tail(inbox), sent)
    BY <1>1, <1>4, <2>2, CarriesLess
  <2> QED
    BY <1>4, <2>1, <2>2 DEF FlowInv
<1>5. CASE Boot
  <2>1. transport' = transport /\ inbox' = inbox /\ sent' = sent
    BY <1>5 DEF Boot, world
  <2>2. External' = External
    BY <2>1 DEF External
  <2>3. ~External => core' = core
    BY <1>5, BootKeeps DEF Boot
  <2> QED
    BY <2>1, <2>2, <2>3 DEF FlowInv
<1>6. CASE WorkerPolls
  <2>1. /\ transport' = transport /\ inbox # <<>> /\ inbox' = Tail(inbox)
        /\ sent' = sent /\ Head(inbox).kind = "poll"
    BY <1>6, AnswerIs DEF WorkerPolls
  <2>2. /\ core'.breach = "none" => core.breach = "none"
        /\ ~External => core'.captured = core.captured
    BY <1>6, PollKeeps DEF CoreKept, Grows
  <2> QED
    BY <1>4, <2>1, <2>2 DEF Effect
<1>7. CASE WorkerStarts
  <2>1. /\ transport' = transport /\ inbox # <<>> /\ inbox' = Tail(inbox)
        /\ sent' = sent /\ Head(inbox).kind = "start"
    BY <1>7 DEF WorkerStarts, world
  <2>2. core'.breach = core.breach /\ core'.captured = core.captured
    BY <1>7, StartKeeps
  <2> QED
    BY <1>4, <2>1, <2>2 DEF Effect
<1>8. CASE WorkerAppends
  <2>1. /\ transport' = transport /\ inbox # <<>> /\ inbox' = Tail(inbox)
        /\ sent' = sent /\ Head(inbox).kind = "append"
    BY <1>8 DEF WorkerAppends, world
  <2>2. core'.breach = "none" =>
          /\ core.breach = "none"
          /\ core'.captured = With(core.captured, Head(inbox).chunk)
    BY <1>8, AppendKeeps
  <2> QED
    BY <1>4, <2>1, <2>2 DEF Effect
<1>9. CASE AppendToFile \/ Touch \/ Truncate \/ Rewrite \/ Replace \/ Delete
  <2>1. PICK new : Change(new)
    BY <1>9 DEF AppendToFile, Touch, Truncate, Rewrite, Replace, Delete
  <2> QED
    BY <1>2, <2>1 DEF Change
<1>10. CASE \/ Tick \/ WorkerDies \/ UNCHANGED vars \/ HandleMessage \/ WorkerGone
            \/ PollSettled \/ ChildExits \/ FinalAnswered \/ GiveUp \/ Close
  BY <1>2, <1>10
  DEF Tick, WorkerDies, vars, HandleMessage, WorkerGone, PollSettled, ChildExits,
      FinalAnswered, GiveUp, Close, world
<1>11. CASE Start
  <2>1. transport' = transport /\ core' = core /\ sent' = sent
    BY <1>11 DEF Start, world
  <2>2. CASE inbox' = inbox
    BY <1>2, <2>1, <2>2
  <2>3. CASE inbox' # inbox
    <3>1. PICK m \in Messages : m = [kind |-> "start", now |-> now] /\ Post(m)
      BY <1>11, <2>3, PostIs DEF Start
    <3>2. Effect(sent, m) = sent
      BY <3>1 DEF Effect
    <3> QED
      BY <1>3, <2>1, <3>1, <3>2
  <2> QED
    BY <2>2, <2>3
<1>12. CASE AppendCaptured
  <2>1. transport' = transport /\ core' = core
    BY <1>12 DEF AppendCaptured
  <2>2. CASE failed
    BY <1>2, <1>12, <2>1, <2>2 DEF AppendCaptured
  <2>3. CASE ~failed
    <3>1. PICK chunk \in LineKinds \cup {"tail"} :
            Post([kind |-> "append", chunk |-> chunk]) /\ sent' = With(sent, chunk)
      BY <1>12, <2>3, BoundsAssumption DEF AppendCaptured, Chunks
    <3>2. PICK m \in Messages : m = [kind |-> "append", chunk |-> chunk]
      BY PostIs
    <3>3. Effect(sent, m) = sent'
      BY <3>1, <3>2 DEF Effect
    <3> QED
      BY <1>3, <2>1, <3>1, <3>2, <3>3
  <2> QED
    BY <2>2, <2>3
<1>13. CASE PollOnInterval \/ FinalPoll
  <2>1. transport' = transport /\ core' = core /\ sent' = sent
    BY <1>13 DEF PollOnInterval, FinalPoll, world
  <2>2. CASE inbox' = inbox
    BY <1>2, <2>1, <2>2
  <2>3. CASE inbox' # inbox
    <3>1. PICK at \in Nat, b \in BOOLEAN :
            Post([kind |-> "poll", now |-> at, enforce |-> TRUE, terminal |-> b])
      BY <1>13, <2>3 DEF PollOnInterval, FinalPoll, Ask, TypeOK
    <3>2. PICK m \in Messages :
            m = [kind |-> "poll", now |-> at, enforce |-> TRUE, terminal |-> b]
      BY PostIs
    <3>3. Effect(sent, m) = sent
      BY <3>2 DEF Effect
    <3> QED
      BY <1>3, <2>1, <3>1, <3>2, <3>3
  <2> QED
    BY <2>2, <2>3
<1> QED
  BY <1>5, <1>6, <1>7, <1>8, <1>9, <1>10, <1>11, <1>12, <1>13 DEF Next

LEMMA PendingStep == TelemetryInv /\ [Next]_vars => PendingInv'
<1> SUFFICES ASSUME TelemetryInv, TypeOK, StartInv, CoreInv(core, read.base, External),
                    FileInv, PendingInv, [Next]_vars
             PROVE  PendingInv'
  BY DEF TelemetryInv
<1> DEFINE P == PollsIn(inbox)
           R == ResultsIn(outbox)
<1>1. inbox \in Seq(Messages) /\ outbox \in Seq(Reports)
  BY DEF TypeOK
<1>2. ASSUME PollsIn(inbox') = P, ResultsIn(outbox') = R, failed' = failed, poll' = poll,
             \/ phase' = phase
             \/ phase \notin {"closing", "done"} /\ phase' # "final"
      PROVE  PendingInv'
  BY <1>2 DEF PendingInv
<1>3. ASSUME NEW m \in Messages, Post(m)
      PROVE  PollsIn(inbox') = P \cup (IF m.kind = "poll" THEN {Len(inbox) + 1} ELSE {})
  BY <1>1, <1>3, WhereAppended DEF Post, PollsIn
<1>4. "pending" \notin Breaches /\ "idle" \notin Breaches
  BY DEF Breaches
<1>5. CASE Boot
  <2>1. ResultsIn(outbox') = R
    <3>1. [kind |-> "error"] \in Reports /\ [kind |-> "ready"] \in Reports
      BY DEF Reports
    <3>2. \/ outbox' = Append(outbox, [kind |-> "error"])
          \/ outbox' = Append(outbox, [kind |-> "ready"])
      BY <1>5 DEF Boot
    <3>3. ASSUME NEW m \in Reports, m.kind # "result", outbox' = Append(outbox, m)
          PROVE  ResultsIn(outbox') = R
      <4>1. Where("result", Append(outbox, m)) =
              Where("result", outbox)
                \cup (IF m.kind = "result" THEN {Len(outbox) + 1} ELSE {})
        BY ONLY <1>1, m \in Reports, WhereAppended
      <4> QED
        BY <3>3, <4>1 DEF ResultsIn
    <3> QED
      BY <3>1, <3>2, <3>3
  <2> QED
    BY <1>2, <1>5, <2>1 DEF Boot, thread
<1>6. CASE WorkerPolls
  <2>1. PICK v \in Breaches \cup {"none"} :
          /\ outbox' = Append(outbox, [kind |-> "result", verdict |-> v])
          /\ inbox # <<>> /\ inbox' = Tail(inbox)
    BY <1>6, AnswerIs
  <2>2. 1 \in P
    BY <1>1, <1>6, <2>1, WhereTaken DEF WorkerPolls, PollsIn
  <2>3. ResultsIn(outbox') = R \cup {Len(outbox) + 1}
    <3>1. [kind |-> "result", verdict |-> v] \in Reports
      BY DEF Reports
    <3>2. PICK m \in Reports : m = [kind |-> "result", verdict |-> v]
      BY <3>1
    <3> QED
      BY <1>1, <2>1, <3>2, WhereAppended DEF ResultsIn
  <2>4. failed' = failed /\ poll' = poll /\ phase' = phase
    BY <1>6 DEF WorkerPolls, thread
  <2>5. ASSUME ~failed, phase \notin {"closing", "done"}
        PROVE  /\ poll = "pending" /\ PollsIn(inbox') = {}
               /\ \A i, j \in ResultsIn(outbox') : i = j
    <3>1. poll = "pending" /\ R = {} /\ P = {1}
      BY <2>2, <2>5 DEF PendingInv
    <3>2. ASSUME NEW i \in PollsIn(inbox') PROVE FALSE
      <4>1. i \in Nat /\ i + 1 \in P
        BY <1>1, <2>1, <3>2, WhereTaken DEF PollsIn
      <4>2. i \in 1 .. Len(Tail(inbox))
        BY <1>1, <2>1, <3>2 DEF PollsIn, Where
      <4> QED
        BY <3>1, <4>1, <4>2
    <3> QED
      BY <2>3, <3>1, <3>2
  <2> QED
    BY <2>4, <2>5 DEF PendingInv
<1>7. CASE WorkerStarts \/ WorkerAppends
  <2>1. /\ inbox # <<>> /\ inbox' = Tail(inbox) /\ outbox' = outbox
        /\ failed' = failed /\ poll' = poll /\ phase' = phase
    BY <1>7 DEF WorkerStarts, WorkerAppends, thread
  <2>2. \A i \in PollsIn(inbox') : i \in Nat /\ i + 1 \in P
    BY <1>1, <2>1, WhereTaken DEF PollsIn
  <2>3. P = {} => PollsIn(inbox') = {}
    BY <2>2
  <2>4. (\A i, j \in P : i = j) => \A i, j \in PollsIn(inbox') : i = j
    BY <2>2
  <2> QED
    BY <2>1, <2>3, <2>4 DEF PendingInv
<1>8. CASE HandleMessage
  <2>1. outbox # <<>> /\ outbox' = Tail(outbox) /\ inbox' = inbox /\ phase' = phase
    BY <1>8 DEF HandleMessage
  <2>2. \A i \in ResultsIn(outbox') : i \in Nat /\ i + 1 \in R
    BY <1>1, <2>1, WhereTaken DEF ResultsIn
  <2>3. R = {} => ResultsIn(outbox') = {}
    BY <2>2
  <2>4. (\A i, j \in R : i = j) => \A i, j \in ResultsIn(outbox') : i = j
    BY <2>2
  <2>5. CASE Head(outbox).kind = "result"
    <3>1. 1 \in R
      BY <1>1, <2>1, <2>5, WhereTaken DEF ResultsIn
    <3>2. /\ failed' = failed /\ poll' # "pending" /\ (poll # "idle" => poll' # "idle")
      BY <1>4, <1>8, <2>1, <2>5, OutboxIs DEF HandleMessage
    <3>3. ASSUME ~failed, phase \notin {"closing", "done"}
          PROVE  P = {} /\ ResultsIn(outbox') = {}
      <4>1. P = {} /\ R = {1}
        BY <3>1, <3>3 DEF PendingInv
      <4>2. ASSUME NEW i \in ResultsIn(outbox') PROVE FALSE
        <5>1. i \in Nat /\ i + 1 \in R
          BY <2>2
        <5>2. i \in 1 .. Len(Tail(outbox))
          BY <1>1, <2>1, <4>2 DEF ResultsIn, Where
        <5> QED
          BY <4>1, <5>1, <5>2
      <4> QED
        BY <4>1, <4>2
    <3> QED
      BY <2>1, <3>2, <3>3 DEF PendingInv
  <2>6. CASE Head(outbox).kind = "ready"
    <3>1. failed' = failed /\ poll' = poll
      BY <1>8, <2>6 DEF HandleMessage
    <3> QED
      BY <2>1, <2>3, <2>4, <3>1 DEF PendingInv
  <2>7. CASE Head(outbox).kind = "error"
    <3>1. failed' = TRUE /\ poll' # "pending" /\ (poll # "idle" => poll' # "idle")
      BY <1>8, <2>7 DEF HandleMessage, Fail, PendingInv, TypeOK
    <3> QED
      BY <2>1, <3>1 DEF PendingInv
  <2> QED
    BY <1>8, <2>5, <2>6, <2>7 DEF HandleMessage
<1>9. CASE WorkerGone
  BY <1>9 DEF WorkerGone, Fail, PendingInv
<1>10. CASE Start
  <2>1. PollsIn(inbox') = P
    <3>1. inbox' = inbox \/ Post([kind |-> "start", now |-> now])
      BY <1>10 DEF Start
    <3>2. PICK m \in Messages : m = [kind |-> "start", now |-> now]
      BY PostIs
    <3> QED
      BY <1>3, <3>1, <3>2
  <2> QED
    BY <1>2, <1>10, <2>1 DEF Start
<1>11. CASE AppendCaptured
  <2>1. PollsIn(inbox') = P
    <3>1. PICK chunk \in LineKinds \cup {"tail"} :
            inbox' = inbox \/ Post([kind |-> "append", chunk |-> chunk])
      BY <1>11, BoundsAssumption DEF AppendCaptured, Chunks
    <3>2. PICK m \in Messages : m = [kind |-> "append", chunk |-> chunk]
      BY PostIs
    <3> QED
      BY <1>3, <3>1, <3>2
  <2> QED
    BY <1>2, <1>11, <2>1 DEF AppendCaptured
<1>12. CASE PollOnInterval \/ FinalPoll
  <2>1. /\ poll = "idle" /\ outbox' = outbox /\ failed' = failed
        /\ phase \in {"running", "waiting"} /\ poll' \in {"rejected", "pending"}
    BY <1>12 DEF PollOnInterval, FinalPoll, Ask
  <2>2. CASE failed
    BY <1>12, <2>1, <2>2 DEF PollOnInterval, FinalPoll, Ask, PendingInv
  <2>3. CASE ~failed
    <3>1. P = {} /\ R = {} /\ poll' = "pending"
      BY <1>12, <2>1, <2>3 DEF PollOnInterval, FinalPoll, Ask, PendingInv
    <3>2. PollsIn(inbox') = {Len(inbox) + 1}
      <4>1. PICK at \in Nat, b \in BOOLEAN :
              Post([kind |-> "poll", now |-> at, enforce |-> TRUE, terminal |-> b])
        BY <1>12, <2>3 DEF PollOnInterval, FinalPoll, Ask, TypeOK
      <4>2. PICK m \in Messages :
              m = [kind |-> "poll", now |-> at, enforce |-> TRUE, terminal |-> b]
        BY PostIs
      <4>3. Post(m) /\ m.kind = "poll"
        BY <4>1, <4>2
      <4> QED
        BY <1>3, <3>1, <4>3
    <3> QED
      BY <2>1, <2>3, <3>1, <3>2 DEF PendingInv
  <2> QED
    BY <2>2, <2>3
<1>13. CASE PollSettled
  BY <1>13 DEF PollSettled, PendingInv
<1>14. CASE AppendToFile \/ Touch \/ Truncate \/ Rewrite \/ Replace \/ Delete
  <2>1. PICK new : Change(new)
    BY <1>14 DEF AppendToFile, Touch, Truncate, Rewrite, Replace, Delete
  <2> QED
    BY <1>2, <2>1 DEF Change, thread
<1>15. CASE Tick \/ WorkerDies \/ UNCHANGED vars \/ ChildExits
  BY <1>2, <1>15 DEF Tick, WorkerDies, vars, ChildExits, world, thread
<1>16. CASE FinalAnswered \/ GiveUp \/ Close
  BY <1>16 DEF FinalAnswered, GiveUp, Close, PendingInv
<1> QED
  BY <1>5, <1>6, <1>7, <1>8, <1>9, <1>10, <1>11, <1>12, <1>13, <1>14, <1>15, <1>16
  DEF Next

-----------------------------------------------------------------------------
(* The last poll.                                                           *)

\* When the last message is the last poll and it finds nothing, nothing is wrong.
LEMMA TellsTruth ==
    ASSUME TypeOK, CoreInv(core, read.base, External), FileInv, FlowInv, WorkerPolls,
           Tail(inbox) = <<>>, Head(inbox).terminal,
           Verdict(core', Head(inbox).now, Head(inbox).terminal) = "none"
    PROVE  Kept'
<1>1. PICK d \in Cores, base \in Transcripts, last \in Transcripts :
        d = core' /\ base = read'.base /\ last = read'.last
  BY PollKeeps DEF CoreKept
<1>2. /\ inbox \in Seq(Messages) /\ inbox # <<>> /\ Head(inbox).kind = "poll"
      /\ External' = External /\ sent' = sent
  BY DEF TypeOK, WorkerPolls, External
<1>3. PICK t \in Nat : t = Head(inbox).now
  BY <1>2, InboxIs
<1>4. Verdict(d, t, TRUE) = "none"
  <2>1. Head(inbox).terminal = TRUE
    BY <1>2, InboxIs
  <2> QED
    BY <1>1, <1>3, <2>1
<1>5. CoreInv(d, base, External)
  BY <1>1, <1>2, PollKeeps DEF CoreKept
<1>6. /\ Numbered(d, base) /\ Based(d, base) /\ Extends(Seen(d, base), base)
  <2>1. Seen(d, base) \in Transcripts
    BY DEF Seen, Cores
  <2>2. CASE External
    BY <1>5, <2>2 DEF CoreInv, FollowsFile
  <2>3. CASE ~External
    BY <1>5, <2>1, <2>3, ExtendsOrder, EmptyIs DEF CoreInv, FollowsCaptured
  <2> QED
    BY <1>5, <2>2, <2>3 DEF CoreInv
<1>7. /\ d.breach = "none" /\ d.errorSince = None
      /\ ~Seen(d, base).tail /\ Whole(Seen(d, base).lines)
      /\ \/ \A limit \in DOMAIN Limits : Limits[limit] = None
         \/ /\ d.status # "WAITING"
            /\ Within(Seen(d, base).lines, base.lines)
  BY ONLY <1>4, <1>6, d \in Cores, base \in Transcripts, t \in Nat, NothingFound
<1>8. /\ Seen(d, base) = last /\ (d.status # "WAITING" => Size(last) > 0)
      /\ ~External => last = core.captured
  BY <1>1, <1>7, PollKeeps
<1>9. ~External => last = sent
  <2>1. ASSUME ~External PROVE core.captured = sent
    <3>1. core.breach = "none"
      BY <1>1, <1>7, PollKeeps DEF CoreKept, Grows
    <3>2. Carries(core.captured, inbox, sent)
      BY <2>1, <3>1 DEF FlowInv
    <3>3. Carries(Effect(core.captured, Head(inbox)), Tail(inbox), sent)
      BY <1>2, <3>2, CarriesLess
    <3>4. Carries(core.captured, <<>>, sent)
      BY <1>2, <3>3 DEF Effect
    <3>5. Len(<<>>) = 0
      OBVIOUS
    <3> QED
      BY <3>4, <3>5 DEF Carries
  <2> QED
    BY <1>8, <2>1
<1>10. Of("junk", last.lines) = {}
  BY <1>7, <1>8 DEF Of, Whole
<1>11. Size(last) > 0 /\ ~last.tail => last.lines # <<>>
  BY SizeIs
<1>12. /\ ~last.tail /\ Of("junk", last.lines) = {} /\ Extends(last, base)
       /\ ~External => last = sent
       /\ \/ \A limit \in DOMAIN Limits : Limits[limit] = None
          \/ last.lines # <<>> /\ Within(last.lines, base.lines)
  BY <1>6, <1>7, <1>8, <1>9, <1>10, <1>11
<1> QED
  BY <1>1, <1>2, <1>12 DEF Kept

\* The last poll stays the last message until it is answered, and its answer is
\* the truth about what the worker has read.
LEMMA FinalStep == TelemetryInv /\ [Next]_vars => FinalInv'
<1> SUFFICES ASSUME TypeOK, StartInv, CoreInv(core, read.base, External), FileInv,
                    PendingInv, FinalInv, FlowInv, [Next]_vars
             PROVE  FinalInv'
  BY DEF TelemetryInv
<1>1. inbox \in Seq(Messages) /\ outbox \in Seq(Reports)
  BY DEF TypeOK
<1>2. "none" \notin Breaches /\ "clean" \notin Breaches /\ "pending" \notin Breaches
  BY DEF Breaches
<1>3. ASSUME transport' = transport, read' = read, sent' = sent
      PROVE  Kept' = Kept
  BY <1>3 DEF Kept, External
<1>4. ASSUME Kept' = Kept, inbox' = inbox, outbox' = outbox, poll' = poll,
             phase' = phase, outcome' = outcome,
             worker # "starting" => worker' # "starting"
      PROVE  FinalInv'
  BY <1>4 DEF FinalInv
<1>5. CASE Boot
  <2>1. phase # "final" /\ outcome # "clean"
    BY <1>5 DEF Boot, StartInv, FinalInv
  <2>2. phase' = phase /\ outcome' = outcome
    BY <1>5 DEF Boot, thread
  <2> QED
    BY <2>1, <2>2 DEF FinalInv
<1>6. CASE WorkerPolls
  <2>1. PICK v \in Breaches \cup {"none"} :
          /\ outbox' = Append(outbox, [kind |-> "result", verdict |-> v])
          /\ inbox # <<>> /\ inbox' = Tail(inbox)
          /\ Head(inbox).enforce =>
               v = Verdict(core', Head(inbox).now, Head(inbox).terminal)
    BY <1>6, AnswerIs
  <2>2. phase' = phase /\ outcome' = outcome /\ poll' = poll /\ worker' = worker
    BY <1>6 DEF WorkerPolls, thread
  <2>3. outcome # "clean" /\ ~(phase = "final" /\ poll = "none")
    BY <2>1 DEF FinalInv
  <2>4. ASSUME phase = "final", poll = "pending"
        PROVE  /\ inbox' = <<>>
               /\ \A i \in ResultsIn(outbox') : outbox'[i].verdict = "none" => Kept'
    <3>1. /\ ResultsIn(outbox) = {} /\ PollsIn(inbox) = {Len(inbox)}
          /\ inbox[Len(inbox)].enforce /\ inbox[Len(inbox)].terminal
      BY <2>1, <2>4 DEF FinalInv
    <3>2. 1 \in PollsIn(inbox)
      BY <1>1, <1>6, <2>1, WhereTaken DEF WorkerPolls, PollsIn
    <3>3. Len(inbox) = 1
      BY <3>1, <3>2
    <3>4. Tail(inbox) = <<>> /\ Head(inbox) = inbox[1]
      BY <1>1, <2>1, <3>3
    <3>5. Head(inbox).enforce /\ Head(inbox).terminal
      BY <3>1, <3>3, <3>4
    <3>6. v = "none" => Kept'
      BY <1>6, <2>1, <3>4, <3>5, TellsTruth
    <3>7. PICK m \in Reports : m = [kind |-> "result", verdict |-> v]
      BY DEF Reports
    <3>8. ResultsIn(outbox') = {Len(outbox) + 1}
      BY <1>1, <2>1, <3>1, <3>7, WhereAppended DEF ResultsIn
    <3>9. outbox'[Len(outbox) + 1].verdict = v
      BY <1>1, <2>1, <3>7, Appended
    <3> QED
      BY <2>1, <3>4, <3>6, <3>8, <3>9
  <2> QED
    BY <2>2, <2>3, <2>4 DEF FinalInv
<1>7. CASE WorkerStarts \/ WorkerAppends
  <2>1. /\ inbox # <<>> /\ inbox' = Tail(inbox) /\ outbox' = outbox
        /\ phase' = phase /\ outcome' = outcome /\ poll' = poll
        /\ Head(inbox).kind # "poll"
    BY <1>7 DEF WorkerStarts, WorkerAppends, thread
  <2>2. outcome # "clean" /\ ~(phase = "final" /\ poll = "none")
    BY <2>1 DEF FinalInv
  <2>3. ASSUME phase = "final", poll = "pending"
        PROVE  /\ inbox' # <<>> /\ ResultsIn(outbox') = {}
               /\ PollsIn(inbox') = {Len(inbox')}
               /\ inbox'[Len(inbox')].enforce /\ inbox'[Len(inbox')].terminal
    <3>1. /\ ResultsIn(outbox) = {} /\ PollsIn(inbox) = {Len(inbox)}
          /\ inbox[Len(inbox)].enforce /\ inbox[Len(inbox)].terminal
      BY <2>1, <2>3 DEF FinalInv
    <3>2. 1 \notin PollsIn(inbox)
      BY <1>1, <2>1, WhereTaken DEF PollsIn
    <3>3. Len(inbox) # 1 /\ Len(inbox) \in Nat /\ Len(inbox) > 0
          /\ Len(inbox') = Len(inbox) - 1
      BY <1>1, <2>1, <3>1, <3>2, Taken
    <3>4. inbox' # <<>>
      BY <3>3
    <3>5. Len(inbox') \in PollsIn(inbox')
      BY <1>1, <2>1, <3>1, <3>3, WhereTaken DEF PollsIn
    <3>6. inbox'[Len(inbox')] = inbox[Len(inbox)]
      <4>1. Len(inbox) - 1 \in 1 .. Len(inbox) - 1 /\ (Len(inbox) - 1) + 1 = Len(inbox)
        BY <3>3
      <4> QED
        BY <1>1, <2>1, <3>3, <4>1, Taken
    <3>7. \A i \in PollsIn(inbox') : i \in Nat /\ i + 1 = Len(inbox)
      BY <1>1, <2>1, <3>1, WhereTaken DEF PollsIn
    <3>8. PollsIn(inbox') = {Len(inbox')}
      BY <3>3, <3>5, <3>7
    <3> QED
      BY <2>1, <3>1, <3>4, <3>6, <3>8
  <2> QED
    BY <2>1, <2>2, <2>3 DEF FinalInv
<1>8. CASE HandleMessage
  <2>1. /\ outbox # <<>> /\ outbox' = Tail(outbox) /\ inbox' = inbox
        /\ phase' = phase /\ outcome' = outcome /\ worker' = worker /\ Kept' = Kept
    BY <1>3, <1>8 DEF HandleMessage, world
  <2>2. \A i \in ResultsIn(outbox') :
          i \in Nat /\ i + 1 \in ResultsIn(outbox) /\ outbox'[i] = outbox[i + 1]
    <3>1. \A i \in Where("result", Tail(outbox)) :
            /\ i \in Nat /\ i + 1 \in Where("result", outbox)
            /\ Tail(outbox)[i] = outbox[i + 1]
      BY ONLY <1>1, <2>1, WhereTaken
    <3> QED
      BY <2>1, <3>1 DEF ResultsIn
  <2>3. CASE Head(outbox).kind = "result"
    <3>1. 1 \in ResultsIn(outbox) /\ Head(outbox) = outbox[1]
      BY <1>1, <2>1, <2>3, OutboxIs, WhereTaken DEF ResultsIn
    <3>2. /\ poll' = IF poll = "pending" THEN Head(outbox).verdict ELSE poll
          /\ Head(outbox).verdict \in Breaches \cup {"none"}
      BY <1>8, <2>1, <2>3, OutboxIs DEF HandleMessage
    <3>3. poll' # "pending"
      BY <1>2, <3>2
    <3>4. phase = "final" /\ poll' = "none" => inbox = <<>> /\ Kept
      BY <3>1, <3>2 DEF FinalInv
    <3> QED
      BY <2>1, <3>3, <3>4 DEF FinalInv
  <2>4. CASE Head(outbox).kind = "ready"
    <3>1. poll' = poll
      BY <1>8, <2>4 DEF HandleMessage
    <3>2. ResultsIn(outbox) = {} => ResultsIn(outbox') = {}
      BY <2>2
    <3>3. (\A i \in ResultsIn(outbox) : outbox[i].verdict = "none" => Kept)
            => \A i \in ResultsIn(outbox') : outbox'[i].verdict = "none" => Kept
      BY <2>2
    <3> QED
      BY <2>1, <3>1, <3>2, <3>3 DEF FinalInv
  <2>5. CASE Head(outbox).kind = "error"
    <3>1. poll' # "pending" /\ (poll' = "none" => poll = "none")
      BY <1>8, <2>5 DEF HandleMessage, Fail, PendingInv
    <3> QED
      BY <2>1, <3>1 DEF FinalInv
  <2> QED
    BY <1>8, <2>3, <2>4, <2>5 DEF HandleMessage
<1>9. CASE WorkerGone
  <2>1. /\ inbox' = inbox /\ outbox' = outbox /\ phase' = phase /\ outcome' = outcome
        /\ worker' = worker /\ Kept' = Kept
        /\ poll' # "pending" /\ (poll' = "none" => poll = "none")
    BY <1>3, <1>9 DEF WorkerGone, Fail, world
  <2> QED
    BY <2>1 DEF FinalInv
<1>10. CASE Start \/ AppendCaptured \/ PollOnInterval
  <2>1. phase \in {"ready", "running"} /\ outcome # "clean"
    BY <1>10 DEF Start, AppendCaptured, PollOnInterval, FinalInv
  <2>2. phase' # "final" /\ outcome' # "clean"
    BY <1>10, <2>1 DEF Start, AppendCaptured, PollOnInterval, First
  <2> QED
    BY <2>2 DEF FinalInv
<1>11. CASE PollSettled \/ ChildExits
  <2>1. phase \in {"running", "waiting"} /\ outcome # "clean"
    BY <1>11 DEF PollSettled, ChildExits, FinalInv
  <2>2. phase' # "final" /\ outcome' # "clean"
    BY <1>2, <1>11, <2>1 DEF PollSettled, ChildExits, First, TypeOK
  <2> QED
    BY <2>2 DEF FinalInv
<1>12. CASE FinalPoll
  <2>1. /\ phase = "waiting" /\ poll = "idle" /\ phase' = "final" /\ outbox' = outbox
        /\ outcome' = outcome /\ outcome # "clean"
    BY <1>12 DEF FinalPoll, FinalInv
  <2>2. CASE failed
    BY <1>12, <2>1, <2>2 DEF FinalPoll, Ask, FinalInv
  <2>3. CASE ~failed
    <3>1. PICK m \in Messages :
            /\ Post(m) /\ m.kind = "poll" /\ m.enforce /\ m.terminal
      <4>1. PICK at \in Nat :
              Post([kind |-> "poll", now |-> at, enforce |-> TRUE, terminal |-> TRUE])
        BY <1>12, <2>3 DEF FinalPoll, Ask, TypeOK
      <4> QED
        BY <4>1, PostIs
    <3>2. PollsIn(inbox) = {} /\ ResultsIn(outbox) = {} /\ poll' = "pending"
      BY <1>12, <2>1, <2>3 DEF FinalPoll, Ask, PendingInv
    <3>3. inbox' = Append(inbox, m)
      BY <3>1 DEF Post
    <3>4. PollsIn(inbox') = {Len(inbox) + 1}
      BY <1>1, <3>1, <3>2, <3>3, WhereAppended DEF PollsIn
    <3>5. /\ Len(inbox') = Len(inbox) + 1 /\ inbox' # <<>>
          /\ inbox'[Len(inbox) + 1] = m
      BY <1>1, <3>3, Appended
    <3> QED
      BY <2>1, <3>1, <3>2, <3>4, <3>5 DEF FinalInv
  <2> QED
    BY <2>2, <2>3
<1>13. CASE FinalAnswered
  <2>1. /\ phase = "final" /\ phase' = "closing" /\ poll # "pending"
        /\ inbox' = inbox /\ worker' = worker /\ Kept' = Kept
    BY <1>3, <1>13 DEF FinalAnswered, world
  <2>2. outcome # "clean" /\ poll # "idle"
    BY <2>1 DEF FinalInv, PendingInv
  <2>3. outcome' = "clean" => poll = "none"
    BY <1>2, <1>13, <2>1, <2>2 DEF FinalAnswered, First, TypeOK
  <2>4. worker # "starting"
    BY <2>1 DEF StartInv
  <2> QED
    BY <2>1, <2>3, <2>4 DEF FinalInv
<1>14. CASE GiveUp
  <2>1. outcome # "clean" /\ phase' = "closing"
    BY <1>14 DEF GiveUp, FinalInv
  <2>2. outcome' # "clean"
    BY <1>14, <2>1 DEF GiveUp, First
  <2> QED
    BY <2>1, <2>2 DEF FinalInv
<1>15. CASE Close
  <2>1. /\ phase' = "done" /\ outcome' = outcome /\ inbox' = inbox /\ worker' = "dead"
        /\ Kept' = Kept
    BY <1>3, <1>15 DEF Close, world
  <2> QED
    BY <2>1 DEF FinalInv
<1>16. CASE AppendToFile \/ Touch \/ Truncate \/ Rewrite \/ Replace \/ Delete
  <2>1. PICK new : Change(new)
    BY <1>16 DEF AppendToFile, Touch, Truncate, Rewrite, Replace, Delete
  <2> QED
    BY <1>3, <1>4, <2>1 DEF Change, thread
<1>17. CASE Tick \/ WorkerDies \/ UNCHANGED vars
  BY <1>3, <1>4, <1>17 DEF Tick, WorkerDies, vars, world, thread
<1> QED
  BY <1>5, <1>6, <1>7, <1>8, <1>9, <1>10, <1>11, <1>12, <1>13, <1>14, <1>15, <1>16,
     <1>17 DEF Next

-----------------------------------------------------------------------------
(* The theorems.                                                            *)

LEMMA TelemetryInit == Init => TelemetryInv
<1> SUFFICES ASSUME Init PROVE TelemetryInv
  OBVIOUS
<1>1. Empty \in Transcripts /\ <<>> \in Seq(Messages) /\ <<>> \in Seq(Reports)
  BY EmptyIs
<1>2. Found \subseteq Transcripts
  BY BoundsAssumption
<1>3. file \in Files /\ (file.kind # "regular" => file.raw = Empty)
  BY <1>1, <1>2 DEF Init, Files
<1>4. /\ core = NewCore(0) /\ core \in Cores /\ core.captured = Empty
      /\ core.known = FALSE /\ CoreInv(core, Empty, TRUE) /\ CoreInv(core, Empty, FALSE)
  BY NewKeeps DEF Init
<1>5. TypeOK
  BY <1>1, <1>3, <1>4 DEF Init, TypeOK
<1>6. StartInv
  BY DEF Init, StartInv
<1>7. CoreInv(core, read.base, External)
  BY <1>4 DEF Init, CoreInv
<1>8. FileInv
  BY <1>3, <1>4 DEF FileInv
<1>9. PendingInv
  BY DEF Init, PendingInv, PollsIn, ResultsIn, Where
<1>10. FinalInv
  BY DEF Init, FinalInv
<1>11. FlowInv
  BY <1>1, <1>4, CarriesNone DEF Init, FlowInv
<1> QED
  BY <1>5, <1>6, <1>7, <1>8, <1>9, <1>10, <1>11 DEF TelemetryInv

\* What the worker counts is what is in the transcript, every message on its way
\* is accounted for, and the last answer tells the truth, in every reachable
\* state.
THEOREM TelemetryInvariance == Spec => []TelemetryInv
<1>1. TelemetryInv /\ [Next]_vars => TelemetryInv'
  <2> SUFFICES ASSUME TelemetryInv, [Next]_vars PROVE TelemetryInv'
    OBVIOUS
  <2>1. TypeOK' /\ StartInv' /\ FileInv'
    BY TypeStep, StartInvStep, FileInvStep
  <2>2. CoreInv(core, read.base, External)'
    BY CoreStep DEF CoreKept
  <2>3. PendingInv' /\ FinalInv' /\ FlowInv'
    BY PendingStep, FinalStep, FlowStep
  <2> QED
    BY <2>1, <2>2, <2>3 DEF TelemetryInv
<1> QED
  BY <1>1, TelemetryInit, PTL DEF Spec

\* A run that ends without a breach had a transcript that was whole, began with
\* what was there before the run, held all that was captured, and kept every
\* limit, for every limit, transcript, grace and number of polls.
THEOREM CleanRunsAreWithin == Spec => []CleanMeansWithin
<1>1. TelemetryInv => CleanMeansWithin
  BY DEF TelemetryInv, FinalInv, CleanMeansWithin, Kept
<1> QED
  BY <1>1, TelemetryInvariance, PTL

\* A breach of integrity is never taken back, and nothing is counted away.
THEOREM NothingIsForgotten == Spec => NeverForgets
<1>1. TelemetryInv /\ [Next]_vars =>
        [ /\ core.breach # "none" => core'.breach # "none"
          /\ core.completed \subseteq core'.completed
          /\ \A number \in {"calls", "identical"} :
               core'.metrics[number] >= core.metrics[number] ]_vars
  <2> SUFFICES ASSUME TelemetryInv, [Next]_vars
               PROVE  /\ core.breach # "none" => core'.breach # "none"
                      /\ core.completed \subseteq core'.completed
                      /\ \A number \in {"calls", "identical"} :
                           core'.metrics[number] >= core.metrics[number]
    OBVIOUS
  <2> QED
    BY CoreStep DEF CoreKept, Grows
<1> QED
  BY <1>1, TelemetryInvariance, PTL DEF Spec, NeverForgets
=============================================================================
