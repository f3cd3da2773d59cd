------------------------- MODULE SearchIndex_proofs --------------------------
(* Theorems about SearchIndex, for any set of keys, any commit clock, any     *)
(* number of commits and whatever fails: after every write and every reindex  *)
(* the default search and the search of a moment are the history's.           *)
EXTENDS Query, FiniteSetTheorems, WellFoundedInduction, TLAPS

-----------------------------------------------------------------------------
(* Newest *)

\* Naturals are well ordered.
LEMMA Least ==
    ASSUME NEW S \in SUBSET Nat, S # {}
    PROVE  \E m \in S : \A n \in S : m <= n
<1> DEFINE R == OpToRel(<, Nat)
<1>1. IsWellFoundedOn(R, Nat)
  BY NatLessThanWellFounded
<1>2. PICK m \in S : \A n \in S : ~(<<n, m>> \in R)
  <2> HIDE DEF R
  <2> QED BY <1>1, WFMin
<1>3. ASSUME NEW n \in S PROVE m <= n
  <2>1. ~(<<n, m>> \in R)
    BY <1>2
  <2>2. n < m => <<n, m>> \in R
    BY DEF OpToRel
  <2>3. ~(n < m)
    BY <2>1, <2>2
  <2> QED BY <2>3
<1> QED BY <1>3

\* A bounded set of them has a greatest element: the least distance to the bound.
LEMMA Greatest ==
    ASSUME NEW b \in Nat, NEW S \in SUBSET (0 .. b), S # {}
    PROVE  \E m \in S : \A n \in S : n <= m
<1> DEFINE D == {b - n : n \in S}
<1>1. D \in SUBSET Nat
  BY SMT
<1>2. \E d : d \in D
  <2>1. PICK x : x \in S
    OBVIOUS
  <2>2. b - x \in D
    BY <2>1
  <2> QED BY <2>2
<1> HIDE DEF D
<1>3. PICK d \in D : \A e \in D : d <= e
  BY <1>1, <1>2, Least
<1>4. PICK m \in S : d = b - m
  BY <1>3 DEF D
<1>5. ASSUME NEW n \in S PROVE n <= m
  <2>1. d <= b - n
    BY <1>3 DEF D
  <2> QED BY <2>1, <1>4
<1> QED BY <1>5

\* What Newest gives, and when an element is it.
LEMMA NewestLemma ==
    ASSUME NEW n \in Nat, NEW S \in SUBSET (1 .. n)
    PROVE  /\ Newest(S) \in 0 .. n
           /\ S = {} => Newest(S) = 0
           /\ S # {} => Newest(S) \in S
           /\ \A i \in S : i <= Newest(S)
           /\ \A m \in S : (\A i \in S : i <= m) => Newest(S) = m
<1>1. CASE S = {}
  BY <1>1 DEF Newest
<1>2. CASE S # {}
  <2>1. PICK m \in S : \A i \in S : i <= m
    <3>1. S \in SUBSET (0 .. n)
      OBVIOUS
    <3> QED BY <1>2, <3>1, Greatest
  <2>2. Newest(S) \in S /\ \A i \in S : i <= Newest(S)
    BY <1>2, <2>1 DEF Newest
  <2>3. \A i \in S : i \in 1 .. n
    OBVIOUS
  <2> DEFINE N == Newest(S)
  <2> HIDE DEF N
  <2>6. N \in S /\ \A i \in S : i <= N
    BY <2>2 DEF N
  <2>4. N \in S /\ N \in 0 .. n /\ \A i \in S : i <= N
    BY <2>3, <2>6
  <2>5. ASSUME NEW k \in S, \A i \in S : i <= k PROVE N = k
    BY <2>3, <2>4, <2>5
  <2> QED BY <1>2, <2>4, <2>5 DEF N
<1> QED BY <1>1, <1>2

-----------------------------------------------------------------------------
(* The history *)

Commits == [key : Keys, op : {"write", "remove"}, at : Times]

\* A commit of the first n keeps its place when another is added.
LEMMA HistoryGrows ==
    ASSUME log \in Seq(Commits), NEW c \in Commits, log' = Append(log, c),
           NEW n \in 0 .. Len(log)
    PROVE  /\ Len(log') = Len(log) + 1 /\ log'[Len(log) + 1] = c
           /\ \A i \in 1 .. Len(log) : log'[i] = log[i]
           /\ \A k : Writes(n, k)' = Writes(n, k) /\ Removals(n, k)' = Removals(n, k)
           /\ \A k : HeadOf(n, k)' = HeadOf(n, k)
           /\ \A at, k : CurrentAt(n, at, k)' = CurrentAt(n, at, k)
           /\ Walked(n)' = Walked(n)
<1>1. /\ Len(log') = Len(log) + 1 /\ log'[Len(log) + 1] = c
      /\ \A i \in 1 .. Len(log) : log'[i] = log[i]
  OBVIOUS
<1>2. \A i \in 1 .. n : log'[i] = log[i]
  BY <1>1
<1>3. ASSUME NEW k
      PROVE  Writes(n, k)' = Writes(n, k) /\ Removals(n, k)' = Removals(n, k)
  BY <1>2 DEF Writes, Removals
<1>4. ASSUME NEW k PROVE HeadOf(n, k)' = HeadOf(n, k)
  BY <1>3 DEF HeadOf
<1>5. ASSUME NEW at, NEW k PROVE CurrentAt(n, at, k)' = CurrentAt(n, at, k)
  <2>1. {i \in Writes(n, k) : log[i].at <= at}' = {i \in Writes(n, k) : log[i].at <= at}
    BY <1>2, <1>3 DEF Writes
  <2>2. \A m : (\E i \in Removals(n, k) : i > m /\ log[i].at <= at)'
                 = (\E i \in Removals(n, k) : i > m /\ log[i].at <= at)
    BY <1>2, <1>3 DEF Removals
  <2> QED BY <2>1, <2>2 DEF CurrentAt
<1>6. Walked(n)' = Walked(n)
  <2>1. {i \in 1 .. n : log[i].op = "write"}' = {i \in 1 .. n : log[i].op = "write"}
    BY <1>2
  <2> QED BY <2>1 DEF Walked
<1> QED BY <1>1, <1>3, <1>4, <1>5, <1>6

\* The versions and removals of the first n commits are among 1 .. n.
LEMMA HistoryTypes ==
    ASSUME NEW n \in Nat, NEW k
    PROVE  /\ Writes(n, k) \in SUBSET (1 .. n) /\ Removals(n, k) \in SUBSET (1 .. n)
           /\ Newest(Writes(n, k)) \in 0 .. n /\ Newest(Removals(n, k)) \in 0 .. n
           /\ HeadOf(n, k) \in 0 .. n
<1>1. Writes(n, k) \in SUBSET (1 .. n) /\ Removals(n, k) \in SUBSET (1 .. n)
  BY DEF Writes, Removals
<1>2. Newest(Writes(n, k)) \in 0 .. n /\ Newest(Removals(n, k)) \in 0 .. n
  BY <1>1, NewestLemma
<1> QED BY <1>1, <1>2 DEF HeadOf

\* What the last commit does to the head documents of the default search.
LEMMA HeadStep ==
    ASSUME log \in Seq(Commits), NEW n \in 1 .. Len(log), NEW k \in Keys
    PROVE  /\ k # log[n].key => HeadOf(n, k) = HeadOf(n - 1, k)
           /\ k = log[n].key /\ log[n].op = "write" => HeadOf(n, k) = n
           /\ k = log[n].key /\ log[n].op = "remove" /\ k \in Knowledge => HeadOf(n, k) = 0
           /\ log[n].op = "remove" /\ k \notin Knowledge => HeadOf(n, k) = HeadOf(n - 1, k)
<1>1. n \in Nat /\ n - 1 \in Nat /\ log[n] \in Commits /\ 1 .. n = (1 .. n - 1) \union {n}
  OBVIOUS
<1>2. /\ Writes(n, k) = Writes(n - 1, k) \union
                          (IF log[n].key = k /\ log[n].op = "write" THEN {n} ELSE {})
      /\ Removals(n, k) = Removals(n - 1, k) \union
                          (IF log[n].key = k /\ log[n].op = "remove" THEN {n} ELSE {})
  BY <1>1 DEF Writes, Removals
<1>3. CASE k # log[n].key
  BY <1>2, <1>3 DEF HeadOf
<1>4. CASE k = log[n].key /\ log[n].op = "write"
  <2>1. n \in Writes(n, k) /\ \A i \in Writes(n, k) : i <= n
    BY <1>1, <1>2, <1>4, HistoryTypes
  <2>2. Newest(Writes(n, k)) = n
    BY <1>1, <2>1, HistoryTypes, NewestLemma, SMTT(30)
  <2>3. Newest(Removals(n, k)) <= n
    BY <1>1, HistoryTypes
  <2> QED BY <1>1, <1>4, <2>2, <2>3, HistoryTypes DEF HeadOf, Commits
<1>5. CASE k = log[n].key /\ log[n].op = "remove"
  <2>1. n \in Removals(n, k) /\ \A i \in Removals(n, k) : i <= n
    BY <1>1, <1>2, <1>5, HistoryTypes
  <2>2. Newest(Removals(n, k)) = n
    BY <1>1, <2>1, HistoryTypes, NewestLemma
  <2>3. Writes(n, k) = Writes(n - 1, k)
    BY <1>2, <1>5
  <2>4. Newest(Writes(n, k)) \in 0 .. n - 1
    BY <1>1, <2>3, HistoryTypes
  <2> QED BY <1>1, <1>5, <2>2, <2>3, <2>4 DEF HeadOf
<1> QED BY <1>1, <1>3, <1>4, <1>5 DEF Commits

\* The numbers of a walk grow with every version.
LEMMA WalkedLemma ==
    ASSUME log \in Seq(Commits), NEW n \in 0 .. Len(log)
    PROVE  /\ Walked(n) \in Nat
           /\ \A i \in 0 .. n : Walked(i) <= Walked(n)
           /\ n > 0 => Walked(n) = Walked(n - 1) + (IF log[n].op = "write" THEN 1 ELSE 0)
           /\ \A i \in 0 .. n : n > i /\ log[n].op = "write" => Walked(i) < Walked(n)
<1> DEFINE W(i) == {j \in 1 .. i : log[j].op = "write"}
<1>1. ASSUME NEW i \in 0 .. Len(log)
      PROVE  IsFiniteSet(W(i)) /\ Walked(i) = Cardinality(W(i)) /\ Walked(i) \in Nat
  <2>1. IsFiniteSet(1 .. i)
    BY FS_Interval
  <2>2. W(i) \in SUBSET (1 .. i)
    OBVIOUS
  <2>3. IsFiniteSet(W(i))
    BY <2>1, <2>2, FS_Subset
  <2> QED BY <2>3, FS_CardinalityType DEF Walked
<1>2. ASSUME NEW i \in 0 .. Len(log), NEW j \in 0 .. i PROVE Walked(j) <= Walked(i)
  <2>1. W(j) \in SUBSET W(i)
    OBVIOUS
  <2>2. j \in 0 .. Len(log)
    OBVIOUS
  <2> HIDE DEF W
  <2>3. Cardinality(W(j)) <= Cardinality(W(i))
    BY <1>1, <2>1, FS_Subset
  <2> QED BY <1>1, <2>2, <2>3
<1>3. ASSUME n > 0
      PROVE  Walked(n) = Walked(n - 1) + (IF log[n].op = "write" THEN 1 ELSE 0)
  <2>1. n - 1 \in 0 .. Len(log) /\ n \notin W(n - 1)
    BY <1>3
  <2>2. W(n) = IF log[n].op = "write" THEN W(n - 1) \union {n} ELSE W(n - 1)
    <3>1. 1 .. n = (1 .. n - 1) \union {n}
      BY <1>3
    <3> QED BY <3>1
  <2>3. Cardinality(W(n - 1) \union {n}) = Cardinality(W(n - 1)) + 1
    BY <1>1, <2>1, FS_AddElement
  <2> HIDE DEF W
  <2>4. Walked(n) = Cardinality(W(n)) /\ Walked(n - 1) = Cardinality(W(n - 1)) /\ Walked(n - 1) \in Nat
    BY <1>1, <2>1
  <2> QED BY <2>2, <2>3, <2>4
<1>4. ASSUME NEW i \in 0 .. n, n > i, log[n].op = "write" PROVE Walked(i) < Walked(n)
  <2>1. Walked(i) <= Walked(n - 1)
    BY <1>2, <1>4
  <2>2. n \in 0 .. Len(log) /\ n - 1 \in 0 .. Len(log) /\ i \in 0 .. Len(log)
    BY <1>4
  <2>3. Walked(i) \in Nat /\ Walked(n) \in Nat /\ Walked(n - 1) \in Nat
    BY <1>1, <2>2
  <2> QED BY <1>3, <1>4, <2>1, <2>3
<1> QED BY <1>1, <1>2, <1>3, <1>4

-----------------------------------------------------------------------------
(* What the documents tell *)

Documents == [n : Nat, key : Keys, at : Times, seq : Nat]
Stones == [key : Keys, at : Times, seq : Nat]

\* The tombstone x is of the retraction i, and outranks of the documents h
\* those before it and no other.
Outranks(x, i, h) ==
    /\ log[i].op = "remove" /\ log[i].key \in Knowledge
    /\ x.key = log[i].key /\ x.at = log[i].at
    /\ \A d \in h : d.n < i <=> d.seq <= x.seq

\* The documents h are those of the versions among the first n commits,
\* numbered in their order, the tombstones t those of the retractions.
Documented(h, t, n) ==
    /\ \A d \in h : /\ d.n \in 1 .. n /\ log[d.n].op = "write"
                    /\ d.key = log[d.n].key /\ d.at = log[d.n].at
    /\ \A i \in 1 .. n : log[i].op = "write" => \E d \in h : d.n = i
    /\ \A d, e \in h : /\ d.n < e.n => d.seq < e.seq
                       /\ d.n = e.n => d.seq = e.seq
    /\ \A x \in t : \E i \in 1 .. n : Outranks(x, i, h)
    /\ \A i \in 1 .. n : log[i].op = "remove" /\ log[i].key \in Knowledge =>
         \E x \in t : Outranks(x, i, h)

\* The version the index takes for current at a time is the history's
\* (index.rs current_version_per_key).
LEMMA SnapshotLemma ==
    ASSUME log \in Seq(Commits), NEW n \in 0 .. Len(log), NEW g,
           g.docs.hist \in SUBSET Documents, g.tombs \in SUBSET Stones,
           Documented(g.docs.hist, g.tombs, n),
           NEW k \in Keys, NEW at \in Times
    PROVE  CurrentVersion(g, at, k) = CurrentAt(n, at, k)
<1> DEFINE h == g.docs.hist
           t == g.tombs
           by == {d \in h : d.key = k /\ d.at <= at}
           best == CHOOSE d \in by : \A e \in by : e.seq <= d.seq
           W == {i \in Writes(n, k) : log[i].at <= at}
           last == Newest(W)
<1>1. /\ \A d \in by : d.n \in W
      /\ \A i \in W : \E d \in by : d.n = i
  BY DEF Documented, Writes
<1>2. CurrentVersion(g, at, k) =
        IF by = {} \/ \E x \in t : x.key = k /\ x.at <= at /\ x.seq >= best.seq THEN 0 ELSE best.n
  BY DEF CurrentVersion, TombstonesOf
<1>3. CurrentAt(n, at, k) =
        IF k \in Knowledge /\ \E i \in Removals(n, k) : i > last /\ log[i].at <= at THEN 0 ELSE last
  BY DEF CurrentAt
<1>4. /\ last \in 0 .. n
      /\ W = {} => last = 0
      /\ W # {} => last \in W
      /\ \A i \in W : i <= last
  <2>1. W \in SUBSET (1 .. n)
    BY HistoryTypes
  <2> QED BY <2>1, NewestLemma
<1>5. CASE by = {}
  <2>1. W = {}
    BY <1>1, <1>5
  <2> QED BY <1>2, <1>3, <1>4, <1>5, <2>1
<1>6. CASE by # {}
  <2>1. \A d \in by : d \in h /\ d \in Documents /\ d.n \in Nat /\ d.seq \in Nat /\ d.n <= last
    BY <1>1, <1>4 DEF Documents
  <2>2. PICK d \in by : d.n = last
    BY <1>1, <1>4, <1>6
  <2>3. \A d1, e1 \in h : (d1.n < e1.n => d1.seq < e1.seq) /\ (d1.n = e1.n => d1.seq = e1.seq)
    BY DEF Documented
  <2> HIDE DEF last
  <2>4. \A e \in by : e.seq <= d.seq
    <3> SUFFICES ASSUME NEW e \in by PROVE e.seq <= d.seq
      OBVIOUS
    <3>1. e.n < d.n \/ e.n = d.n
      BY <2>1, <2>2
    <3> HIDE DEF by
    <3> QED BY <2>1, <2>3, <3>1
  <2>5. best \in by /\ \A e \in by : e.seq <= best.seq
    BY <2>2, <2>4
  <2> HIDE DEF best
  <2>6. best.n = last
    <3>1. ~(best.n < d.n)
      BY <2>1, <2>2, <2>3, <2>5
    <3> QED BY <2>1, <2>2, <2>5, <3>1
  <2>7. (\E x \in t : x.key = k /\ x.at <= at /\ x.seq >= best.seq)
          <=> k \in Knowledge /\ \E i \in Removals(n, k) : i > last /\ log[i].at <= at
    <3>1. ASSUME NEW x \in t, x.key = k, x.at <= at, x.seq >= best.seq
          PROVE  k \in Knowledge /\ \E i \in Removals(n, k) : i > last /\ log[i].at <= at
      <4>1. PICK i \in 1 .. n : Outranks(x, i, h)
        BY <3>1 DEF Documented
      <4>2. best.seq <= x.seq
        BY <2>1, <2>5, <3>1 DEF Stones
      <4>3. best.n < i
        BY <2>1, <2>5, <4>1, <4>2 DEF Outranks
      <4> QED BY <2>6, <3>1, <4>1, <4>3 DEF Outranks, Removals
    <3>2. ASSUME k \in Knowledge, NEW i \in Removals(n, k), i > last, log[i].at <= at
          PROVE  \E x \in t : x.key = k /\ x.at <= at /\ x.seq >= best.seq
      <4>1. i \in 1 .. n /\ log[i].op = "remove" /\ log[i].key = k
        BY <3>2 DEF Removals
      <4>2. PICK x \in t : Outranks(x, i, h)
        BY <3>2, <4>1 DEF Documented
      <4>3. best.n < i
        BY <1>4, <2>6, <3>2, <4>1
      <4>4. best.seq <= x.seq
        BY <2>1, <2>5, <4>2, <4>3 DEF Outranks
      <4> QED BY <2>1, <2>5, <3>2, <4>1, <4>2, <4>4 DEF Outranks, Stones
    <3> QED BY <3>1, <3>2
  <2> QED BY <1>2, <1>3, <1>6, <2>6, <2>7
<1> QED BY <1>5, <1>6

-----------------------------------------------------------------------------
(* The inductive invariant *)

\* The holder of the lock is where it may be.
StepInv ==
    /\ full => pc \in {"walk_history", "list_head", "commit", "swap"}
    /\ pc \in {"walk_history", "list_head"} => full
    /\ serving => pc # "down"
    /\ serving \/ full \/ pc = "down"
    /\ pc = "upsert_head" => Len(log) > 0 /\ Written.op = "write"
    /\ pc = "retract" => Len(log) > 0 /\ Written.op = "remove" /\ Written.key \in Knowledge

\* Numbers given out from now on are new, for a walk of the history as for what
\* the index holds.
NumberInv ==
    /\ serving \/ pc \in {"commit", "swap"} =>
         Walked(IF pc = "upsert_head" THEN Len(log) - 1 ELSE Len(log)) < nextSeq
    /\ serving /\ ~full => \A d \in writer.hist \union docs.hist : d.seq < nextSeq
    /\ pc = "walk_history" => writer.hist = {}
    /\ full /\ pc # "swap" => docs.hist = {}

\* What the writer holds is the history up to the n-th commit.
InStep(n) ==
    /\ \A k \in Keys : writer.heads[k] = HeadOf(n, k)
    /\ Documented(writer.hist, tombs, n)
    /\ \A d \in writer.hist : d.seq < nextSeq
    /\ \A x \in tombs : x.seq < nextSeq

\* Versions numbered as a walk over the history meets them.
WalkedDocs == {Version(i, Walked(i)) : i \in {j \in 1 .. Len(log) : log[j].op = "write"}}

\* Every way to a publication that counts as sound keeps in step.
ContentInv ==
    /\ pc = "idle" /\ ~damaged => InStep(Len(log)) /\ gen.docs.heads = writer.heads
    /\ pc \in {"upsert_head", "retract"} /\ ~damaged => InStep(Len(log) - 1)
    /\ pc = "list_head" => writer.hist = WalkedDocs
    /\ pc \in {"commit", "swap"} /\ (full \/ ~damaged) => InStep(Len(log))
    /\ pc = "swap" => docs = writer

\* A generation stays what it was, and the history it was published after too.
GenerationInv ==
    /\ gen.upto <= Len(log) /\ held.upto <= Len(log)
    /\ SnapshotExact

IndexInv == TypeOK /\ StepInv /\ NumberInv /\ ContentInv /\ GenerationInv

-----------------------------------------------------------------------------
(* Documents of a longer history *)

\* What was told of the first n commits is still true when one is added.
LEMMA DocumentedKept ==
    ASSUME log \in Seq(Commits), NEW c \in Commits, log' = Append(log, c),
           NEW n \in 0 .. Len(log), NEW h, NEW t, Documented(h, t, n)
    PROVE  Documented(h, t, n)'
<1>1. \A i \in 1 .. n : log'[i] = log[i]
  BY HistoryGrows
<1>2. \A x : \A i \in 1 .. n : Outranks(x, i, h)' <=> Outranks(x, i, h)
  BY <1>1 DEF Outranks
<1> QED BY <1>1, <1>2 DEF Documented

\* A version told with a new number.
LEMMA VersionTold ==
    ASSUME log \in Seq(Commits), NEW n \in 1 .. Len(log), log[n].op = "write",
           NEW h \in SUBSET Documents, NEW t \in SUBSET Stones, Documented(h, t, n - 1),
           NEW seq \in Nat, \A d \in h : d.seq < seq, \A x \in t : x.seq < seq
    PROVE  Documented(h \union {Version(n, seq)}, t, n)
<1> DEFINE v == Version(n, seq)
           hh == h \union {v}
<1>1. v.n = n /\ v.seq = seq /\ v.key = log[n].key /\ v.at = log[n].at
  BY DEF Version
<1>2. n - 1 \in Nat /\ 1 .. n = (1 .. n - 1) \union {n} /\ n \notin 1 .. n - 1
  OBVIOUS
<1>3. \A d \in h : d.n \in 1 .. n - 1 /\ d.n < n /\ d.seq < seq /\ d.seq \in Nat
  BY <1>2 DEF Documented, Documents
<1>4. \A x \in t : x.seq < seq /\ x.seq \in Nat
  BY DEF Stones
<1> HIDE DEF v
<1>5. ASSUME NEW x \in t, NEW i \in 1 .. n - 1, Outranks(x, i, h) PROVE Outranks(x, i, hh)
  <2>1. ~(v.n < i) /\ ~(v.seq <= x.seq)
    BY <1>1, <1>4
  <2> QED BY <1>5, <2>1 DEF Outranks
<1>6. \A d \in hh : /\ d.n \in 1 .. n /\ log[d.n].op = "write"
                     /\ d.key = log[d.n].key /\ d.at = log[d.n].at
  BY <1>1, <1>2 DEF Documented
<1>7. \A i \in 1 .. n : log[i].op = "write" => \E d \in hh : d.n = i
  BY <1>1, <1>2 DEF Documented
<1>8. \A d, e \in hh : (d.n < e.n => d.seq < e.seq) /\ (d.n = e.n => d.seq = e.seq)
  BY <1>1, <1>3 DEF Documented
<1>9. \A x \in t : \E i \in 1 .. n : Outranks(x, i, hh)
  BY <1>2, <1>5 DEF Documented
<1>10. ASSUME NEW i \in 1 .. n, log[i].op = "remove", log[i].key \in Knowledge
       PROVE  \E x \in t : Outranks(x, i, hh)
  BY <1>2, <1>5, <1>10 DEF Documented
<1> HIDE DEF hh
<1>11. Documented(hh, t, n)
  BY <1>6, <1>7, <1>8, <1>9, <1>10 DEF Documented
<1> QED BY <1>11 DEF hh, v

\* A retraction told with a new number.
LEMMA RetractionTold ==
    ASSUME log \in Seq(Commits), NEW n \in 1 .. Len(log),
           log[n].op = "remove", log[n].key \in Knowledge,
           NEW h \in SUBSET Documents, NEW t \in SUBSET Stones, Documented(h, t, n - 1),
           NEW seq \in Nat, \A d \in h : d.seq < seq
    PROVE  Documented(h, t \union {Tombstone(n, seq)}, n)
<1> DEFINE s == Tombstone(n, seq)
           tt == t \union {s}
<1>1. s.seq = seq /\ s.key = log[n].key /\ s.at = log[n].at
  BY DEF Tombstone
<1>2. n - 1 \in Nat /\ 1 .. n = (1 .. n - 1) \union {n}
  OBVIOUS
<1>3. \A d \in h : d.n < n /\ d.seq <= seq
  BY <1>2 DEF Documented, Documents
<1> HIDE DEF s
<1>4. Outranks(s, n, h)
  BY <1>1, <1>3 DEF Outranks
<1>5. \A x \in tt : \E i \in 1 .. n : Outranks(x, i, h)
  BY <1>2, <1>4 DEF Documented
<1>6. ASSUME NEW i \in 1 .. n, log[i].op = "remove", log[i].key \in Knowledge
      PROVE  \E x \in tt : Outranks(x, i, h)
  BY <1>2, <1>4, <1>6 DEF Documented
<1>7. /\ \A d \in h : /\ d.n \in 1 .. n /\ log[d.n].op = "write"
                      /\ d.key = log[d.n].key /\ d.at = log[d.n].at
      /\ \A i \in 1 .. n : log[i].op = "write" => \E d \in h : d.n = i
      /\ \A d, e \in h : (d.n < e.n => d.seq < e.seq) /\ (d.n = e.n => d.seq = e.seq)
  BY <1>2 DEF Documented
<1> HIDE DEF tt
<1>8. Documented(h, tt, n)
  BY <1>5, <1>6, <1>7 DEF Documented
<1> QED BY <1>8 DEF tt, s

\* A walk over the history tells all of it (index.rs reindex).
LEMMA WalkTold ==
    ASSUME log \in Seq(Commits)
    PROVE  /\ Documented(WalkedDocs, WalkedTombs, Len(log))
           /\ WalkedDocs \in SUBSET Documents /\ WalkedTombs \in SUBSET Stones
           /\ \A d \in WalkedDocs : d.seq <= Walked(Len(log))
           /\ \A x \in WalkedTombs : x.seq <= Walked(Len(log))
<1> DEFINE N == Len(log)
<1>1. N \in Nat /\ \A i \in 1 .. N : log[i] \in Commits
  OBVIOUS
<1>2. \A i \in 0 .. N : Walked(i) \in Nat /\ Walked(i) <= Walked(N)
  BY WalkedLemma
<1>3. \A d \in WalkedDocs : /\ d.n \in 1 .. N /\ log[d.n].op = "write" /\ d.seq = Walked(d.n)
                             /\ d.key = log[d.n].key /\ d.at = log[d.n].at
                             /\ d = [n |-> d.n, key |-> d.key, at |-> d.at, seq |-> d.seq]
  BY DEF WalkedDocs, Version
<1>4. ASSUME NEW i \in 1 .. N, log[i].op = "write" PROVE \E d \in WalkedDocs : d.n = i
  <2>1. Version(i, Walked(i)) \in WalkedDocs
    BY <1>4 DEF WalkedDocs
  <2> QED BY <2>1 DEF Version
<1>5. \A i, j \in 1 .. N : i < j /\ log[j].op = "write" => Walked(i) < Walked(j)
  BY WalkedLemma
<1>6. \A d, e \in WalkedDocs : (d.n < e.n => d.seq < e.seq) /\ (d.n = e.n => d.seq = e.seq)
  BY <1>3, <1>5
<1>7. ASSUME NEW x, NEW i \in 1 .. N, x = Tombstone(i, Walked(i)),
             log[i].op = "remove", log[i].key \in Knowledge
      PROVE  Outranks(x, i, WalkedDocs)
  <2>1. x.key = log[i].key /\ x.at = log[i].at /\ x.seq = Walked(i)
    BY <1>7 DEF Tombstone
  <2>2. ASSUME NEW d \in WalkedDocs PROVE d.n < i <=> d.seq <= x.seq
    <3>1. d.n \in 1 .. N /\ d.seq = Walked(d.n) /\ log[d.n].op = "write" /\ d.n # i
      BY <1>3, <1>7
    <3>2. d.n < i => Walked(d.n) <= Walked(i)
      BY <3>1, WalkedLemma
    <3>3. i < d.n => Walked(i) < Walked(d.n)
      BY <3>1, <1>5
    <3>4. Walked(i) \in Nat /\ Walked(d.n) \in Nat
      BY <3>1, <1>2
    <3> QED BY <2>1, <3>1, <3>2, <3>3, <3>4
  <2> QED BY <1>7, <2>1, <2>2 DEF Outranks
<1>8. \A x \in WalkedTombs : \E i \in 1 .. N : Outranks(x, i, WalkedDocs)
  BY <1>7 DEF WalkedTombs
<1>9. ASSUME NEW i \in 1 .. N, log[i].op = "remove", log[i].key \in Knowledge
      PROVE  \E x \in WalkedTombs : Outranks(x, i, WalkedDocs)
  <2>1. Tombstone(i, Walked(i)) \in WalkedTombs
    BY <1>9 DEF WalkedTombs
  <2> QED BY <1>7, <1>9, <2>1
<1>10. Documented(WalkedDocs, WalkedTombs, N)
  BY <1>3, <1>4, <1>6, <1>8, <1>9 DEF Documented
<1>11. WalkedDocs \in SUBSET Documents
  <2> SUFFICES ASSUME NEW i \in 1 .. N PROVE Version(i, Walked(i)) \in Documents
    BY DEF WalkedDocs
  <2> QED BY <1>1, <1>2 DEF Version, Documents, Commits
<1>12. WalkedTombs \in SUBSET Stones /\ \A x \in WalkedTombs : x.seq <= Walked(N)
  <2> SUFFICES ASSUME NEW i \in 1 .. N
               PROVE  LET x == Tombstone(i, Walked(i)) IN x \in Stones /\ x.seq <= Walked(N)
    BY DEF WalkedTombs
  <2> QED BY <1>1, <1>2 DEF Tombstone, Stones, Commits
<1>13. \A d \in WalkedDocs : d.seq <= Walked(N)
  BY <1>2, <1>3
<1> QED BY <1>10, <1>11, <1>12, <1>13

-----------------------------------------------------------------------------
(* Every step keeps the invariant *)

\* An index without documents is exact about a history without commits.
LEMMA NothingShown ==
    ASSUME log \in Seq(Commits)
    PROVE  SnapshotExactIn(NoGeneration)
<1>1. /\ NoGeneration.docs.hist = {} /\ NoGeneration.tombs = {} /\ NoGeneration.upto = 0
  BY DEF NoGeneration, Generation, NoDocs
<1> SUFFICES ASSUME NEW k \in Keys, NEW at \in Times
             PROVE  CurrentVersion(NoGeneration, at, k) = CurrentAt(0, at, k)
  BY <1>1 DEF SnapshotExactIn
<1>2. Documented({}, {}, 0)
  BY DEF Documented
<1>3. 0 \in 0 .. Len(log) /\ {} \in SUBSET Documents /\ {} \in SUBSET Stones
  OBVIOUS
<1> HIDE DEF NoGeneration
<1> QED BY <1>1, <1>2, <1>3, SnapshotLemma, ZenonT(60)

LEMMA IndexInit == Init => IndexInv
<1> SUFFICES ASSUME Init PROVE IndexInv
  OBVIOUS
<1>1. log \in Seq(Commits) /\ Len(log) = 0
  BY DEF Init
<1>2. /\ NoDocs \in Docs /\ NoDocs.hist = {}
      /\ NoGeneration \in Generations /\ NoGeneration.upto = 0
      /\ NoGeneration.docs = NoDocs /\ NoGeneration.tombs = {}
  BY DEF NoDocs, Docs, NoGeneration, Generation, Generations, Tombstones
<1>3. TypeOK
  BY <1>1, <1>2 DEF Init, TypeOK, Commits, Tombstones
<1>4. StepInv /\ NumberInv /\ ContentInv
  BY DEF Init, StepInv, NumberInv, ContentInv
<1>5. SnapshotExactIn(NoGeneration)
  BY <1>1, NothingShown
<1>6. GenerationInv
  BY <1>1, <1>2, <1>5 DEF Init, GenerationInv, SnapshotExact
<1> QED BY <1>3, <1>4, <1>6 DEF IndexInv

\* A generation is as exact after another commit.
LEMMA GenerationKept ==
    ASSUME IndexInv, NEW c \in Commits, log' = Append(log, c), UNCHANGED <<gen, held>>
    PROVE  GenerationInv'
<1>1. log \in Seq(Commits) /\ gen.upto \in 0 .. Len(log) /\ held.upto \in 0 .. Len(log)
  BY DEF IndexInv, TypeOK, Commits, GenerationInv, Generations
<1>2. Len(log') = Len(log) + 1
  BY <1>1
<1>3. ASSUME NEW g, g.upto \in 0 .. Len(log), SnapshotExactIn(g) PROVE SnapshotExactIn(g)'
  <2> SUFFICES ASSUME g.sound, NEW k \in Keys, NEW at \in Times
               PROVE  CurrentVersion(g, at, k)' = CurrentAt(g.upto, at, k)'
    BY DEF SnapshotExactIn
  <2>1. CurrentVersion(g, at, k)' = CurrentVersion(g, at, k)
    BY DEF CurrentVersion, TombstonesOf
  <2>2. CurrentAt(g.upto, at, k)' = CurrentAt(g.upto, at, k)
    BY <1>1, <1>3, HistoryGrows
  <2> QED BY <1>3, <2>1, <2>2 DEF SnapshotExactIn
<1>4. SnapshotExactIn(gen)' /\ SnapshotExactIn(held)'
  BY <1>1, <1>3 DEF IndexInv, GenerationInv, SnapshotExact
<1> QED BY <1>1, <1>2, <1>4 DEF IndexInv, GenerationInv, SnapshotExact

\* The canon commits: the documents tell the history but for that commit.
LEMMA BeginIndex ==
    ASSUME IndexInv, NEW k \in Keys, NEW at \in Times, BeginUpsert(k, at) \/ BeginRetract(k, at)
    PROVE  IndexInv'
<1>1. PICK c \in Commits :
        /\ log' = Append(log, c)
        /\ pc = "idle"
        /\ pc' = IF c.op = "write" THEN "upsert_head" ELSE "retract"
        /\ c.op = "remove" => c.key \in Knowledge
  BY DEF BeginUpsert, BeginRetract, Append1, Commit, Commits
<1>2. UNCHANGED <<serving, full, writer, docs, tombs, nextSeq, gen, held, damaged>>
  BY DEF BeginUpsert, BeginRetract, index
<1>3. PICK n \in Nat : n = Len(log)
  BY DEF IndexInv, TypeOK
<1>4. /\ log \in Seq(Commits) /\ log' \in Seq(Commits)
      /\ Len(log') = n + 1 /\ log'[n + 1] = c /\ \A i \in 1 .. n : log'[i] = log[i]
  BY <1>1, <1>3 DEF IndexInv, TypeOK, Commits
<1>5. TypeOK' /\ StepInv'
  BY <1>1, <1>2, <1>4 DEF IndexInv, TypeOK, StepInv, Written, Commits
<1>6. NumberInv'
  <2>1. Walked(n)' = Walked(n)
    BY <1>1, <1>3, <1>4, HistoryGrows
  <2>2. c.op # "write" => Walked(n + 1)' = Walked(n)
    <3> SUFFICES ASSUME c.op # "write" PROVE Walked(n + 1)' = Walked(n)
      OBVIOUS
    <3>1. {i \in 1 .. n + 1 : log'[i].op = "write"} = {i \in 1 .. n : log[i].op = "write"}
      BY <1>3, <1>4
    <3> QED BY <3>1 DEF Walked
  <2>3. serving => Walked(n) < nextSeq
    BY <1>1, <1>3 DEF IndexInv, NumberInv
  <2>4. IF pc' = "upsert_head" THEN Len(log') - 1 = n ELSE Len(log') = n + 1 /\ c.op # "write"
    BY <1>1, <1>4
  <2>5. serving' => (Walked(IF pc = "upsert_head" THEN Len(log) - 1 ELSE Len(log)) < nextSeq)'
    BY <1>2, <2>1, <2>2, <2>3, <2>4
  <2> QED BY <1>1, <1>2, <2>5 DEF IndexInv, NumberInv, StepInv
<1>7. ContentInv'
  <2>1. ASSUME ~damaged PROVE InStep(n)'
    <3>1. InStep(n)
      BY <1>1, <1>3, <2>1 DEF IndexInv, ContentInv
    <3>2. \A j \in Keys : HeadOf(n, j)' = HeadOf(n, j)
      BY <1>1, <1>3, <1>4, HistoryGrows
    <3>3. Documented(writer.hist, tombs, n)
      BY <3>1 DEF InStep
    <3> DEFINE h == writer.hist
               t == tombs
    <3>4. h' = h /\ t' = t
      BY <1>2
    <3>5. Documented(h, t, n)'
      <4> HIDE DEF h, t
      <4> QED BY <1>1, <1>3, <1>4, <3>3, <3>4, DocumentedKept DEF h, t
    <3> QED BY <1>2, <3>1, <3>2, <3>5 DEF InStep
  <2>2. Len(log') - 1 = n
    BY <1>4
  <2> QED BY <1>1, <1>2, <2>1, <2>2 DEF ContentInv
<1>8. GenerationInv'
  BY <1>1, <1>2, GenerationKept
<1> QED BY <1>5, <1>6, <1>7, <1>8 DEF IndexInv

\* An archived entry stays findable, its documents as they are.
LEMMA ArchiveIndex ==
    ASSUME IndexInv, NEW k \in Keys, NEW at \in Times, Archive(k, at)
    PROVE  IndexInv'
<1>1. PICK c \in Commits :
        log' = Append(log, c) /\ c.op = "remove" /\ c.key \notin Knowledge
  BY DEF Archive, Append1, Commit, Commits
<1>2. pc = "idle" /\ UNCHANGED <<pc, serving, full, writer, docs, tombs, nextSeq, gen, held, damaged>>
  BY DEF Archive, index
<1>3. PICK n \in Nat : n = Len(log)
  BY DEF IndexInv, TypeOK
<1>4. /\ log \in Seq(Commits) /\ log' \in Seq(Commits)
      /\ Len(log') = n + 1 /\ log'[n + 1] = c /\ \A i \in 1 .. n : log'[i] = log[i]
  BY <1>1, <1>3 DEF IndexInv, TypeOK, Commits
<1>5. TypeOK' /\ StepInv'
  BY <1>1, <1>2, <1>4 DEF IndexInv, TypeOK, StepInv, Commits
<1>6. NumberInv'
  <2>1. {i \in 1 .. n + 1 : log'[i].op = "write"} = {i \in 1 .. n : log[i].op = "write"}
    BY <1>1, <1>3, <1>4
  <2>2. Walked(n + 1)' = Walked(n)
    BY <2>1 DEF Walked
  <2> QED BY <1>2, <1>3, <1>4, <2>2 DEF IndexInv, NumberInv, StepInv
<1>7. ContentInv'
  <2> SUFFICES ASSUME ~damaged PROVE InStep(n + 1)' /\ gen.docs.heads = writer.heads
    BY <1>2, <1>4 DEF ContentInv
  <2>1. InStep(n) /\ gen.docs.heads = writer.heads
    BY <1>2, <1>3 DEF IndexInv, ContentInv
  <2>2. \A j \in Keys : HeadOf(n + 1, j)' = HeadOf(n, j)
    <3>1. \A j \in Keys : Writes(n + 1, j)' = Writes(n, j)
      BY <1>1, <1>3, <1>4 DEF Writes
    <3>2. \A j \in Knowledge : Removals(n + 1, j)' = Removals(n, j)
      BY <1>1, <1>3, <1>4 DEF Removals
    <3> QED BY <3>1, <3>2 DEF HeadOf
  <2>3. Documented(writer.hist, tombs, n + 1)'
    <3> DEFINE h == writer.hist
               t == tombs
    <3>1. h' = h /\ t' = t /\ Documented(h, t, n)
      BY <1>2, <2>1 DEF InStep
    <3> HIDE DEF h, t
    <3>2. Documented(h, t, n)'
      BY <1>1, <1>3, <1>4, <3>1, DocumentedKept
    <3>3. 1 .. n + 1 = (1 .. n) \union {n + 1}
      OBVIOUS
    <3>4. Documented(h, t, n + 1)'
      BY <1>1, <1>4, <3>2, <3>3 DEF Documented
    <3> QED BY <3>4 DEF h, t
  <2> QED BY <1>2, <2>1, <2>2, <2>3 DEF InStep
<1>8. GenerationInv'
  BY <1>1, <1>2, GenerationKept
<1> QED BY <1>5, <1>6, <1>7, <1>8 DEF IndexInv

\* What is exact stays exact while the history is what it was.
LEMMA ExactFrame ==
    ASSUME UNCHANGED log, NEW g, SnapshotExactIn(g)
    PROVE  SnapshotExactIn(g)'
<1> SUFFICES ASSUME g.sound, NEW k \in Keys, NEW at \in Times
             PROVE  CurrentVersion(g, at, k)' = CurrentAt(g.upto, at, k)'
  BY DEF SnapshotExactIn
<1>1. CurrentVersion(g, at, k)' = CurrentVersion(g, at, k)
  BY DEF CurrentVersion, TombstonesOf
<1>2. CurrentAt(g.upto, at, k)' = CurrentAt(g.upto, at, k)
  BY DEF CurrentAt, Writes, Removals
<1> QED BY <1>1, <1>2 DEF SnapshotExactIn

\* A step that leaves log and generations alone leaves what is said of them.
LEMMA UnseenStep ==
    ASSUME IndexInv, UNCHANGED <<log, gen, held>>
    PROVE  GenerationInv'
<1>1. SnapshotExactIn(gen) /\ SnapshotExactIn(held)
  BY DEF IndexInv, GenerationInv, SnapshotExact
<1>2. \A g : SnapshotExactIn(g) => SnapshotExactIn(g)'
  BY ExactFrame
<1>3. SnapshotExactIn(gen)' /\ SnapshotExactIn(held)'
  BY <1>1, <1>2
<1> QED BY <1>3 DEF IndexInv, GenerationInv, SnapshotExact

\* What InStep says depends on log, writer, tombs and nextSeq.
LEMMA InStepFrame ==
    ASSUME UNCHANGED <<log, writer, tombs, nextSeq>>, NEW n, InStep(n)
    PROVE  InStep(n)'
BY DEF InStep, HeadOf, Writes, Removals, Documented, Outranks

LEMMA UpsertIndex == ASSUME IndexInv, UpsertHead PROVE IndexInv'
<1>1. PICK n \in Nat : n = Len(log)
  BY DEF IndexInv, TypeOK
<1>2. /\ log \in Seq(Commits) /\ n \in 1 .. Len(log) /\ log[n].op = "write" /\ log[n] \in Commits
      /\ pc = "upsert_head" /\ serving /\ ~full
      /\ writer \in Docs /\ tombs \in SUBSET Stones /\ nextSeq \in Nat
  <2>1. /\ log \in Seq(Commits) /\ writer \in Docs /\ nextSeq \in Nat
        /\ tombs \in SUBSET Stones
    BY DEF IndexInv, TypeOK, Commits, Tombstones, Stones
  <2>2. pc = "upsert_head" /\ serving /\ ~full /\ n > 0 /\ log[n].op = "write"
    BY <1>1 DEF UpsertHead, IndexInv, StepInv, Written
  <2>3. n \in 1 .. Len(log)
    BY <1>1, <2>2
  <2>4. log[n] \in Commits
    BY <2>1, <2>3
  <2> QED BY <2>1, <2>2, <2>3, <2>4
<1> DEFINE v == Version(n, nextSeq)
<1>3. v \in Documents /\ v.seq = nextSeq
  BY <1>2 DEF Version, Documents, Commits
<1>4. /\ UNCHANGED <<log, serving, full, docs, tombs, gen, held, damaged>>
      /\ nextSeq' = nextSeq + 1 /\ pc' = "commit"
      /\ writer'.heads = [writer.heads EXCEPT ![log[n].key] = n]
      /\ writer'.hist = writer.hist \union {v}
      /\ writer' = [heads |-> writer'.heads, hist |-> writer'.hist]
  BY <1>1 DEF UpsertHead, Written
<1> HIDE DEF v
<1>5. writer' \in Docs
  BY <1>2, <1>3, <1>4, SMTT(30) DEF Docs, Commits, Documents
<1>6. TypeOK'
  BY <1>2, <1>3, <1>4, <1>5, SMTT(30) DEF IndexInv, TypeOK, Docs
<1>7. StepInv'
  BY <1>2, <1>4 DEF IndexInv, StepInv
<1>8. NumberInv'
  <2>1. Walked(n)' = Walked(n)
    BY <1>4 DEF Walked
  <2>2. Walked(n) = Walked(n - 1) + 1 /\ Walked(n) \in Nat /\ Walked(n - 1) \in Nat
    BY <1>2, WalkedLemma
  <2>3. Walked(n - 1) < nextSeq
    BY <1>1, <1>2 DEF IndexInv, NumberInv
  <2>4. Walked(n)' < nextSeq'
    BY <1>2, <1>4, <2>1, <2>2, <2>3
  <2>5. \A d \in (writer.hist \union docs.hist) : d.seq < nextSeq /\ d.seq \in Nat
    BY <1>2 DEF IndexInv, TypeOK, NumberInv, Docs
  <2>6. \A d \in (writer.hist \union docs.hist)' : d.seq < nextSeq'
    BY <1>2, <1>3, <1>4, <2>5
  <2> QED BY <1>1, <1>2, <1>4, <2>4, <2>6 DEF NumberInv
<1>9. ContentInv'
  <2>1. ASSUME ~damaged PROVE InStep(n)'
    <3>1. InStep(n - 1)
      BY <1>1, <1>2, <2>1 DEF IndexInv, ContentInv
    <3>2. \A k \in Keys : writer'.heads[k] = HeadOf(n, k)
      BY <1>2, <1>4, <3>1, HeadStep DEF InStep, Docs
    <3>3. Documented(writer.hist \union {v}, tombs, n)
      <4>1. writer.hist \in SUBSET Documents
        BY <1>2 DEF Docs, Documents
      <4> QED BY <1>2, <3>1, <4>1, VersionTold DEF InStep, v
    <3>4. /\ \A d \in writer'.hist : d.seq < nextSeq'
          /\ \A x \in tombs' : x.seq < nextSeq'
      BY <1>2, <1>3, <1>4, <3>1 DEF InStep, Docs, Stones
    <3>5. Documented(writer'.hist, tombs', n)
      BY <1>4, <3>3
    <3>6. Documented(writer.hist, tombs, n)' /\ \A k \in Keys : HeadOf(n, k)' = HeadOf(n, k)
      BY <1>4, <3>5 DEF Documented, Outranks, HeadOf, Writes, Removals
    <3> QED BY <3>2, <3>4, <3>6 DEF InStep
  <2> QED BY <1>1, <1>2, <1>4, <2>1 DEF ContentInv
<1>10. GenerationInv'
  BY <1>4, UnseenStep
<1> QED BY <1>6, <1>7, <1>8, <1>9, <1>10 DEF IndexInv

LEMMA RetractIndex == ASSUME IndexInv, Retract PROVE IndexInv'
<1>1. PICK n \in Nat : n = Len(log)
  BY DEF IndexInv, TypeOK
<1>2. /\ log \in Seq(Commits) /\ n \in 1 .. Len(log) /\ log[n] \in Commits
      /\ log[n].op = "remove" /\ log[n].key \in Knowledge
      /\ pc = "retract" /\ serving /\ ~full
      /\ writer \in Docs /\ tombs \in SUBSET Stones /\ nextSeq \in Nat
  <2>1. /\ log \in Seq(Commits) /\ writer \in Docs /\ nextSeq \in Nat
        /\ tombs \in SUBSET Stones
    BY DEF IndexInv, TypeOK, Commits, Tombstones, Stones
  <2>2. /\ pc = "retract" /\ serving /\ ~full /\ n > 0
        /\ log[n].op = "remove" /\ log[n].key \in Knowledge
    BY <1>1 DEF Retract, IndexInv, StepInv, Written
  <2>3. n \in 1 .. Len(log)
    BY <1>1, <2>2
  <2>4. log[n] \in Commits
    BY <2>1, <2>3
  <2> QED BY <2>1, <2>2, <2>3, <2>4
<1> DEFINE x == Tombstone(n, nextSeq)
<1>3. x \in Stones /\ x.seq = nextSeq
  BY <1>2 DEF Tombstone, Stones, Commits
<1>4. /\ UNCHANGED <<log, serving, full, docs, gen, held, damaged>>
      /\ nextSeq' = nextSeq + 1 /\ pc' = "commit" /\ tombs' = tombs \union {x}
      /\ writer'.heads = [writer.heads EXCEPT ![log[n].key] = 0]
      /\ writer'.hist = writer.hist
      /\ writer' \in Docs
  BY <1>1, <1>2 DEF Retract, Written, Docs
<1> HIDE DEF x
<1>5. TypeOK'
  <2>1. tombs' \in Tombstones
    BY <1>2, <1>3, <1>4 DEF Tombstones, Stones
  <2>2. \A d \in writer'.hist : d.seq < nextSeq'
    BY <1>2, <1>4 DEF IndexInv, TypeOK, Docs
  <2>3. nextSeq' \in Nat
    BY <1>2, <1>4
  <2> QED BY <1>4, <2>1, <2>2, <2>3 DEF IndexInv, TypeOK
<1>6. StepInv'
  BY <1>2, <1>4 DEF IndexInv, StepInv
<1>7. NumberInv'
  <2>1. Walked(n)' = Walked(n) /\ Walked(n) \in Nat
    BY <1>2, <1>4, WalkedLemma DEF Walked
  <2>2. Walked(n) < nextSeq
    BY <1>1, <1>2 DEF IndexInv, NumberInv
  <2>3. \A d \in (writer.hist \union docs.hist) : d.seq < nextSeq /\ d.seq \in Nat
    BY <1>2 DEF IndexInv, TypeOK, NumberInv, Docs
  <2> QED BY <1>1, <1>2, <1>4, <2>1, <2>2, <2>3 DEF NumberInv
<1>8. ContentInv'
  <2>1. ASSUME ~damaged PROVE InStep(n)'
    <3>1. InStep(n - 1)
      BY <1>1, <1>2, <2>1 DEF IndexInv, ContentInv
    <3>2. \A k \in Keys : writer'.heads[k] = HeadOf(n, k)
      BY <1>2, <1>4, <3>1, HeadStep DEF InStep, Docs
    <3>3. Documented(writer.hist, tombs \union {x}, n)
      <4>1. writer.hist \in SUBSET Documents
        BY <1>2 DEF Docs, Documents
      <4> QED BY <1>2, <3>1, <4>1, RetractionTold DEF InStep, x
    <3>4. /\ \A d \in writer'.hist : d.seq < nextSeq'
          /\ \A y \in tombs' : y.seq < nextSeq'
      BY <1>2, <1>3, <1>4, <3>1 DEF InStep, Docs, Stones
    <3>5. Documented(writer'.hist, tombs', n)
      BY <1>4, <3>3
    <3>6. Documented(writer.hist, tombs, n)' /\ \A k \in Keys : HeadOf(n, k)' = HeadOf(n, k)
      BY <1>4, <3>5 DEF Documented, Outranks, HeadOf, Writes, Removals
    <3> QED BY <3>2, <3>4, <3>6 DEF InStep
  <2> QED BY <1>1, <1>2, <1>4, <2>1 DEF ContentInv
<1>9. GenerationInv'
  BY <1>4, UnseenStep
<1> QED BY <1>5, <1>6, <1>7, <1>8, <1>9 DEF IndexInv

LEMMA CommitIndex == ASSUME IndexInv, CommitDocs PROVE IndexInv'
<1>1. /\ UNCHANGED <<log, serving, full, writer, tombs, nextSeq, gen, held, damaged>>
      /\ pc = "commit" /\ pc' = "swap" /\ docs' = writer
  BY DEF CommitDocs
<1>2. TypeOK' /\ StepInv'
  BY <1>1 DEF IndexInv, TypeOK, StepInv
<1>3. NumberInv'
  <2>1. Walked(Len(log))' = Walked(Len(log))
    BY <1>1 DEF Walked
  <2> QED BY <1>1, <2>1 DEF IndexInv, NumberInv
<1>4. ContentInv'
  <2>1. full \/ ~damaged => InStep(Len(log))
    BY <1>1 DEF IndexInv, ContentInv
  <2>2. PICK n : n = Len(log)
    OBVIOUS
  <2>3. full \/ ~damaged => InStep(n)'
    BY <1>1, <2>1, <2>2, InStepFrame
  <2> QED BY <1>1, <2>2, <2>3 DEF ContentInv
<1>5. GenerationInv'
  BY <1>1, UnseenStep
<1> QED BY <1>2, <1>3, <1>4, <1>5 DEF IndexInv

\* A publication is sound when what it publishes is in step with the history.
LEMMA PublishIndex == ASSUME IndexInv, Publish PROVE IndexInv'
<1>1. /\ UNCHANGED <<log, writer, docs, tombs, nextSeq, held>>
      /\ pc = "swap" /\ pc' = "idle" /\ serving' = TRUE /\ full' = FALSE
      /\ damaged' = (damaged /\ ~full)
      /\ gen' = Generation(docs, tombs, Len(log), ~damaged')
  BY DEF Publish, index
<1>2. PICK n \in Nat : n = Len(log)
  BY DEF IndexInv, TypeOK
<1>3. /\ log \in Seq(Commits) /\ docs \in Docs /\ tombs \in SUBSET Stones
      /\ docs = writer /\ damaged \in BOOLEAN /\ full \in BOOLEAN
  BY <1>1 DEF IndexInv, TypeOK, ContentInv, Commits, Tombstones, Stones
<1>4. full \/ ~damaged => InStep(n)
  BY <1>1, <1>2 DEF IndexInv, ContentInv
<1>5. serving \/ full
  BY <1>1 DEF IndexInv, StepInv
<1> DEFINE g == Generation(docs, tombs, n, ~damaged')
<1>6. /\ g.docs = docs /\ g.tombs = tombs /\ g.upto = n /\ g.sound = ~damaged'
      /\ g \in Generations
  BY <1>1, <1>3 DEF Generation, Generations, Tombstones, Stones
<1>7. g = gen'
  BY <1>1, <1>2
<1> HIDE DEF g
<1>8. \A d \in writer.hist : d.seq < nextSeq
  BY <1>4, <1>5 DEF IndexInv, TypeOK, InStep
<1>9. TypeOK'
  BY <1>1, <1>3, <1>6, <1>7, <1>8 DEF IndexInv, TypeOK
<1>10. StepInv'
  BY <1>1 DEF StepInv
<1>11. NumberInv'
  <2>1. Walked(Len(log))' = Walked(Len(log))
    BY <1>1 DEF Walked
  <2>2. Walked(Len(log)) < nextSeq
    BY <1>1 DEF IndexInv, NumberInv
  <2> QED BY <1>1, <1>3, <1>8, <2>1, <2>2 DEF NumberInv
<1>12. ContentInv'
  <2>1. ~damaged' => InStep(n)'
    BY <1>1, <1>4, InStepFrame
  <2> QED BY <1>1, <1>2, <1>3, <1>6, <1>7, <2>1 DEF ContentInv
<1>13. SnapshotExactIn(gen)'
  <2>1. SnapshotExactIn(g)
    <3> SUFFICES ASSUME g.sound, NEW k \in Keys, NEW at \in Times
                 PROVE  CurrentVersion(g, at, k) = CurrentAt(n, at, k)
      BY <1>6 DEF SnapshotExactIn
    <3>1. Documented(writer.hist, tombs, n)
      BY <1>1, <1>4, <1>6 DEF InStep
    <3>2. g.docs.hist \in SUBSET Documents
      BY <1>3, <1>6 DEF Docs, Documents
    <3> QED BY <1>2, <1>3, <1>6, <3>1, <3>2, SnapshotLemma
  <2>2. \A x : SnapshotExactIn(x) => SnapshotExactIn(x)'
    BY <1>1, ExactFrame
  <2>3. PICK x : x = g
    OBVIOUS
  <2>4. SnapshotExactIn(x)'
    BY <2>1, <2>2, <2>3
  <2> QED BY <1>7, <2>3, <2>4
<1>14. SnapshotExactIn(held)'
  BY <1>1, ExactFrame DEF IndexInv, GenerationInv, SnapshotExact
<1>15. GenerationInv'
  BY <1>1, <1>2, <1>6, <1>7, <1>13, <1>14 DEF IndexInv, GenerationInv, SnapshotExact
<1> QED BY <1>9, <1>10, <1>11, <1>12, <1>15 DEF IndexInv

\* What is left after a failure holds no number that will be given out again.
LEMMA FailedIndex == ASSUME IndexInv, PublishFails PROVE IndexInv'
<1>1. /\ UNCHANGED <<log, docs, tombs, nextSeq, serving, gen, held>>
      /\ pc \in {"commit", "swap"} /\ pc' = (IF serving THEN "idle" ELSE "down")
      /\ full' = FALSE /\ damaged' = TRUE
      /\ writer' \in {writer, docs}
  BY DEF PublishFails, Abandoned
<1>2. TypeOK /\ serving \in BOOLEAN /\ full \in BOOLEAN
  BY DEF IndexInv, TypeOK
<1>3. serving => \A d \in writer.hist \union docs.hist : d.seq < nextSeq
  <2>1. CASE ~full
    BY <2>1 DEF IndexInv, NumberInv
  <2>2. CASE full
    <3>1. \A d \in writer.hist : d.seq < nextSeq
      BY <1>1, <2>2 DEF IndexInv, ContentInv, InStep
    <3>2. docs.hist \in {{}, writer.hist}
      BY <1>1, <2>2 DEF IndexInv, NumberInv, ContentInv
    <3> QED BY <3>1, <3>2
  <2> QED BY <2>1, <2>2
<1>4. TypeOK'
  <2>1. writer' \in Docs
    BY <1>1, <1>2 DEF TypeOK
  <2>2. serving' => \A d \in writer'.hist : d.seq < nextSeq'
    BY <1>1, <1>3
  <2> QED BY <1>1, <1>2, <2>1, <2>2 DEF TypeOK
<1>5. StepInv'
  BY <1>1 DEF StepInv
<1>6. NumberInv'
  <2>1. Walked(Len(log))' = Walked(Len(log))
    BY <1>1 DEF Walked
  <2>2. Walked(Len(log)) < nextSeq
    BY <1>1 DEF IndexInv, NumberInv
  <2> QED BY <1>1, <1>3, <2>1, <2>2 DEF NumberInv
<1>7. ContentInv'
  BY <1>1 DEF ContentInv
<1>8. GenerationInv'
  BY <1>1, UnseenStep
<1> QED BY <1>4, <1>5, <1>6, <1>7, <1>8 DEF IndexInv

LEMMA ClearIndex == ASSUME IndexInv, ClearDocs PROVE IndexInv'
<1>1. /\ UNCHANGED <<log, serving, tombs, nextSeq, gen, held, damaged>>
      /\ pc \in {"idle", "down"} /\ pc' = "walk_history" /\ full' = TRUE
      /\ writer' = NoDocs /\ docs' = NoDocs
  BY DEF ClearDocs
<1>2. NoDocs \in Docs /\ NoDocs.hist = {}
  BY DEF NoDocs, Docs
<1>3. TypeOK' /\ StepInv'
  BY <1>1, <1>2 DEF IndexInv, TypeOK, StepInv
<1>4. NumberInv'
  <2>1. Walked(Len(log))' = Walked(Len(log))
    BY <1>1 DEF Walked
  <2> QED BY <1>1, <1>2, <2>1 DEF IndexInv, NumberInv
<1>5. ContentInv'
  BY <1>1 DEF ContentInv
<1>6. GenerationInv'
  BY <1>1, UnseenStep
<1> QED BY <1>3, <1>4, <1>5, <1>6 DEF IndexInv

LEMMA WalkIndex == ASSUME IndexInv, WalkHistory PROVE IndexInv'
<1>1. /\ UNCHANGED <<log, serving, full, docs, tombs, nextSeq, gen, held, damaged>>
      /\ pc = "walk_history" /\ pc' = "list_head" /\ full
      /\ writer' = [writer EXCEPT !.hist = WalkedDocs]
  BY DEF WalkHistory, WalkedDocs, IndexInv, StepInv
<1>2. TypeOK /\ log \in Seq(Commits) /\ writer \in Docs
  BY DEF IndexInv, TypeOK, Commits
<1>3. WalkedDocs \in SUBSET Documents
  BY <1>2, WalkTold
<1>4. writer' \in Docs /\ writer'.hist = WalkedDocs
  BY <1>1, <1>2, <1>3 DEF Docs, Documents
<1>5. TypeOK'
  BY <1>1, <1>2, <1>4 DEF TypeOK
<1>6. StepInv'
  BY <1>1 DEF IndexInv, StepInv
<1>7. NumberInv'
  <2>1. Walked(Len(log))' = Walked(Len(log))
    BY <1>1 DEF Walked
  <2> QED BY <1>1, <2>1 DEF IndexInv, NumberInv
<1>8. ContentInv'
  <2>1. WalkedDocs' = WalkedDocs
    BY <1>1 DEF WalkedDocs, Version, Walked
  <2> QED BY <1>1, <1>4, <2>1 DEF ContentInv
<1>9. GenerationInv'
  BY <1>1, UnseenStep
<1> QED BY <1>5, <1>6, <1>7, <1>8, <1>9 DEF IndexInv

\* The rebuilt documents are in step, whatever was damaged before.
LEMMA ListIndex == ASSUME IndexInv, ListHead PROVE IndexInv'
<1>1. PICK n \in Nat : n = Len(log)
  BY DEF IndexInv, TypeOK
<1>2. /\ UNCHANGED <<log, serving, full, docs, gen, held, damaged>>
      /\ pc = "list_head" /\ pc' = "commit" /\ full
      /\ writer' = [writer EXCEPT !.heads = [k \in Keys |-> HeadOf(n, k)]]
      /\ tombs' = WalkedTombs /\ nextSeq' = Walked(n) + 1
  BY <1>1 DEF ListHead, IndexInv, StepInv
<1>3. TypeOK /\ log \in Seq(Commits) /\ writer \in Docs /\ writer.hist = WalkedDocs
  BY <1>2 DEF IndexInv, TypeOK, ContentInv, Commits
<1>4. /\ writer'.heads = [k \in Keys |-> HeadOf(n, k)]
      /\ writer'.hist = WalkedDocs /\ writer' \in Docs
  <2>1. \A k : HeadOf(n, k) \in Nat
    BY HistoryTypes
  <2> QED BY <1>2, <1>3, <2>1 DEF Docs
<1>5. Walked(n) \in Nat
  BY <1>1, <1>3, WalkedLemma
<1>6. /\ Documented(WalkedDocs, WalkedTombs, n)
      /\ WalkedDocs \in SUBSET Documents /\ WalkedTombs \in SUBSET Stones
      /\ \A d \in WalkedDocs : d.seq <= Walked(n)
      /\ \A x \in WalkedTombs : x.seq <= Walked(n)
  BY <1>1, <1>3, WalkTold
<1>7. TypeOK'
  <2>1. tombs' \in Tombstones /\ nextSeq' \in Nat
    BY <1>2, <1>5, <1>6 DEF Tombstones, Stones
  <2> QED BY <1>2, <1>3, <1>4, <2>1 DEF TypeOK
<1>8. StepInv'
  BY <1>2 DEF IndexInv, StepInv
<1>9. NumberInv'
  <2>1. Walked(n)' = Walked(n)
    BY <1>2 DEF Walked
  <2> QED BY <1>1, <1>2, <1>5, <2>1 DEF IndexInv, NumberInv
<1>10. InStep(n)'
  <2>1. \A d \in writer'.hist : d.seq < nextSeq'
    BY <1>2, <1>4, <1>5, <1>6 DEF Documents
  <2>2. \A x \in tombs' : x.seq < nextSeq'
    BY <1>2, <1>5, <1>6 DEF Stones
  <2>3. Documented(writer'.hist, tombs', n)
    BY <1>2, <1>4, <1>6
  <2>4. \A k \in Keys : writer'.heads[k] = HeadOf(n, k)
    BY <1>4
  <2>5. Documented(writer.hist, tombs, n)' /\ \A k \in Keys : HeadOf(n, k)' = HeadOf(n, k)
    BY <1>2, <2>3 DEF Documented, Outranks, HeadOf, Writes, Removals
  <2> QED BY <2>1, <2>2, <2>4, <2>5 DEF InStep
<1>11. ContentInv'
  BY <1>1, <1>2, <1>10 DEF ContentInv
<1>12. GenerationInv'
  BY <1>2, UnseenStep
<1> QED BY <1>7, <1>8, <1>9, <1>11, <1>12 DEF IndexInv

LEMMA UnreadIndex == ASSUME IndexInv, ReadFails PROVE IndexInv'
<1>1. /\ UNCHANGED <<log, serving, writer, docs, tombs, nextSeq, gen, held>>
      /\ pc \in {"walk_history", "list_head"} /\ pc' = (IF serving THEN "idle" ELSE "down")
      /\ full' = FALSE /\ damaged' = TRUE /\ full
  BY DEF ReadFails, Abandoned, index, IndexInv, StepInv
<1>2. TypeOK /\ log \in Seq(Commits) /\ nextSeq \in Nat /\ docs.hist = {}
  BY <1>1 DEF IndexInv, TypeOK, Commits, NumberInv
<1>3. serving => Walked(Len(log)) < nextSeq
  BY <1>1 DEF IndexInv, NumberInv
<1>4. serving => \A d \in writer.hist : d.seq < nextSeq
  <2>1. CASE pc = "walk_history"
    BY <2>1 DEF IndexInv, NumberInv
  <2>2. CASE pc = "list_head"
    <3>1. writer.hist = WalkedDocs
      BY <2>2 DEF IndexInv, ContentInv
    <3>2. WalkedDocs \in SUBSET Documents /\ \A d \in WalkedDocs : d.seq <= Walked(Len(log))
      BY <1>2, WalkTold
    <3>3. Walked(Len(log)) \in Nat
      BY <1>2, WalkedLemma
    <3> QED BY <1>2, <1>3, <3>1, <3>2, <3>3 DEF Documents
  <2> QED BY <1>1, <2>1, <2>2
<1>5. TypeOK' /\ StepInv'
  BY <1>1, <1>2, <1>4 DEF TypeOK, StepInv
<1>6. NumberInv'
  <2>1. Walked(Len(log))' = Walked(Len(log))
    BY <1>1 DEF Walked
  <2> QED BY <1>1, <1>2, <1>3, <1>4, <2>1 DEF NumberInv
<1>7. ContentInv'
  BY <1>1 DEF ContentInv
<1>8. GenerationInv'
  BY <1>1, UnseenStep
<1> QED BY <1>5, <1>6, <1>7, <1>8 DEF IndexInv

LEMMA CrashIndex == ASSUME IndexInv, Crash PROVE IndexInv'
<1>1. /\ UNCHANGED <<log, docs, damaged>>
      /\ pc' = "down" /\ serving' = FALSE /\ full' = FALSE
      /\ writer' = docs /\ tombs' = {} /\ nextSeq' = 0
      /\ gen' = NoGeneration /\ held' = NoGeneration
  BY DEF Crash
<1>2. TypeOK /\ log \in Seq(Commits)
  BY DEF IndexInv, TypeOK, Commits
<1>3. NoGeneration \in Generations /\ NoGeneration.upto = 0
  BY DEF NoDocs, Docs, NoGeneration, Generation, Generations, Tombstones
<1>4. TypeOK'
  BY <1>1, <1>2, <1>3 DEF TypeOK, Tombstones
<1>5. StepInv' /\ NumberInv' /\ ContentInv'
  BY <1>1 DEF StepInv, NumberInv, ContentInv
<1>6. SnapshotExactIn(NoGeneration)'
  BY <1>1, <1>2, NothingShown, ExactFrame
<1>7. GenerationInv'
  BY <1>1, <1>2, <1>3, <1>6 DEF GenerationInv, SnapshotExact
<1> QED BY <1>4, <1>5, <1>7 DEF IndexInv

\* A search that begins takes the generation as it is.
LEMMA SearchIndexKept ==
    ASSUME IndexInv, UNCHANGED <<log, pc, serving, full, index, gen, damaged>>, held' \in {held, gen}
    PROVE  IndexInv'
<1>1. UNCHANGED <<writer, docs, tombs, nextSeq>>
  BY DEF index
<1>2. TypeOK' /\ StepInv'
  BY <1>1 DEF IndexInv, TypeOK, StepInv, Written
<1>3. NumberInv'
  BY <1>1 DEF IndexInv, NumberInv, Walked
<1>4. ContentInv'
  <2>1. PICK n, m : n = Len(log) /\ m = Len(log) - 1
    OBVIOUS
  <2>2. (InStep(n) => InStep(n)') /\ (InStep(m) => InStep(m)')
    BY <1>1, InStepFrame
  <2>3. n = Len(log') /\ m = Len(log') - 1
    BY <2>1
  <2>4. /\ pc' = "idle" /\ ~damaged' => InStep(n)' /\ gen'.docs.heads = writer'.heads
        /\ pc' \in {"upsert_head", "retract"} /\ ~damaged' => InStep(m)'
        /\ pc' \in {"commit", "swap"} /\ (full' \/ ~damaged') => InStep(n)'
        /\ pc' = "swap" => docs' = writer'
    BY <1>1, <2>1, <2>2 DEF IndexInv, ContentInv
  <2>5. (pc = "list_head" => writer.hist = WalkedDocs)'
    BY <1>1, ZenonT(60) DEF IndexInv, ContentInv, WalkedDocs, Version, Walked
  <2> QED BY <2>3, <2>4, <2>5 DEF ContentInv
<1>5. GenerationInv'
  <2>1. \A g : SnapshotExactIn(g) => SnapshotExactIn(g)'
    BY ExactFrame
  <2>2. SnapshotExactIn(gen)' /\ SnapshotExactIn(held)'
    BY <2>1 DEF IndexInv, GenerationInv, SnapshotExact
  <2> QED BY <2>2 DEF IndexInv, GenerationInv, SnapshotExact
<1> QED BY <1>2, <1>3, <1>4, <1>5 DEF IndexInv

\* Whatever happens.
LEMMA IndexStep == IndexInv /\ [Next]_vars => IndexInv'
<1> SUFFICES ASSUME IndexInv, [Next]_vars PROVE IndexInv'
  OBVIOUS
<1>1. CASE Write
  BY <1>1, BeginIndex, ArchiveIndex, UpsertIndex, RetractIndex DEF Write
<1>2. CASE CommitDocs \/ Publish \/ PublishFails
  BY <1>2, CommitIndex, PublishIndex, FailedIndex
<1>3. CASE Reindex
  BY <1>3, ClearIndex, WalkIndex, ListIndex, UnreadIndex DEF Reindex
<1>4. CASE Crash
  BY <1>4, CrashIndex
<1>5. CASE BeginSearch \/ UNCHANGED vars
  BY <1>5, SearchIndexKept DEF BeginSearch, vars, index
<1> QED BY <1>1, <1>2, <1>3, <1>4, <1>5 DEF Next

-----------------------------------------------------------------------------
(* Theorems *)

\* The index has its type, and in a process that answers, outside a reindex,
\* the number given out next is above every number the writer holds (index.rs
\* next_seq).
THEOREM IndexTyped == Spec => []TypeOK
<1>1. Init => IndexInv
  BY IndexInit
<1>2. IndexInv /\ [Next]_vars => IndexInv'
  BY IndexStep
<1>3. IndexInv => TypeOK
  BY DEF IndexInv
<1> QED BY <1>1, <1>2, <1>3, PTL DEF Spec

\* An as_of search answers with the version the history calls current then, on
\* the published generation and on the older one a search may still hold,
\* unless a failed update had damaged the generation (index.rs
\* current_version_per_key).
THEOREM SnapshotsStayExact == Spec => []SnapshotExact
<1>1. Init => IndexInv
  BY IndexInit
<1>2. IndexInv /\ [Next]_vars => IndexInv'
  BY IndexStep
<1>3. IndexInv => SnapshotExact
  BY DEF IndexInv, GenerationInv
<1> QED BY <1>1, <1>2, <1>3, PTL DEF Spec

\* Between requests the default search shows every live and archived entry in
\* its newest version and nothing that was retracted (index.rs upsert_head,
\* delete_head, reindex).
THEOREM HeadsStayExact == Spec => []HeadsExact
<1>1. Init => IndexInv
  BY IndexInit
<1>2. IndexInv /\ [Next]_vars => IndexInv'
  BY IndexStep
<1>3. IndexInv => HeadsExact
  BY DEF IndexInv, ContentInv, InStep, HeadsExact
<1> QED BY <1>1, <1>2, <1>3, PTL DEF Spec

-----------------------------------------------------------------------------
(* Lists *)

\* before is an order in which the elements of S can be listed.
Orders(before, S) ==
    /\ \A x \in S : <<x, x>> \notin before
    /\ \A x, y \in S : x # y => <<x, y>> \in before \/ <<y, x>> \in before
    /\ \A x, y, z \in S : <<x, y>> \in before /\ <<y, z>> \in before => <<x, z>> \in before

\* What is a list of the elements of S.
IsList(r, S) ==
    /\ IsFiniteSet(S) /\ r \in [S -> Nat \ {0}]
    /\ \A x, y \in S : r[x] = r[y] => x = y

\* A list that leaves no place out.
Dense(r, S) == IsList(r, S) /\ \A x \in S : \A p \in 1 .. r[x] : \E y \in S : r[y] = p

\* An element comes before another as the order says, and no place is left out.
LEMMA PlacedLemma ==
    ASSUME NEW S, IsFiniteSet(S), NEW before, Orders(before, S)
    PROVE  LET r == Placed(S, before) IN
           /\ Dense(r, S)
           /\ \A x, y \in S : <<x, y>> \in before <=> r[x] < r[y]
<1> DEFINE r == Placed(S, before)
           P(x) == {y \in S : <<y, x>> \in before}
<1>1. \A x \in S : r[x] = 1 + Cardinality(P(x))
  BY DEF Placed
<1>2. r = [x \in S |-> r[x]]
  BY DEF Placed
<1>3. \A x \in S : P(x) \in SUBSET S /\ x \notin P(x)
  BY DEF Orders
<1>4. ASSUME NEW x \in S
      PROVE  /\ IsFiniteSet(P(x)) /\ Cardinality(P(x)) \in Nat
             /\ IsFiniteSet(P(x) \union {x})
             /\ Cardinality(P(x) \union {x}) = Cardinality(P(x)) + 1
             /\ Cardinality(P(x) \union {x}) <= Cardinality(S)
  <2>1. IsFiniteSet(P(x))
    BY <1>3, FS_Subset
  <2>2. IsFiniteSet(P(x) \union {x}) /\ Cardinality(P(x) \union {x}) = Cardinality(P(x)) + 1
    BY <1>3, <2>1, FS_AddElement
  <2>3. P(x) \union {x} \in SUBSET S
    BY <1>3
  <2> QED BY <2>1, <2>2, <2>3, FS_CardinalityType, FS_Subset
<1>5. ASSUME NEW x \in S, NEW y \in S, <<x, y>> \in before PROVE r[x] < r[y]
  <2>1. P(x) \union {x} \in SUBSET P(y)
    BY <1>5 DEF Orders
  <2>2. Cardinality(P(x) \union {x}) <= Cardinality(P(y))
    BY <1>4, <2>1, FS_Subset
  <2>3. /\ r[x] = 1 + Cardinality(P(x)) /\ r[y] = 1 + Cardinality(P(y))
        /\ Cardinality(P(x)) \in Nat /\ Cardinality(P(y)) \in Nat
        /\ Cardinality(P(x) \union {x}) = Cardinality(P(x)) + 1
    BY <1>1, <1>4
  <2> QED BY <2>2, <2>3
<1>6. \A x \in S : r[x] \in 1 .. Cardinality(S)
  <2> SUFFICES ASSUME NEW x \in S PROVE r[x] \in 1 .. Cardinality(S)
    OBVIOUS
  <2>1. Cardinality(S) \in Nat
    BY FS_CardinalityType
  <2>2. /\ Cardinality(P(x)) \in Nat
        /\ Cardinality(P(x) \union {x}) = Cardinality(P(x)) + 1
        /\ Cardinality(P(x) \union {x}) <= Cardinality(S)
    BY <1>4
  <2>3. r[x] = 1 + Cardinality(P(x))
    BY <1>1
  <2> DEFINE a == Cardinality(P(x))
             b == Cardinality(P(x) \union {x})
             c == Cardinality(S)
             d == r[x]
  <2>4. a \in Nat /\ b = a + 1 /\ b <= c /\ d = 1 + a /\ c \in Nat
    BY <2>1, <2>2, <2>3
  <2> HIDE DEF P, r, a, b, c, d
  <2>5. d \in 1 .. c
    BY <2>4
  <2> QED BY <2>5 DEF c, d
<1> HIDE DEF r, P
<1>7. \A x, y \in S : r[x] = r[y] => x = y
  <2> SUFFICES ASSUME NEW x \in S, NEW y \in S, x # y PROVE r[x] # r[y]
    OBVIOUS
  <2>1. r[x] < r[y] \/ r[y] < r[x]
    BY <1>5 DEF Orders
  <2> QED BY <1>6, <2>1
<1>8. \A x, y \in S : r[x] < r[y] => <<x, y>> \in before
  <2> SUFFICES ASSUME NEW x \in S, NEW y \in S, r[x] < r[y] PROVE <<x, y>> \in before
    OBVIOUS
  <2>1. x # y /\ ~(r[y] < r[x])
    BY <1>6
  <2> QED BY <1>5, <2>1 DEF Orders
<1>9. r \in Surjection(S, 1 .. Cardinality(S))
  <2>1. r \in [S -> 1 .. Cardinality(S)]
    BY <1>2, <1>6
  <2>2. r \in Injection(S, 1 .. Cardinality(S))
    BY <1>7, <2>1 DEF Injection, IsInjective
  <2>3. Cardinality(S) \in Nat
    BY FS_CardinalityType
  <2>4. IsFiniteSet(1 .. Cardinality(S)) /\ Cardinality(1 .. Cardinality(S)) = Cardinality(S)
    BY <2>3, FS_Interval
  <2> QED BY <2>2, <2>4, FS_Injection
<1>10. ASSUME NEW x \in S, NEW p \in 1 .. r[x] PROVE \E y \in S : r[y] = p
  <2>1. Cardinality(S) \in Nat /\ r[x] \in 1 .. Cardinality(S)
    BY <1>6, FS_CardinalityType
  <2>2. p \in 1 .. Cardinality(S)
    BY <2>1
  <2> QED BY <1>9, <2>2 DEF Surjection
<1>11. r \in [S -> Nat \ {0}]
  BY <1>2, <1>6
<1> QED BY <1>5, <1>7, <1>8, <1>10, <1>11 DEF IsList, Dense, r

\* What is kept of a list.
LEMMA CutLemma ==
    ASSUME NEW S, NEW r, IsList(r, S), NEW n \in Nat
    PROVE  LET c == Cut(r, n) IN
           /\ DOMAIN c = {x \in S : r[x] <= n} /\ DOMAIN c \in SUBSET S
           /\ \A x \in DOMAIN c : c[x] = r[x]
           /\ IsList(c, DOMAIN c)
           /\ c = [x \in DOMAIN c |-> c[x]]
<1> DEFINE c == Cut(r, n)
           C == {x \in S : r[x] <= n}
<1>1. DOMAIN r = S
  BY DEF IsList
<1>2. c = [x \in C |-> r[x]]
  BY <1>1 DEF Cut
<1>3. DOMAIN c = C /\ \A x \in C : c[x] = r[x]
  BY <1>2
<1>4. c = [x \in C |-> c[x]]
  BY <1>2
<1>5. C \in SUBSET S /\ IsFiniteSet(C)
  <2>1. C \in SUBSET S
    OBVIOUS
  <2> HIDE DEF C
  <2> QED BY <2>1, FS_Subset DEF IsList
<1> HIDE DEF c
<1>6. \A x \in C : c[x] \in Nat \ {0}
  BY <1>3 DEF IsList
<1> HIDE DEF C
<1>7. c \in [C -> Nat \ {0}]
  BY <1>4, <1>6
<1>8. IsList(c, C)
  BY <1>3, <1>5, <1>7 DEF IsList
<1> QED BY <1>3, <1>4, <1>5, <1>8 DEF c, C

\* Every list has an order.
LEMMA ListOrders ==
    ASSUME NEW S, NEW r, IsList(r, S), NEW K \in SUBSET S
    PROVE  /\ Orders({p \in K \X K : r[p[1]] < r[p[2]]}, K) /\ IsFiniteSet(K)
           /\ \A x, y \in K : <<x, y>> \in {p \in K \X K : r[p[1]] < r[p[2]]} <=> r[x] < r[y]
<1> DEFINE B == {p \in K \X K : r[p[1]] < r[p[2]]}
<1>1. \A x, y \in K : <<x, y>> \in B <=> r[x] < r[y]
  OBVIOUS
<1>2. \A x \in K : r[x] \in Nat
  BY DEF IsList
<1>3. \A x, y \in K : x # y => r[x] # r[y]
  BY DEF IsList
<1> HIDE DEF B
<1>4. Orders(B, K)
  <2>1. \A x \in K : <<x, x>> \notin B
    BY <1>1, <1>2
  <2>2. \A x, y \in K : x # y => <<x, y>> \in B \/ <<y, x>> \in B
    BY <1>1, <1>2, <1>3
  <2>3. \A x, y, z \in K : <<x, y>> \in B /\ <<y, z>> \in B => <<x, z>> \in B
    BY <1>1, <1>2
  <2> QED BY <2>1, <2>2, <2>3 DEF Orders
<1> QED BY <1>1, <1>4, FS_Subset DEF IsList, B

\* Those of a list that are in K, in their order.
LEMMA AmongLemma ==
    ASSUME NEW S, NEW r, IsList(r, S), NEW K \in SUBSET S
    PROVE  LET a == Among(r, K) IN
           /\ Dense(a, K)
           /\ \A x, y \in K : a[x] < a[y] <=> r[x] < r[y]
           /\ \A before : (\A x, y \in K : <<x, y>> \in before <=> r[x] < r[y]) => a = Placed(K, before)
<1> DEFINE B == {p \in K \X K : r[p[1]] < r[p[2]]}
           a == Among(r, K)
<1>1. a = Placed(K, B)
  BY DEF Among
<1>2. Orders(B, K) /\ IsFiniteSet(K) /\ \A x, y \in K : <<x, y>> \in B <=> r[x] < r[y]
  BY ListOrders
<1> HIDE DEF B, a
<1>3. Dense(a, K) /\ \A x, y \in K : <<x, y>> \in B <=> a[x] < a[y]
  BY <1>1, <1>2, PlacedLemma
<1>4. ASSUME NEW before, \A x, y \in K : <<x, y>> \in before <=> r[x] < r[y]
      PROVE  a = Placed(K, before)
  <2>1. \A x \in K : {y \in K : <<y, x>> \in before} = {y \in K : <<y, x>> \in B}
    BY <1>2, <1>4
  <2> QED BY <1>1, <2>1 DEF Placed
<1> QED BY <1>2, <1>3, <1>4 DEF a

\* Two lists of the same order without gaps are one.
LEMMA SameList ==
    ASSUME NEW S, NEW r, NEW l, Dense(r, S), Dense(l, S), \A x, y \in S : r[x] < r[y] <=> l[x] < l[y]
    PROVE  r = l
<1>0. \A x \in S : r[x] \in Nat \ {0} /\ l[x] \in Nat \ {0}
  BY DEF Dense, IsList
<1> DEFINE D == {r[x] : x \in {y \in S : r[y] # l[y]}}
<1>1. D = {}
  <2> SUFFICES ASSUME D # {} PROVE FALSE
    OBVIOUS
  <2>1. D \in SUBSET Nat
    BY <1>0
  <2> HIDE DEF D
  <2>2. PICK m \in D : \A n \in D : m <= n
    BY <2>1, Least
  <2>3. PICK x \in S : r[x] = m /\ r[x] # l[x]
    BY <2>2 DEF D
  <2>4. \A y \in S : r[y] < r[x] => r[y] = l[y]
    <3> SUFFICES ASSUME NEW y \in S, r[y] < r[x], r[y] # l[y] PROVE FALSE
      OBVIOUS
    <3>1. r[y] \in D
      BY DEF D
    <3> QED BY <1>0, <2>2, <2>3, <3>1
  <2>5. CASE l[x] < r[x]
    <3>1. l[x] \in 1 .. r[x]
      BY <1>0, <2>5
    <3>2. PICK y \in S : r[y] = l[x]
      BY <3>1 DEF Dense
    <3>3. l[y] = l[x] /\ y # x
      BY <1>0, <2>4, <2>5, <3>2
    <3> QED BY <3>3 DEF Dense, IsList
  <2>6. CASE r[x] < l[x]
    <3>1. r[x] \in 1 .. l[x]
      BY <1>0, <2>6
    <3>2. PICK y \in S : l[y] = r[x]
      BY <3>1 DEF Dense
    <3>3. r[y] < r[x]
      BY <1>0, <2>6, <3>2
    <3>4. l[y] = r[y]
      BY <2>4, <3>3
    <3> QED BY <1>0, <3>2, <3>3, <3>4
  <2> QED BY <1>0, <2>3, <2>5, <2>6
<1>2. \A x \in S : r[x] = l[x]
  BY <1>1
<1>3. r = [x \in S |-> r[x]] /\ l = [x \in S |-> l[x]]
  BY DEF Dense, IsList
<1> QED BY <1>2, <1>3

\* The first of a list are a list already; what is cut twice is cut once.
LEMMA CutAmong ==
    ASSUME NEW S, NEW r, Dense(r, S), NEW n \in Nat
    PROVE  LET c == Cut(r, n) IN
           /\ Dense(c, DOMAIN c) /\ Among(c, DOMAIN c) = c
           /\ \A m \in Nat : m <= n => Cut(c, m) = Cut(r, m)
<1> DEFINE c == Cut(r, n)
           C == DOMAIN c
<1>1. /\ C = {x \in S : r[x] <= n} /\ C \in SUBSET S
      /\ \A x \in C : c[x] = r[x]
      /\ IsList(c, C)
  <2>1. IsList(r, S)
    BY DEF Dense
  <2>2. /\ DOMAIN Cut(r, n) = {x \in S : r[x] <= n} /\ DOMAIN Cut(r, n) \in SUBSET S
        /\ \A x \in DOMAIN Cut(r, n) : Cut(r, n)[x] = r[x]
        /\ IsList(Cut(r, n), DOMAIN Cut(r, n))
    <3> HIDE DEF C, c
    <3>1. \A T, l, k : IsList(l, T) /\ k \in Nat =>
            /\ DOMAIN Cut(l, k) = {x \in T : l[x] <= k} /\ DOMAIN Cut(l, k) \in SUBSET T
            /\ \A x \in DOMAIN Cut(l, k) : Cut(l, k)[x] = l[x]
            /\ IsList(Cut(l, k), DOMAIN Cut(l, k))
      BY CutLemma, SMTT(30)
    <3> QED BY <2>1, <3>1
  <2> QED BY <2>2
<1>0. \A x \in S : r[x] \in Nat
  BY DEF Dense, IsList
<1> HIDE DEF c, C
<1>2. Dense(c, C)
  <2> SUFFICES ASSUME NEW x \in C, NEW p \in 1 .. c[x] PROVE \E y \in C : c[y] = p
    BY <1>1 DEF Dense
  <2>1. p \in 1 .. r[x] /\ x \in S /\ r[x] <= n
    BY <1>1
  <2>2. PICK y \in S : r[y] = p
    BY <2>1 DEF Dense
  <2>3. y \in C
    BY <1>0, <1>1, <2>1, <2>2
  <2> QED BY <1>1, <2>2, <2>3
<1>3. Among(c, C) = c
  <2>1. Dense(Among(c, C), C) /\ \A x, y \in C : Among(c, C)[x] < Among(c, C)[y] <=> c[x] < c[y]
    BY <1>1, AmongLemma
  <2> QED BY <1>2, <2>1, SameList
<1>4. ASSUME NEW m \in Nat, m <= n PROVE Cut(c, m) = Cut(r, m)
  <2>1. DOMAIN r = S /\ DOMAIN c = C
    BY DEF Dense, IsList, C
  <2>2. {y \in C : c[y] <= m} = {y \in S : r[y] <= m}
    BY <1>0, <1>1, <1>4
  <2>3. \A x \in {y \in C : c[y] <= m} : c[x] = r[x]
    BY <1>1
  <2> QED BY <2>1, <2>2, <2>3 DEF Cut
<1> QED BY <1>2, <1>3, <1>4 DEF c, C

-----------------------------------------------------------------------------
(* Generations *)

\* A generation that counts as sound is the history it was published after.
Exact(g) ==
    g.sound => /\ Documented(g.docs.hist, g.tombs, g.upto)
               /\ \A k \in Keys : g.docs.heads[k] = HeadOf(g.upto, k)

AnswerInv == IndexInv /\ Exact(gen) /\ Exact(held)

\* It stays so when the history grows.
LEMMA ExactKept ==
    ASSUME log \in Seq(Commits), NEW c \in Commits, log' = Append(log, c), NEW g, g.upto \in 0 .. Len(log), Exact(g)
    PROVE  Exact(g)'
<1> SUFFICES ASSUME g.sound PROVE Documented(g.docs.hist, g.tombs, g.upto)' /\ \A k \in Keys : g.docs.heads[k] = HeadOf(g.upto, k)'
  BY DEF Exact
<1>1. \A k : HeadOf(g.upto, k)' = HeadOf(g.upto, k)
  BY HistoryGrows
<1>2. \A i \in 1 .. g.upto : log'[i] = log[i]
  BY HistoryGrows
<1>3. Documented(g.docs.hist, g.tombs, g.upto)
  BY DEF Exact
<1>4. Documented(g.docs.hist, g.tombs, g.upto)'
  BY <1>2, <1>3 DEF Documented, Outranks
<1> QED BY <1>1, <1>4 DEF Exact

\* What a write publishes.
LEMMA ExactPublished == ASSUME AnswerInv, Publish PROVE Exact(gen)'
<1>1. /\ log' = log /\ pc = "swap" /\ damaged' = (damaged /\ ~full)
      /\ gen' = Generation(docs, tombs, Len(log), ~damaged')
  BY DEF Publish
<1>2. gen'.docs = docs /\ gen'.tombs = tombs /\ gen'.upto = Len(log) /\ (gen'.sound => ~damaged')
  BY <1>1 DEF Generation
<1>3. docs = writer /\ (full \/ ~damaged => InStep(Len(log)))
  BY <1>1 DEF AnswerInv, IndexInv, ContentInv
<1>4. PICK g, h, t, n : g = gen' /\ h = writer.hist /\ t = tombs /\ n = Len(log)
  OBVIOUS
<1>5. g.docs.hist = h /\ g.docs.heads = writer.heads /\ g.tombs = t /\ g.upto = n
  BY <1>2, <1>3, <1>4
<1>6. ASSUME g.sound PROVE Documented(h, t, n) /\ \A k \in Keys : g.docs.heads[k] = HeadOf(n, k)
  <2>1. InStep(Len(log))
    BY <1>1, <1>2, <1>3, <1>4, <1>6
  <2> QED BY <1>4, <1>5, <2>1 DEF InStep
<1>7. Documented(h, t, n) => Documented(h, t, n)'
  BY <1>1 DEF Documented, Outranks
<1>8. \A k \in Keys : HeadOf(n, k)' = HeadOf(n, k)
  BY <1>1 DEF HeadOf, Writes, Removals
<1>9. Exact(g)'
  BY <1>5, <1>6, <1>7, <1>8 DEF Exact
<1> QED BY <1>4, <1>9, SMTT(30) DEF Exact, Documented, Outranks

LEMMA ExactFromNothing == Exact(NoGeneration)
<1>1. /\ NoGeneration.docs.hist = {} /\ NoGeneration.tombs = {} /\ NoGeneration.upto = 0
      /\ \A k \in Keys : NoGeneration.docs.heads[k] = 0
  BY DEF NoGeneration, Generation, NoDocs
<1>2. \A k : HeadOf(0, k) = 0
  BY DEF HeadOf, Writes, Removals, Newest
<1>3. Documented({}, {}, 0)
  BY DEF Documented
<1> QED BY <1>1, <1>2, <1>3 DEF Exact

LEMMA AnswerStep == AnswerInv /\ [Next]_vars => AnswerInv'
<1> SUFFICES ASSUME AnswerInv, [Next]_vars PROVE AnswerInv'
  OBVIOUS
<1>1. IndexInv'
  BY IndexStep DEF AnswerInv
<1>2. /\ log \in Seq(Commits) /\ gen.upto \in 0 .. Len(log) /\ held.upto \in 0 .. Len(log)
  BY DEF AnswerInv, IndexInv, TypeOK, GenerationInv, Generations, Commits
<1>3. ASSUME UNCHANGED log, NEW g, Exact(g) PROVE Exact(g)'
  BY <1>3, SMTT(30) DEF Exact, Documented, Outranks, HeadOf, Writes, Removals
<1>4. ASSUME NEW k \in Keys, NEW op \in {"write", "remove"}, NEW at \in Times, Append1(k, op, at), UNCHANGED <<gen, held>>
      PROVE  Exact(gen)' /\ Exact(held)'
  <2>1. Commit(k, op, at) \in Commits /\ log' = Append(log, Commit(k, op, at))
    BY <1>4 DEF Append1, Commit, Commits
  <2>2. PICK g, h : g = gen /\ h = held
    OBVIOUS
  <2>3. Exact(g)' /\ Exact(h)'
    BY <1>2, <2>1, <2>2, ExactKept DEF AnswerInv
  <2> QED BY <1>4, <2>2, <2>3
<1>5. ASSUME UNCHANGED log, gen' \in {gen, NoGeneration}, held' \in {held, gen, NoGeneration}
      PROVE  Exact(gen)' /\ Exact(held)'
  <2>1. PICK g, h : g = gen' /\ h = held'
    OBVIOUS
  <2>2. Exact(g) /\ Exact(h)
    BY <1>5, <2>1, ExactFromNothing DEF AnswerInv
  <2>3. Exact(g)' /\ Exact(h)'
    BY <1>3, <1>5, <2>2
  <2> QED BY <2>1, <2>3
<1>6. CASE Write
  <2>1. ASSUME NEW k \in Keys, NEW at \in Times, BeginUpsert(k, at) \/ BeginRetract(k, at) \/ Archive(k, at)
        PROVE  Exact(gen)' /\ Exact(held)'
    BY <1>4, <2>1 DEF BeginUpsert, BeginRetract, Archive
  <2>2. ASSUME UpsertHead \/ Retract PROVE Exact(gen)' /\ Exact(held)'
    BY <1>5, <2>2 DEF UpsertHead, Retract
  <2> QED BY <1>1, <1>6, <2>1, <2>2 DEF Write, AnswerInv
<1>7. CASE CommitDocs \/ PublishFails \/ Reindex \/ Crash \/ BeginSearch \/ UNCHANGED vars
  <2>1. UNCHANGED log /\ gen' \in {gen, NoGeneration} /\ held' \in {held, gen, NoGeneration}
    BY <1>7 DEF CommitDocs, PublishFails, Abandoned, Reindex, ClearDocs, WalkHistory, ListHead, ReadFails, Crash, BeginSearch, vars
  <2> QED BY <1>1, <1>5, <2>1 DEF AnswerInv
<1>8. CASE Publish
  <2>1. UNCHANGED <<log, held>>
    BY <1>8 DEF Publish
  <2>2. PICK h : h = held
    OBVIOUS
  <2>3. Exact(h)'
    BY <1>3, <2>1, <2>2 DEF AnswerInv
  <2> QED BY <1>1, <1>8, <2>1, <2>2, <2>3, ExactPublished DEF AnswerInv
<1> QED BY <1>6, <1>7, <1>8 DEF Next
-----------------------------------------------------------------------------
(* Answers *)

\* A generation that is the history, and what its documents say.
Faithful(g) ==
    /\ log \in Seq(Commits) /\ g.upto \in 0 .. Len(log) /\ g.docs.hist \in SUBSET Documents /\ g.tombs \in SUBSET Stones
    /\ Documented(g.docs.hist, g.tombs, g.upto) /\ \A k \in Keys : g.docs.heads[k] = HeadOf(g.upto, k)

Versions(n) == {i \in 1 .. n : log[i].op = "write"}

LEMMA DocLemma ==
    ASSUME NEW g, Faithful(g)
    PROVE  /\ {d.n : d \in g.docs.hist} = Versions(g.upto) /\ IsFiniteSet(Versions(g.upto))
           /\ Versions(g.upto) \in SUBSET (Nat \ {0})
           /\ \A i \in Versions(g.upto) : /\ log[i].key \in Keys /\ log[i].at \in Times
                                          /\ Doc(g, i).key = log[i].key /\ Doc(g, i).at = log[i].at
           /\ \A i, j \in Versions(g.upto) : /\ Doc(g, i).seq > Doc(g, j).seq <=> i > j
                                             /\ Doc(g, i).seq <= Doc(g, j).seq <=> i <= j
<1> DEFINE h == g.docs.hist
           W == Versions(g.upto)
<1>1. /\ \A d \in h : d \in Documents /\ d.n \in 1 .. g.upto /\ log[d.n].op = "write"
                      /\ d.key = log[d.n].key /\ d.at = log[d.n].at
      /\ \A i \in 1 .. g.upto : log[i].op = "write" => \E d \in h : d.n = i
  BY DEF Faithful, Documented
<1>2. \A d, e \in h : (d.n < e.n => d.seq < e.seq) /\ (d.n = e.n => d.seq = e.seq)
  BY DEF Faithful, Documented
<1>3. g.upto \in Nat /\ \A i \in 1 .. g.upto : log[i] \in Commits
  BY DEF Faithful
<1>4. {d.n : d \in h} = W
  BY <1>1 DEF Versions
<1>5. IsFiniteSet(W) /\ W \in SUBSET (Nat \ {0})
  <2>1. IsFiniteSet(1 .. g.upto)
    BY <1>3, FS_Interval
  <2>2. W \in SUBSET (1 .. g.upto)
    BY DEF Versions
  <2> QED BY <1>3, <2>1, <2>2, FS_Subset
<1>6. \A i \in W : Doc(g, i) \in h /\ Doc(g, i).n = i
  BY <1>1 DEF Versions, Doc
<1>7. ASSUME NEW i \in W
      PROVE  /\ log[i].key \in Keys /\ log[i].at \in Times
             /\ Doc(g, i).key = log[i].key /\ Doc(g, i).at = log[i].at
  BY <1>1, <1>3, <1>6 DEF Versions, Commits
<1>8. ASSUME NEW i \in W, NEW j \in W
      PROVE  /\ Doc(g, i).seq > Doc(g, j).seq <=> i > j
             /\ Doc(g, i).seq <= Doc(g, j).seq <=> i <= j
  <2>1. PICK d \in h, e \in h : d = Doc(g, i) /\ e = Doc(g, j)
    BY <1>6
  <2>2. d.n = i /\ e.n = j /\ i \in Nat /\ j \in Nat
    BY <1>5, <1>6, <2>1
  <2>3. d.seq \in Nat /\ e.seq \in Nat
    BY <1>1 DEF Documents
  <2>4. /\ i < j => d.seq < e.seq
        /\ j < i => e.seq < d.seq
        /\ i = j => d.seq = e.seq
    BY <1>2, <2>2
  <2>5. d.seq > e.seq <=> i > j
    BY <2>2, <2>3, <2>4
  <2>6. d.seq <= e.seq <=> i <= j
    BY <2>2, <2>3, <2>4
  <2> QED BY <2>1, <2>5, <2>6
<1> QED BY <1>4, <1>5, <1>7, <1>8

\* Before in a ranking: the oldest first, or the newest.
Earlier(S, order) == {p \in S \X S : IF order = "first" THEN p[1] < p[2] ELSE p[1] > p[2]}

LEMMA EarlierLemma ==
    ASSUME NEW S \in SUBSET Nat, NEW order
    PROVE  /\ Orders(Earlier(S, order), S)
           /\ \A x, y \in S : <<x, y>> \in Earlier(S, order) <=> (IF order = "first" THEN x < y ELSE x > y)
<1>1. \A x, y \in S : <<x, y>> \in Earlier(S, order) <=> (IF order = "first" THEN x < y ELSE x > y)
  BY DEF Earlier
<1>2. \A x \in S : x \in Nat
  OBVIOUS
<1>3. /\ \A x \in S : <<x, x>> \notin Earlier(S, order)
      /\ \A x, y \in S : x # y => <<x, y>> \in Earlier(S, order) \/ <<y, x>> \in Earlier(S, order)
  BY <1>1, <1>2
<1>4. \A x, y, z \in S : <<x, y>> \in Earlier(S, order) /\ <<y, z>> \in Earlier(S, order) => <<x, z>> \in Earlier(S, order)
  BY <1>1, <1>2
<1> QED BY <1>1, <1>3, <1>4 DEF Orders

\* What a question of search_in may be.
Searchable(q) ==
    /\ q.kind \in {"now", "history", "as_of", "window"} /\ q.order \in {"recent", "first", "last"}
    /\ q.within \in SUBSET Times /\ (q.kind \in {"now", "history"} => q.within = Times)
    /\ q.kind = "as_of" => q.at \in Times /\ q.within = {u \in Times : u <= q.at}
    /\ 0 \notin q.found /\ q.limit \in Nat

\* The matches, as the history has them, and their ranking.
LEMMA MatchLemma ==
    ASSUME NEW g, Faithful(g), NEW q, Searchable(q)
    PROVE  /\ Matching(g, q) = {i \in Versions(g.upto) :
                                  /\ i \in q.found /\ log[i].at \in q.within
                                  /\ q.kind = "now" => \E k \in Keys : i = HeadOf(g.upto, k)}
           /\ Ranked(g, Matching(g, q), q.order) = Placed(Matching(g, q), Earlier(Matching(g, q), q.order))
           /\ Dense(Ranked(g, Matching(g, q), q.order), Matching(g, q))
           /\ \A x, y \in Matching(g, q) :
                Ranked(g, Matching(g, q), q.order)[x] < Ranked(g, Matching(g, q), q.order)[y]
                  <=> (IF q.order = "first" THEN x < y ELSE x > y)
<1> DEFINE W == Versions(g.upto)
           M == Matching(g, q)
           R == Ranked(g, M, q.order)
<1>1. /\ {d.n : d \in g.docs.hist} = W /\ IsFiniteSet(W) /\ W \in SUBSET (Nat \ {0})
      /\ \A i \in W : Doc(g, i).key = log[i].key /\ Doc(g, i).at = log[i].at
      /\ \A i, j \in W : Doc(g, i).seq > Doc(g, j).seq <=> i > j
  BY DocLemma
<1>2. Heads(g) = {HeadOf(g.upto, k) : k \in Keys} \ {0}
  BY DEF Faithful, Heads
<1>3. \A k \in Keys : HeadOf(g.upto, k) # 0 => HeadOf(g.upto, k) \in W
  <2> SUFFICES ASSUME NEW k \in Keys, HeadOf(g.upto, k) # 0 PROVE HeadOf(g.upto, k) \in W
    OBVIOUS
  <2>1. g.upto \in Nat
    BY DEF Faithful
  <2>2. Writes(g.upto, k) \in SUBSET (1 .. g.upto)
    BY <2>1, HistoryTypes
  <2>3. HeadOf(g.upto, k) \in Writes(g.upto, k)
    BY <2>1, <2>2, NewestLemma DEF HeadOf
  <2> QED BY <2>3 DEF Writes, Versions
<1>4. World(g, q) = {i \in W : q.kind = "now" => \E k \in Keys : i = HeadOf(g.upto, k)}
  <2>1. CASE q.kind = "now"
    <3>1. World(g, q) = Heads(g)
      BY <2>1 DEF World
    <3>2. 0 \notin W
      BY <1>1
    <3> QED BY <1>2, <1>3, <2>1, <3>1, <3>2
  <2>2. CASE q.kind # "now"
    BY <1>1, <2>2 DEF World
  <2> QED BY <2>1, <2>2
<1>5. M = {i \in W : /\ i \in q.found /\ log[i].at \in q.within
                     /\ q.kind = "now" => \E k \in Keys : i = HeadOf(g.upto, k)}
  BY <1>1, <1>4 DEF Matching
<1> HIDE DEF M
<1>6. M \in SUBSET W /\ IsFiniteSet(M) /\ M \in SUBSET Nat
  <2>1. M \in SUBSET W
    BY <1>5
  <2> QED BY <1>1, <2>1, FS_Subset
<1>7. \A a, b \in M : Ahead(g, q.order, a, b) <=> (IF q.order = "first" THEN a < b ELSE a > b)
  <2> SUFFICES ASSUME NEW a \in M, NEW b \in M
               PROVE  Ahead(g, q.order, a, b) <=> (IF q.order = "first" THEN a < b ELSE a > b)
    OBVIOUS
  <2>1. Doc(g, a).seq > Doc(g, b).seq <=> a > b
    BY <1>1, <1>6
  <2> QED BY <2>1 DEF Ahead, Searchable
<1>8. {p \in M \X M : Ahead(g, q.order, p[1], p[2])} = Earlier(M, q.order)
  BY <1>7 DEF Earlier
<1>9. R = Placed(M, Earlier(M, q.order))
  BY <1>8 DEF Ranked
<1> HIDE DEF R
<1>10. /\ Orders(Earlier(M, q.order), M)
       /\ \A x, y \in M : <<x, y>> \in Earlier(M, q.order) <=> (IF q.order = "first" THEN x < y ELSE x > y)
  BY <1>6, EarlierLemma
<1>11. Dense(R, M) /\ \A x, y \in M : <<x, y>> \in Earlier(M, q.order) <=> R[x] < R[y]
  BY <1>6, <1>9, <1>10, PlacedLemma
<1>12. \A x, y \in M : R[x] < R[y] <=> (IF q.order = "first" THEN x < y ELSE x > y)
  BY <1>10, <1>11
<1>13. Dense(R, M)
  BY <1>11
<1> QED BY <1>5, <1>9, <1>12, <1>13 DEF M, R, W

\* Of the versions matching in a window the newest of each key: the newest of
\* those that match (index.rs collapse_to_latest_per_key).
LEMMA NewestStays ==
    ASSUME NEW n \in Nat, \A i \in Versions(n) : log[i].key \in Keys, NEW M \in SUBSET Versions(n)
    PROVE  {i \in M : \A j \in M : log[j].key = log[i].key => j <= i}
             = M \intersect {Newest({i \in M : log[i].key = k}) : k \in Keys}
<1> DEFINE S(k) == {i \in M : log[i].key = k}
           L == {i \in M : \A j \in M : log[j].key = log[i].key => j <= i}
           N == {Newest(S(k)) : k \in Keys}
<1>1. \A k : S(k) \in SUBSET (1 .. n)
  BY DEF Versions
<1>2. \A k : /\ S(k) # {} => Newest(S(k)) \in S(k)
             /\ \A i \in S(k) : i <= Newest(S(k))
             /\ \A m \in S(k) : (\A i \in S(k) : i <= m) => Newest(S(k)) = m
             /\ S(k) = {} => Newest(S(k)) = 0
  BY <1>1, NewestLemma
<1>3. ASSUME NEW i \in L PROVE i \in M \intersect N
  <2>1. i \in M /\ log[i].key \in Keys /\ i \in S(log[i].key)
    BY <1>3
  <2>2. \A j \in S(log[i].key) : j <= i
    BY <1>3
  <2>3. Newest(S(log[i].key)) = i
    BY <1>2, <2>1, <2>2
  <2> QED BY <2>1, <2>3
<1>4. ASSUME NEW i \in M \intersect N PROVE i \in L
  <2>1. PICK k \in Keys : i = Newest(S(k))
    BY <1>4
  <2>2. i \in M /\ i # 0
    BY <1>4 DEF Versions
  <2>3. i \in S(k) /\ \A j \in S(k) : j <= i
    BY <1>2, <2>1, <2>2
  <2> QED BY <2>3
<1> QED BY <1>3, <1>4

\* What stays is what is asked for.
LEMMA StayingLemma ==
    ASSUME NEW g, Faithful(g), NEW q, Searchable(q)
    PROVE  Staying(g, q, Matching(g, q)) = Asked(g.upto, q)
<1> DEFINE n == g.upto
           W == Versions(n)
           M == Matching(g, q)
<1>1. /\ W \in SUBSET (Nat \ {0})
      /\ \A i \in W : /\ log[i].key \in Keys /\ log[i].at \in Times
                      /\ Doc(g, i).key = log[i].key /\ Doc(g, i).at = log[i].at
      /\ \A i, j \in W : Doc(g, i).seq <= Doc(g, j).seq <=> i <= j
  BY DocLemma
<1>2. M = {i \in W : /\ i \in q.found /\ log[i].at \in q.within
                     /\ q.kind = "now" => \E k \in Keys : i = HeadOf(n, k)}
  BY MatchLemma
<1>3. n \in Nat /\ \A k : Writes(n, k) \in SUBSET (1 .. n) /\ \A i \in Writes(n, k) : i \in W /\ log[i].key = k
  <2>1. n \in Nat
    BY DEF Faithful
  <2> QED BY <2>1, HistoryTypes DEF Writes, Versions
<1>4. \A i \in W : i \in Writes(n, log[i].key)
  BY DEF Versions, Writes
<1>5. 0 \notin q.found
  BY DEF Searchable
<1> HIDE DEF W, n, M
<1>6. CASE q.kind = "now"
  <2>1. \A k \in Keys : HeadOf(n, k) # 0 => HeadOf(n, k) \in W
    <3> SUFFICES ASSUME NEW k \in Keys, HeadOf(n, k) # 0 PROVE HeadOf(n, k) \in W
      OBVIOUS
    <3>1. HeadOf(n, k) \in Writes(n, k)
      BY <1>3, NewestLemma DEF HeadOf
    <3> QED BY <1>3, <3>1
  <2>2. q.within = Times
    BY <1>6 DEF Searchable
  <2>3. M = q.found \intersect {HeadOf(n, k) : k \in Keys}
    <3>1. ASSUME NEW i \in M PROVE i \in q.found /\ \E k \in Keys : i = HeadOf(n, k)
      BY <1>2, <1>6, <3>1
    <3>2. ASSUME NEW k \in Keys, HeadOf(n, k) \in q.found PROVE HeadOf(n, k) \in M
      <4>1. HeadOf(n, k) \in W
        BY <1>5, <2>1, <3>2
      <4>2. log[HeadOf(n, k)].at \in Times
        BY <1>1, <4>1
      <4> QED BY <1>2, <1>6, <2>2, <3>2, <4>1, <4>2
    <3> QED BY <3>1, <3>2
  <2> QED BY <1>6, <2>3 DEF Staying, Asked, n, M
<1>7. CASE q.kind = "history"
  <2>1. q.within = Times
    BY <1>7 DEF Searchable
  <2>2. UNION {Writes(n, k) : k \in Keys} = W
    <3>1. ASSUME NEW i \in W PROVE i \in UNION {Writes(n, k) : k \in Keys}
      BY <1>1, <1>4
    <3> QED BY <1>3, <3>1
  <2>3. M = q.found \intersect W
    BY <1>1, <1>2, <1>7, <2>1
  <2> QED BY <1>7, <2>2, <2>3 DEF Staying, Asked, n, M
<1>8. CASE q.kind = "as_of"
  <2>1. q.at \in Times /\ q.within = {u \in Times : u <= q.at}
    BY <1>8 DEF Searchable
  <2>2. \A k \in Keys : CurrentVersion(g, q.at, k) = CurrentAt(n, q.at, k)
    BY <2>1, SnapshotLemma DEF Faithful, n
  <2>3. \A k \in Keys : CurrentAt(n, q.at, k) # 0 =>
          CurrentAt(n, q.at, k) \in Writes(n, k) /\ log[CurrentAt(n, q.at, k)].at <= q.at
    <3> SUFFICES ASSUME NEW k \in Keys, CurrentAt(n, q.at, k) # 0
                 PROVE  CurrentAt(n, q.at, k) \in Writes(n, k) /\ log[CurrentAt(n, q.at, k)].at <= q.at
      OBVIOUS
    <3> DEFINE by == {i \in Writes(n, k) : log[i].at <= q.at}
    <3>1. by \in SUBSET (1 .. n)
      BY <1>3
    <3>2. CurrentAt(n, q.at, k) = Newest(by)
      BY DEF CurrentAt
    <3> HIDE DEF by
    <3>3. Newest(by) \in by
      BY <1>3, <3>1, <3>2, NewestLemma
    <3> QED BY <3>2, <3>3 DEF by
  <2>4. Staying(g, q, M) = {i \in M : i = CurrentAt(n, q.at, log[i].key)}
    BY <1>1, <1>2, <1>8, <2>2 DEF Staying
  <2>5. ASSUME NEW i \in M, i = CurrentAt(n, q.at, log[i].key)
        PROVE  i \in q.found \intersect {CurrentAt(n, q.at, k) : k \in Keys}
    BY <1>1, <1>2, <2>5
  <2>6. ASSUME NEW k \in Keys, CurrentAt(n, q.at, k) \in q.found
        PROVE  CurrentAt(n, q.at, k) \in M /\ log[CurrentAt(n, q.at, k)].key = k
    <3> DEFINE c == CurrentAt(n, q.at, k)
    <3>1. c \in Writes(n, k) /\ log[c].at <= q.at
      BY <1>5, <2>3, <2>6
    <3>2. c \in W /\ log[c].key = k
      BY <1>3, <3>1
    <3> QED BY <1>1, <1>2, <1>8, <2>1, <2>6, <3>1, <3>2
  <2>7. {i \in M : i = CurrentAt(n, q.at, log[i].key)} = q.found \intersect {CurrentAt(n, q.at, k) : k \in Keys}
    BY <2>5, <2>6
  <2> QED BY <1>8, <2>4, <2>7 DEF Asked, n, M
<1>9. CASE q.kind = "window"
  <2>1. Staying(g, q, M) = {i \in M : \A j \in M : log[j].key = log[i].key => j <= i}
    BY <1>1, <1>2, <1>9 DEF Staying
  <2>2. \A k \in Keys : {i \in Writes(n, k) \intersect q.found : log[i].at \in q.within} = {i \in M : log[i].key = k}
    BY <1>2, <1>3, <1>4, <1>9
  <2>3. M \in SUBSET W /\ M \in SUBSET q.found
    BY <1>2
  <2>4. \A i \in Versions(n) : log[i].key \in Keys
    BY <1>1 DEF W
  <2>5. {i \in M : \A j \in M : log[j].key = log[i].key => j <= i}
          = M \intersect {Newest({i \in M : log[i].key = k}) : k \in Keys}
    BY <1>3, <2>3, <2>4, NewestStays DEF W
  <2>6. ASSUME NEW k \in Keys, Newest({i \in M : log[i].key = k}) \in q.found
        PROVE  Newest({i \in M : log[i].key = k}) \in M
    <3>1. {i \in M : log[i].key = k} \in SUBSET (1 .. n)
      BY <2>3 DEF W, Versions
    <3> QED BY <1>3, <1>5, <2>6, <3>1, NewestLemma
  <2>7. M \intersect {Newest({i \in M : log[i].key = k}) : k \in Keys}
          = q.found \intersect {Newest({i \in M : log[i].key = k}) : k \in Keys}
    BY <2>3, <2>6
  <2>8. {Newest({i \in Writes(n, k) \intersect q.found : log[i].at \in q.within}) : k \in Keys}
          = {Newest({i \in M : log[i].key = k}) : k \in Keys}
    BY <2>2
  <2> QED BY <1>9, <2>1, <2>5, <2>7, <2>8 DEF Asked, n, M
<1> QED BY <1>6, <1>7, <1>8, <1>9 DEF Searchable, n, M

\* A search of a faithful generation finds the best of what it is asked for.
LEMMA SearchLemma ==
    ASSUME NEW g, Faithful(g), NEW q, Searchable(q)
    PROVE  SearchIn(g, q) = Best(Asked(g.upto, q), q)
<1> DEFINE M == Matching(g, q)
           R == Ranked(g, M, q.order)
           A == Asked(g.upto, q)
           E(S) == {p \in S \X S : IF q.order = "first" THEN p[1] < p[2] ELSE p[1] > p[2]}
<1>1. /\ R = Placed(M, Earlier(M, q.order)) /\ Dense(R, M)
      /\ \A x, y \in M : R[x] < R[y] <=> (IF q.order = "first" THEN x < y ELSE x > y)
  BY MatchLemma
<1>2. Staying(g, q, M) = A
  BY StayingLemma
<1>3. Best(A, q) = Cut(Placed(A, E(A)), q.limit)
  BY DEF Best
<1>4. Earlier(M, q.order) = E(M)
  BY DEF Earlier
<1>5. q.limit \in Nat
  BY DEF Searchable
<1>6. CASE q.kind \in {"now", "history"}
  <2>1. Fetched(g, q) = Cut(R, q.limit)
    BY <1>6 DEF Fetched
  <2> DEFINE F == Cut(R, q.limit)
  <2>2. Staying(g, q, DOMAIN F) = DOMAIN F /\ Staying(g, q, M) = M
    BY <1>6 DEF Staying
  <2>3. SearchIn(g, q) = Cut(Among(F, DOMAIN F), q.limit)
    BY <2>1, <2>2 DEF SearchIn
  <2> HIDE DEF M, R
  <2>4. Among(F, DOMAIN F) = F /\ Cut(F, q.limit) = Cut(R, q.limit)
    BY <1>1, <1>5, CutAmong
  <2>5. A = M
    BY <1>2, <2>2
  <2> HIDE DEF A, E, F
  <2>6. R = Placed(A, E(A))
    BY <1>1, <1>4, <2>5
  <2> QED BY <1>3, <2>3, <2>4, <2>6 DEF A
<1>7. CASE q.kind \in {"as_of", "window"}
  <2>1. Fetched(g, q) = R
    BY <1>7 DEF Fetched
  <2> HIDE DEF M, R
  <2>2. DOMAIN R = M
    BY <1>1 DEF Dense, IsList
  <2>3. SearchIn(g, q) = Cut(Among(R, A), q.limit)
    BY <1>2, <2>1, <2>2 DEF SearchIn
  <2>4. A \in SUBSET M
    BY <1>2 DEF Staying
  <2> HIDE DEF A
  <2>5. \A x, y \in A : <<x, y>> \in E(A) <=> R[x] < R[y]
    BY <1>1, <2>4
  <2>6. IsList(R, M)
    BY <1>1 DEF Dense
  <2> HIDE DEF E
  <2>7. \A before : (\A x, y \in A : <<x, y>> \in before <=> R[x] < R[y]) => Among(R, A) = Placed(A, before)
    BY <2>4, <2>6, AmongLemma
  <2>8. Among(R, A) = Placed(A, E(A))
    BY <2>5, <2>7
  <2> QED BY <1>3, <2>3, <2>8 DEF A
<1> QED BY <1>6, <1>7 DEF Searchable

\* The questions that are asked can be.
LEMMA QuestionLemma ==
    ASSUME NEW n \in Nat, NEW q \in Questions(1 .. n)
    PROVE  Searchable(q)
<1>1. PICK s \in Spans, found \in SUBSET (1 .. n), order \in {"recent", "first", "last"}, limit \in Limits :
             q = Question(s.kind, s.at, s.within, order, 1 .. n, found, limit)
  <2>1. PICK s \in Spans, found \in SUBSET (1 .. n) :
               q \in {Question(s.kind, s.at, s.within, order, 1 .. n, found, limit) :
                        order \in {"recent", "first", "last"}, limit \in Limits}
    BY SMTT(60) DEF Questions
  <2> QED BY <2>1
<1>2. /\ q.kind = s.kind /\ q.at = s.at /\ q.within = s.within
      /\ q.order = order /\ q.found = found /\ q.limit = limit
  BY <1>1 DEF Question
<1>3. limit \in Nat
  BY QueryAssumption
<1>4. 0 \notin found
  OBVIOUS
<1>5. /\ s.kind \in {"now", "history", "as_of", "window"} /\ s.within \in SUBSET Times
      /\ s.kind \in {"now", "history"} => s.within = Times
      /\ s.kind = "as_of" => s.at \in Times /\ s.within = {u \in Times : u <= s.at}
  <2>1. CASE s \in {[kind |-> kind, at |-> 0, within |-> Times] : kind \in {"now", "history"}}
    BY <2>1
  <2>2. CASE s \in {[kind |-> "as_of", at |-> t, within |-> {u \in Times : u <= t}] : t \in Times}
    <3>1. PICK t \in Times : s = [kind |-> "as_of", at |-> t, within |-> {u \in Times : u <= t}]
      BY <2>2
    <3>2. s.kind = "as_of" /\ s.at = t /\ s.within = {u \in Times : u <= t}
      BY <3>1
    <3> QED BY <3>2
  <2>3. CASE s \in {[kind |-> "window", at |-> 0, within |-> {u \in Times : lo <= u /\ u <= hi}] : lo, hi \in Times}
    <3>1. PICK lo \in Times, hi \in Times : s = [kind |-> "window", at |-> 0, within |-> {u \in Times : lo <= u /\ u <= hi}]
      BY <2>3
    <3>2. s.kind = "window" /\ s.within = {u \in Times : lo <= u /\ u <= hi}
      BY <3>1
    <3> QED BY <3>2
  <2> QED BY <2>1, <2>2, <2>3 DEF Spans
<1> QED BY <1>1, <1>2, <1>3, <1>4, <1>5 DEF Searchable

\* A sound generation is faithful.
LEMMA SoundFaithful ==
    ASSUME AnswerInv, NEW g \in {gen, held}, g.sound
    PROVE  Faithful(g)
<1>1. /\ log \in Seq(Commits) /\ gen \in Generations /\ held \in Generations
      /\ gen.upto <= Len(log) /\ held.upto <= Len(log)
  BY DEF AnswerInv, IndexInv, TypeOK, GenerationInv, Commits
<1>2. /\ g.docs.hist \in SUBSET Documents /\ g.tombs \in SUBSET Stones /\ g.upto \in Nat
  BY <1>1 DEF Generations, Docs, Tombstones, Documents, Stones
<1>3. g.upto \in 0 .. Len(log)
  BY <1>1, <1>2
<1> QED BY <1>1, <1>2, <1>3 DEF AnswerInv, Exact, Faithful

LEMMA FoundRightLemma == AnswerInv => FoundRight
<1> SUFFICES ASSUME AnswerInv, gen.sound, NEW q \in Questions(1 .. gen.upto)
             PROVE  SearchIn(gen, q) = Best(Asked(gen.upto, q), q)
  BY DEF FoundRight
<1>1. Faithful(gen)
  BY SoundFaithful
<1>2. Searchable(q)
  BY <1>1, QuestionLemma DEF Faithful
<1> QED BY <1>1, <1>2, SearchLemma

-----------------------------------------------------------------------------
(* Scores *)

\* A score is a fraction.
Fraction(s) == s.num \in Nat /\ s.den \in Nat \ {0}

LEMMA MulCancel ==
    ASSUME NEW a \in Nat, NEW b \in Nat, NEW c \in Nat \ {0}
    PROVE  (a * c <= b * c) <=> (a <= b)
<1>1. CASE a <= b
  <2>1. PICK d \in Nat : b = a + d
    <3>1. b - a \in Nat /\ b = a + (b - a)
      BY <1>1
    <3> QED BY <3>1
  <2>2. b * c = a * c + d * c
    BY <2>1, SMTT(30)
  <2>3. d * c \in Nat /\ a * c \in Nat
    BY SMTT(30)
  <2> QED BY <1>1, <2>2, <2>3
<1>2. CASE b < a
  <2>1. PICK d \in Nat : a = b + d + 1
    <3>1. a - b - 1 \in Nat /\ a = b + (a - b - 1) + 1
      BY <1>2
    <3> QED BY <3>1
  <2>2. a * c = b * c + d * c + c
    BY <2>1, SMTT(30)
  <2>3. d * c \in Nat /\ b * c \in Nat
    BY SMTT(30)
  <2> QED BY <1>2, <2>2, <2>3
<1> QED BY <1>1, <1>2

LEMMA Products ==
    ASSUME NEW a \in Nat, NEW b \in Nat, NEW c \in Nat
    PROVE  a * b \in Nat /\ a * b = b * a /\ (a * b) * c = (a * c) * b
<1>1. a * b \in Nat /\ a * b = b * a
  BY SMTT(30)
<1>2. (a * b) * c = (a * c) * b
  BY SMTT(30)
<1> QED BY <1>1, <1>2

\* To outscore is an order, and equals are equal to the same.
LEMMA OutscoresLemma ==
    ASSUME NEW s, NEW t, NEW u, Fraction(s), Fraction(t), Fraction(u)
    PROVE  /\ ~Outscores(s, s)
           /\ Outscores(s, t) => ~Outscores(t, s)
           /\ ~Outscores(s, t) /\ ~Outscores(t, u) => ~Outscores(s, u)
<1> DEFINE sn == s.num
           sd == s.den
           tn == t.num
           td == t.den
           un == u.num
           ud == u.den
<1>1. /\ sn \in Nat /\ tn \in Nat /\ un \in Nat
      /\ sd \in Nat \ {0} /\ td \in Nat \ {0} /\ ud \in Nat \ {0}
  BY DEF Fraction
<1>2. /\ Outscores(s, s) <=> sn * sd > sn * sd
      /\ Outscores(s, t) <=> sn * td > tn * sd
      /\ Outscores(t, s) <=> tn * sd > sn * td
      /\ Outscores(t, u) <=> tn * ud > un * td
      /\ Outscores(s, u) <=> sn * ud > un * sd
  BY DEF Outscores
<1> HIDE DEF sn, sd, tn, td, un, ud
<1>3. /\ sn * sd \in Nat /\ sn * td \in Nat /\ tn * sd \in Nat
      /\ tn * ud \in Nat /\ un * td \in Nat /\ sn * ud \in Nat /\ un * sd \in Nat
  BY <1>1, Products
<1>4. ASSUME sn * td <= tn * sd, tn * ud <= un * td PROVE sn * ud <= un * sd
  <2>1. (sn * td) * ud <= (tn * sd) * ud
    BY <1>1, <1>3, <1>4, MulCancel
  <2>2. (tn * ud) * sd <= (un * td) * sd
    BY <1>1, <1>3, <1>4, MulCancel
  <2>3. (sn * td) * ud = (sn * ud) * td
    BY <1>1, Products
  <2>4. (tn * sd) * ud = (tn * ud) * sd
    BY <1>1, Products
  <2>5. (un * td) * sd = (un * sd) * td
    BY <1>1, Products
  <2>6. (sn * ud) * td \in Nat /\ (tn * ud) * sd \in Nat /\ (un * sd) * td \in Nat
    BY <1>1, <1>3, Products
  <2> DEFINE a == (sn * ud) * td
             b == (tn * ud) * sd
             c == (un * sd) * td
  <2>7. a \in Nat /\ b \in Nat /\ c \in Nat /\ a <= b /\ b <= c
    BY <2>1, <2>2, <2>3, <2>4, <2>5, <2>6
  <2>8. a <= c
    <3> HIDE DEF a, b, c
    <3> QED BY <2>7
  <2> QED BY <1>1, <1>3, <2>8, MulCancel
<1> DEFINE p == sn * td
           q == tn * sd
           r == tn * ud
           x == un * td
           y == sn * ud
           z == un * sd
           o == sn * sd
<1>5. p \in Nat /\ q \in Nat /\ r \in Nat /\ x \in Nat /\ y \in Nat /\ z \in Nat /\ o \in Nat
  BY <1>3
<1>6. p <= q /\ r <= x => y <= z
  BY <1>4
<1>7. /\ Outscores(s, s) <=> o > o
      /\ Outscores(s, t) <=> p > q
      /\ Outscores(t, s) <=> q > p
      /\ Outscores(t, u) <=> r > x
      /\ Outscores(s, u) <=> y > z
  BY <1>2
<1> HIDE DEF p, q, r, x, y, z, o
<1> QED BY <1>5, <1>6, <1>7

\* What outscores in both parts outscores in their sum.
LEMMA SumOutscores ==
    ASSUME NEW p, NEW r, NEW p1, NEW r1, Fraction(p), Fraction(r), Fraction(p1), Fraction(r1),
           Outscores(p, p1), Outscores(r, r1)
    PROVE  Outscores([num |-> p.num * r.den + r.num * p.den, den |-> p.den * r.den],
                     [num |-> p1.num * r1.den + r1.num * p1.den, den |-> p1.den * r1.den])
<1> DEFINE a == p.num
           b == p.den
           c == r.num
           d == r.den
           a1 == p1.num
           b1 == p1.den
           c1 == r1.num
           d1 == r1.den
<1>1. /\ a \in Nat /\ c \in Nat /\ a1 \in Nat /\ c1 \in Nat
      /\ b \in Nat \ {0} /\ d \in Nat \ {0} /\ b1 \in Nat \ {0} /\ d1 \in Nat \ {0}
  BY DEF Fraction
<1>2. a * b1 > a1 * b /\ c * d1 > c1 * d
  BY DEF Outscores
<1> SUFFICES (a * d + c * b) * (b1 * d1) > (a1 * d1 + c1 * b1) * (b * d)
  BY DEF Outscores
<1> HIDE DEF a, b, c, d, a1, b1, c1, d1
<1>3. (a * d + c * b) * (b1 * d1) = (a * b1) * (d * d1) + (c * d1) * (b * b1)
  BY <1>1, SMTT(30)
<1>4. (a1 * d1 + c1 * b1) * (b * d) = (a1 * b) * (d * d1) + (c1 * d) * (b * b1)
  BY <1>1, SMTT(30)
<1> DEFINE A == a * b1
           A1 == a1 * b
           C == c * d1
           C1 == c1 * d
           D == d * d1
           B == b * b1
<1>5. /\ A \in Nat /\ A1 \in Nat /\ C \in Nat /\ C1 \in Nat /\ D \in Nat /\ B \in Nat
      /\ A1 < A /\ C1 < C
  BY <1>1, <1>2, Products
<1>6. D # 0 /\ B # 0
  BY <1>1, SMTT(30)
<1>9. /\ (a * d + c * b) * (b1 * d1) = A * D + C * B
      /\ (a1 * d1 + c1 * b1) * (b * d) = A1 * D + C1 * B
  BY <1>3, <1>4
<1> HIDE DEF A, A1, C, C1, D, B
<1>7. ~(A * D <= A1 * D) /\ ~(C * B <= C1 * B)
  BY <1>5, <1>6, MulCancel
<1>8. A * D \in Nat /\ A1 * D \in Nat /\ C * B \in Nat /\ C1 * B \in Nat
  BY <1>5, Products
<1> DEFINE w == A * D
           x == A1 * D
           y == C * B
           z == C1 * B
<1>10. w \in Nat /\ x \in Nat /\ y \in Nat /\ z \in Nat /\ ~(w <= x) /\ ~(y <= z)
  BY <1>7, <1>8
<1>11. w + y > x + z
  <2> HIDE DEF w, x, y, z
  <2> QED BY <1>10
<1> QED BY <1>9, <1>11

\* b comes before a in a list, or a is not in it.
Behind(list, a, b) == b \in DOMAIN list /\ (a \in DOMAIN list => list[b] < list[a])

\* A place is worth more than those behind it.
LEMMA PartLemma ==
    ASSUME NEW list, IsList(list, DOMAIN list), NEW w \in Nat \ {0}, NEW a, NEW b
    PROVE  /\ Fraction(Part(w, list, a))
           /\ Behind(list, a, b) => Outscores(Part(w, list, b), Part(w, list, a))
<1>1. \A x \in DOMAIN list : list[x] \in Nat \ {0}
  BY DEF IsList
<1>2. /\ a \in DOMAIN list => Part(w, list, a).num = w /\ Part(w, list, a).den = 60 + list[a]
      /\ a \notin DOMAIN list => Part(w, list, a).num = 0 /\ Part(w, list, a).den = 1
      /\ b \in DOMAIN list => Part(w, list, b).num = w /\ Part(w, list, b).den = 60 + list[b]
  BY DEF Part
<1>3. Fraction(Part(w, list, a))
  BY <1>1, <1>2 DEF Fraction
<1>4. ASSUME b \in DOMAIN list, a \notin DOMAIN list
      PROVE  Outscores(Part(w, list, b), Part(w, list, a))
  <2>1. w * 1 > 0 * (60 + list[b])
    BY <1>1, <1>4
  <2> QED BY <1>2, <1>4, <2>1 DEF Outscores
<1>5. ASSUME b \in DOMAIN list, a \in DOMAIN list, list[b] < list[a]
      PROVE  Outscores(Part(w, list, b), Part(w, list, a))
  <2> DEFINE x == 60 + list[a]
             y == 60 + list[b]
  <2>1. x \in Nat /\ y \in Nat /\ ~(x <= y)
    BY <1>1, <1>5
  <2>2. /\ Part(w, list, b).num = w /\ Part(w, list, b).den = y
        /\ Part(w, list, a).num = w /\ Part(w, list, a).den = x
    BY <1>2, <1>5
  <2> HIDE DEF x, y
  <2>3. ~(x * w <= y * w)
    BY <2>1, MulCancel
  <2>4. w * x = x * w /\ w * y = y * w /\ x * w \in Nat /\ y * w \in Nat
    BY <2>1, Products
  <2>5. w * x > w * y
    <3> DEFINE p == x * w
               q == y * w
    <3>1. p \in Nat /\ q \in Nat /\ ~(p <= q) /\ w * x = p /\ w * y = q
      BY <2>3, <2>4
    <3>2. p > q
      <4> HIDE DEF p, q
      <4> QED BY <3>1
    <3> QED BY <3>1, <3>2
  <2> QED BY <2>2, <2>5 DEF Outscores
<1> QED BY <1>3, <1>4, <1>5 DEF Behind

\* The sum is a score, and better if both parts are.
LEMMA ScoreLemma ==
    ASSUME NEW lex, IsList(lex, DOMAIN lex), NEW sem, IsList(sem, DOMAIN sem), NEW a, NEW b
    PROVE  /\ Fraction(Score(lex, sem, a))
           /\ Behind(lex, a, b) /\ Behind(sem, a, b) => Outscores(Score(lex, sem, b), Score(lex, sem, a))
<1> DEFINE p == Part(4, lex, a)
           r == Part(6, sem, a)
           p1 == Part(4, lex, b)
           r1 == Part(6, sem, b)
<1>1. /\ Score(lex, sem, a) = [num |-> p.num * r.den + r.num * p.den, den |-> p.den * r.den]
      /\ Score(lex, sem, b) = [num |-> p1.num * r1.den + r1.num * p1.den, den |-> p1.den * r1.den]
  BY DEF Score
<1>2. 4 \in Nat \ {0} /\ 6 \in Nat \ {0}
  OBVIOUS
<1>3. Fraction(p) /\ Fraction(p1)
  BY <1>2, PartLemma
<1>4. Fraction(r) /\ Fraction(r1)
  BY <1>2, PartLemma
<1>5. Behind(lex, a, b) => Outscores(p1, p)
  BY <1>2, PartLemma
<1>6. Behind(sem, a, b) => Outscores(r1, r)
  BY <1>2, PartLemma
<1> HIDE DEF p, r, p1, r1
<1>7. Fraction(Score(lex, sem, a))
  <2>1. p.num \in Nat /\ r.num \in Nat /\ p.den \in Nat \ {0} /\ r.den \in Nat \ {0}
    BY <1>3, <1>4 DEF Fraction
  <2>2. p.num * r.den \in Nat /\ r.num * p.den \in Nat /\ p.den * r.den \in Nat
    BY <2>1, Products
  <2>3. p.den * r.den # 0
    BY <2>1, SMTT(30)
  <2>4. p.num * r.den + r.num * p.den \in Nat
    BY <2>2
  <2> QED BY <1>1, <2>2, <2>3, <2>4 DEF Fraction
<1>8. ASSUME Behind(lex, a, b), Behind(sem, a, b) PROVE Outscores(Score(lex, sem, b), Score(lex, sem, a))
  BY <1>1, <1>3, <1>4, <1>5, <1>6, <1>8, SumOutscores
<1> QED BY <1>7, <1>8

\* One list of both: no place is left out, the better score comes first.
LEMMA FusedLemma ==
    ASSUME NEW lex, IsList(lex, DOMAIN lex), DOMAIN lex \in SUBSET Keys,
           NEW sem, IsList(sem, DOMAIN sem), DOMAIN sem \in SUBSET Keys
    PROVE  /\ Dense(Fused(lex, sem), DOMAIN lex \union DOMAIN sem)
           /\ \A a, b \in DOMAIN lex \union DOMAIN sem :
                Outscores(Score(lex, sem, b), Score(lex, sem, a)) => Fused(lex, sem)[b] < Fused(lex, sem)[a]
<1> DEFINE all == DOMAIN lex \union DOMAIN sem
           score == [k \in all |-> Score(lex, sem, k)]
           before == {p \in all \X all :
                        \/ Outscores(score[p[1]], score[p[2]])
                        \/ ~Outscores(score[p[2]], score[p[1]]) /\ KeyOrder[p[1]] < KeyOrder[p[2]]}
           F == Fused(lex, sem)
           Gt(a, b) == Outscores(Score(lex, sem, a), Score(lex, sem, b))
<1>1. F = Placed(all, before)
  BY DEF Fused
<1>2. \A a, b \in all : <<a, b>> \in before <=> Gt(a, b) \/ (~Gt(b, a) /\ KeyOrder[a] < KeyOrder[b])
  OBVIOUS
<1>3. \A a, b, c \in all : /\ ~Gt(a, a)
                           /\ Gt(a, b) => ~Gt(b, a)
                           /\ ~Gt(a, b) /\ ~Gt(b, c) => ~Gt(a, c)
  <2> SUFFICES ASSUME NEW a \in all, NEW b \in all, NEW c \in all
               PROVE  /\ ~Gt(a, a)
                      /\ Gt(a, b) => ~Gt(b, a)
                      /\ ~Gt(a, b) /\ ~Gt(b, c) => ~Gt(a, c)
    OBVIOUS
  <2>1. Fraction(Score(lex, sem, a)) /\ Fraction(Score(lex, sem, b)) /\ Fraction(Score(lex, sem, c))
    BY ScoreLemma
  <2> QED BY <2>1, OutscoresLemma
<1>4. all \in SUBSET Keys /\ IsFiniteSet(all)
  BY FS_Subset, QueryAssumption
<1>5. \A a, b \in all : KeyOrder[a] \in Nat /\ (KeyOrder[a] = KeyOrder[b] => a = b)
  BY <1>4, QueryAssumption
<1> HIDE DEF all, score, before, Gt, F
<1>6. Orders(before, all)
  <2>1. \A x \in all : <<x, x>> \notin before
    BY <1>2, <1>3, <1>5
  <2>2. \A x, y \in all : x # y => <<x, y>> \in before \/ <<y, x>> \in before
    BY <1>2, <1>3, <1>5
  <2>3. ASSUME NEW x \in all, NEW y \in all, NEW z \in all, <<x, y>> \in before, <<y, z>> \in before
        PROVE  <<x, z>> \in before
    <3>1. /\ Gt(x, y) \/ (~Gt(y, x) /\ KeyOrder[x] < KeyOrder[y])
          /\ Gt(y, z) \/ (~Gt(z, y) /\ KeyOrder[y] < KeyOrder[z])
      BY <1>2, <2>3
    <3>2. ~Gt(z, x)
      BY <1>3, <3>1
    <3>3. Gt(x, z) \/ KeyOrder[x] < KeyOrder[z]
      <4>1. CASE Gt(x, y)
        BY <1>3, <3>1, <4>1
      <4>2. CASE Gt(y, z)
        BY <1>3, <3>1, <4>2
      <4>3. CASE KeyOrder[x] < KeyOrder[y] /\ KeyOrder[y] < KeyOrder[z]
        BY <1>5, <4>3
      <4> QED BY <3>1, <4>1, <4>2, <4>3
    <3> QED BY <1>2, <3>2, <3>3
  <2> QED BY <2>1, <2>2, <2>3 DEF Orders
<1>7. Dense(F, all) /\ \A x, y \in all : <<x, y>> \in before <=> F[x] < F[y]
  BY <1>1, <1>4, <1>6, PlacedLemma
<1>8. \A a, b \in all : Gt(b, a) => F[b] < F[a]
  BY <1>2, <1>7
<1> QED BY <1>7, <1>8 DEF F, all, Gt

-----------------------------------------------------------------------------
(* Blends *)

\* A plain search in its lengths: the same list, cut earlier.
LEMMA PlainLemma ==
    ASSUME NEW g, Faithful(g), NEW passing, NEW found, 0 \notin found, NEW limit \in Nat, NEW wide \in Nat, limit <= wide
    PROVE  LET q == Question("now", 0, Times, "first", passing, found, limit)
               plain == SearchIn(g, [q EXCEPT !.limit = wide])
           IN /\ Dense(plain, DOMAIN plain) /\ DOMAIN plain \in SUBSET found
              /\ \A m \in DOMAIN plain : KeyOf(m) \in Keys
              /\ \A m, n \in DOMAIN plain : KeyOf(m) = KeyOf(n) => m = n
              /\ SearchIn(g, q) = Cut(plain, limit)
<1> DEFINE q == Question("now", 0, Times, "first", passing, found, limit)
           w == [q EXCEPT !.limit = wide]
           M == Matching(g, q)
           R == Ranked(g, M, q.order)
           plain == SearchIn(g, w)
<1>1. /\ q.kind = "now" /\ q.within = Times /\ q.order = "first" /\ q.found = found /\ q.limit = limit
      /\ w.kind = "now" /\ w.within = Times /\ w.order = "first" /\ w.found = found /\ w.limit = wide
  BY DEF Question
<1> HIDE DEF q, w
<1>2. Searchable(q)
  BY <1>1 DEF Searchable
<1>3. Matching(g, w) = M /\ Ranked(g, Matching(g, w), w.order) = R
  BY <1>1 DEF Matching, World
<1>4. Fetched(g, q) = Cut(R, limit) /\ Fetched(g, w) = Cut(R, wide)
  BY <1>1, <1>3 DEF Fetched
<1>5. \A S : Staying(g, q, S) = S /\ Staying(g, w, S) = S
  BY <1>1 DEF Staying
<1>6. Dense(R, M)
  BY <1>2, MatchLemma
<1>7. M = {i \in Versions(g.upto) :
             /\ i \in q.found /\ log[i].at \in q.within
             /\ q.kind = "now" => \E k \in Keys : i = HeadOf(g.upto, k)}
  BY <1>2, MatchLemma
<1>8. SearchIn(g, q) = Cut(Among(Cut(R, limit), DOMAIN Cut(R, limit)), limit)
  BY <1>1, <1>4, <1>5 DEF SearchIn
<1>9. plain = Cut(Among(Cut(R, wide), DOMAIN Cut(R, wide)), wide)
  BY <1>1, <1>4, <1>5 DEF SearchIn
<1> HIDE DEF M, R, plain
<1>10. SearchIn(g, q) = Cut(R, limit)
  <2>1. Among(Cut(R, limit), DOMAIN Cut(R, limit)) = Cut(R, limit) /\ Cut(Cut(R, limit), limit) = Cut(R, limit)
    BY <1>6, CutAmong
  <2> QED BY <1>8, <2>1
<1>11. plain = Cut(R, wide) /\ Dense(plain, DOMAIN plain) /\ Cut(plain, limit) = Cut(R, limit)
  <2>1. /\ Dense(Cut(R, wide), DOMAIN Cut(R, wide))
        /\ Among(Cut(R, wide), DOMAIN Cut(R, wide)) = Cut(R, wide) /\ Cut(Cut(R, wide), wide) = Cut(R, wide)
        /\ Cut(Cut(R, wide), limit) = Cut(R, limit)
    BY <1>6, CutAmong
  <2> QED BY <1>9, <2>1
<1>12. DOMAIN plain \in SUBSET M
  <2>1. IsList(R, M)
    BY <1>6 DEF Dense
  <2>2. DOMAIN Cut(R, wide) \in SUBSET M
    BY <2>1, CutLemma
  <2> QED BY <1>11, <2>2
<1>13. ASSUME NEW m \in M PROVE m \in found /\ KeyOf(m) \in Keys /\ m = HeadOf(g.upto, KeyOf(m))
  <2>1. m \in found /\ m \in Versions(g.upto)
    BY <1>1, <1>7
  <2>2. PICK k \in Keys : m = HeadOf(g.upto, k)
    BY <1>1, <1>7
  <2>3. m # 0 /\ g.upto \in Nat
    BY <2>1 DEF Versions, Faithful
  <2>4. m \in Writes(g.upto, k)
    BY <2>2, <2>3, HistoryTypes, NewestLemma DEF HeadOf
  <2>5. KeyOf(m) = k
    BY <2>4 DEF Writes, KeyOf
  <2> QED BY <2>1, <2>2, <2>5
<1>14. DOMAIN plain \in SUBSET found /\ \A m \in DOMAIN plain : KeyOf(m) \in Keys
  BY <1>12, <1>13
<1>15. \A m, n \in DOMAIN plain : KeyOf(m) = KeyOf(n) => m = n
  <2> SUFFICES ASSUME NEW m \in DOMAIN plain, NEW n \in DOMAIN plain, KeyOf(m) = KeyOf(n) PROVE m = n
    OBVIOUS
  <2>1. m = HeadOf(g.upto, KeyOf(m)) /\ n = HeadOf(g.upto, KeyOf(n))
    BY <1>12, <1>13
  <2> QED BY <2>1
<1> QED BY <1>10, <1>11, <1>14, <1>15 DEF plain, q, w

\* The keys of a list of hits, one each.
LEMMA KeysOfLemma ==
    ASSUME NEW hits, Dense(hits, DOMAIN hits), \A m \in DOMAIN hits : KeyOf(m) \in Keys,
           \A m, n \in DOMAIN hits : KeyOf(m) = KeyOf(n) => m = n
    PROVE  LET lex == KeysOf(hits) IN
           /\ DOMAIN lex = {KeyOf(n) : n \in DOMAIN hits} /\ DOMAIN lex \in SUBSET Keys
           /\ \A n \in DOMAIN hits : HitOf(hits, KeyOf(n)) = n /\ lex[KeyOf(n)] = hits[n]
           /\ Dense(lex, DOMAIN lex) /\ IsList(lex, DOMAIN lex)
<1> DEFINE lex == KeysOf(hits)
           D == {KeyOf(n) : n \in DOMAIN hits}
<1>1. ASSUME NEW n \in DOMAIN hits PROVE HitOf(hits, KeyOf(n)) = n
  BY DEF HitOf
<1>2. lex = [k \in D |-> hits[HitOf(hits, k)]]
  BY DEF KeysOf
<1>3. DOMAIN lex = D /\ lex = [k \in D |-> lex[k]] /\ \A k \in D : lex[k] = hits[HitOf(hits, k)]
  BY <1>2
<1>4. \A k \in D : \E n \in DOMAIN hits : k = KeyOf(n)
  OBVIOUS
<1>5. \A n \in DOMAIN hits : KeyOf(n) \in D
  OBVIOUS
<1>6. D \in SUBSET Keys
  OBVIOUS
<1> HIDE DEF lex, D
<1>7. \A n \in DOMAIN hits : lex[KeyOf(n)] = hits[n]
  BY <1>1, <1>3, <1>5
<1>8. IsFiniteSet(D)
  BY <1>6, FS_Subset, QueryAssumption
<1>9. \A n \in DOMAIN hits : hits[n] \in Nat \ {0}
  BY DEF Dense, IsList
<1>10. \A k \in D : lex[k] \in Nat \ {0}
  BY <1>4, <1>7, <1>9
<1>11. \A j, k \in D : lex[j] = lex[k] => j = k
  <2> SUFFICES ASSUME NEW j \in D, NEW k \in D, lex[j] = lex[k] PROVE j = k
    OBVIOUS
  <2>1. PICK m \in DOMAIN hits, n \in DOMAIN hits : j = KeyOf(m) /\ k = KeyOf(n)
    BY <1>4
  <2>2. hits[m] = hits[n]
    BY <1>7, <2>1
  <2>3. m = n
    BY <2>2 DEF Dense, IsList
  <2> QED BY <2>1, <2>3
<1>12. IsList(lex, D)
  <2>1. lex \in [D -> Nat \ {0}]
    BY <1>3, <1>10
  <2> QED BY <1>8, <1>11, <2>1 DEF IsList
<1>13. \A k \in D : \A p \in 1 .. lex[k] : \E j \in D : lex[j] = p
  <2> SUFFICES ASSUME NEW k \in D, NEW p \in 1 .. lex[k] PROVE \E j \in D : lex[j] = p
    OBVIOUS
  <2>1. PICK n \in DOMAIN hits : k = KeyOf(n)
    BY <1>4
  <2>2. p \in 1 .. hits[n]
    BY <1>7, <2>1
  <2>3. PICK m \in DOMAIN hits : hits[m] = p
    BY <2>2 DEF Dense
  <2> QED BY <1>5, <1>7, <2>3
<1>14. Dense(lex, D)
  BY <1>12, <1>13 DEF Dense
<1> QED BY <1>1, <1>3, <1>6, <1>7, <1>12, <1>14 DEF lex, D

\* What is known of the hits of a blend, of its rows and of the one list they
\* are taken from.
LEMMA HybridLemma ==
    ASSUME NEW g, Faithful(g), NEW h, Faithful(h),
           NEW passing, 0 \notin passing, NEW found \in SUBSET passing, NEW limit \in Nat \ {0},
           NEW semantic, IsList(semantic, DOMAIN semantic), DOMAIN semantic \in SUBSET Keys
    PROVE  BlendRight(h, g, Question("now", 0, Times, "first", passing, found, limit), semantic)
<1> DEFINE q == Question("now", 0, Times, "first", passing, found, limit)
           W == Widened(limit)
           plain == SearchIn(h, [q EXCEPT !.limit = W])
           near == Cut(semantic, W)
           lex == KeysOf(plain)
           all == DOMAIN lex \union DOMAIN near
           version(k) == IF k \in DOMAIN lex THEN HitOf(plain, k) ELSE Materialised(g, q, k)
           F == Fused(lex, near)
           V == {k \in all : version(k) # 0}
           A == Among(F, V)
           rows == Cut(A, limit)
           hits == Hybrid(h, g, q, semantic)
<1>1. W \in Nat /\ limit <= W
  BY QueryAssumption DEF Widened
<1>2. q.limit = limit /\ q.passing = passing
  BY DEF Question
<1>3. /\ Dense(plain, DOMAIN plain) /\ DOMAIN plain \in SUBSET found
      /\ \A m \in DOMAIN plain : KeyOf(m) \in Keys
      /\ \A m, n \in DOMAIN plain : KeyOf(m) = KeyOf(n) => m = n
      /\ SearchIn(h, q) = Cut(plain, limit)
  BY <1>1, PlainLemma
<1>4. IsList(near, DOMAIN near) /\ DOMAIN near \in SUBSET Keys /\ DOMAIN near \in SUBSET DOMAIN semantic
  BY <1>1, CutLemma
<1> HIDE DEF q, W, plain, near
<1>5. /\ DOMAIN lex = {KeyOf(n) : n \in DOMAIN plain} /\ DOMAIN lex \in SUBSET Keys
      /\ \A n \in DOMAIN plain : HitOf(plain, KeyOf(n)) = n /\ lex[KeyOf(n)] = plain[n]
      /\ Dense(lex, DOMAIN lex) /\ IsList(lex, DOMAIN lex)
  BY <1>3, KeysOfLemma
<1> HIDE DEF lex
<1>6. /\ Dense(F, all)
      /\ \A a, b \in all : Outscores(Score(lex, near, b), Score(lex, near, a)) => F[b] < F[a]
  BY <1>4, <1>5, FusedLemma
<1>7. DOMAIN F = all /\ all \in SUBSET Keys
  BY <1>4, <1>5, <1>6 DEF Dense, IsList
<1>8. hits = [n \in {version(k) : k \in DOMAIN rows} |-> rows[KeyOf(n)]]
  BY <1>2, <1>7, ZenonT(60) DEF Hybrid, q, W, plain, near, lex
<1> HIDE DEF F, all
<1>9. V \in SUBSET all
  OBVIOUS
<1>10. ASSUME NEW k \in V PROVE version(k) \in passing /\ KeyOf(version(k)) = k
  <2>1. CASE k \in DOMAIN lex
    <3>1. PICK n \in DOMAIN plain : k = KeyOf(n)
      BY <1>5, <2>1
    <3>2. version(k) = n
      BY <1>5, <2>1, <3>1
    <3> QED BY <1>3, <3>1, <3>2
  <2>2. CASE k \notin DOMAIN lex
    <3>1. version(k) = Materialised(g, q, k) /\ Materialised(g, q, k) # 0 /\ k \in Keys
      BY <1>7, <2>2
    <3>2. version(k) = g.docs.heads[k] /\ version(k) \in passing
      BY <1>2, <3>1 DEF Materialised, Live
    <3>3. g.docs.heads[k] = HeadOf(g.upto, k) /\ g.upto \in Nat
      BY <3>1 DEF Faithful
    <3>4. HeadOf(g.upto, k) \in Writes(g.upto, k)
      BY <3>1, <3>2, <3>3, HistoryTypes, NewestLemma DEF HeadOf
    <3>5. KeyOf(HeadOf(g.upto, k)) = k
      BY <3>4 DEF Writes, KeyOf
    <3> QED BY <3>2, <3>3, <3>5
  <2> QED BY <2>1, <2>2
<1>11. \A n \in DOMAIN plain : KeyOf(n) \in DOMAIN lex /\ KeyOf(n) \in V /\ version(KeyOf(n)) = n
  <2> SUFFICES ASSUME NEW n \in DOMAIN plain
               PROVE  KeyOf(n) \in DOMAIN lex /\ KeyOf(n) \in V /\ version(KeyOf(n)) = n
    OBVIOUS
  <2>1. KeyOf(n) \in DOMAIN lex
    BY <1>5
  <2>2. version(KeyOf(n)) = n
    BY <1>5, <2>1
  <2>3. n # 0
    BY <1>3
  <2> QED BY <2>1, <2>2, <2>3 DEF all
<1>12. \A k \in DOMAIN near : Live(g, k) \in passing => k \in V
  <2> SUFFICES ASSUME NEW k \in DOMAIN near, Live(g, k) \in passing PROVE k \in V
    OBVIOUS
  <2>1. CASE k \in DOMAIN lex
    BY <1>5, <1>11, <2>1
  <2>2. CASE k \notin DOMAIN lex
    <3>1. Materialised(g, q, k) = Live(g, k) /\ Live(g, k) # 0
      BY <1>2 DEF Materialised
    <3> QED BY <2>2, <3>1 DEF all
  <2> QED BY <2>1, <2>2
<1> HIDE DEF version
<1>13. Dense(A, V) /\ \A x, y \in V : A[x] < A[y] <=> F[x] < F[y]
  <2>1. IsList(F, all)
    BY <1>6 DEF Dense
  <2> HIDE DEF V
  <2> QED BY <1>9, <2>1, AmongLemma
<1> HIDE DEF V, A, hits
<1>14. /\ DOMAIN rows = {k \in V : A[k] <= limit} /\ DOMAIN rows \in SUBSET V
       /\ \A k \in DOMAIN rows : rows[k] = A[k]
  <2>1. DOMAIN A = V
    BY <1>13 DEF Dense, IsList
  <2> QED BY <2>1 DEF Cut
<1> HIDE DEF rows
<1>15. /\ DOMAIN hits = {version(k) : k \in DOMAIN rows}
       /\ \A k \in DOMAIN rows : hits[version(k)] = rows[k]
  <2>1. DOMAIN hits = {version(k) : k \in DOMAIN rows}
    BY <1>8
  <2>2. ASSUME NEW k \in DOMAIN rows PROVE hits[version(k)] = rows[k]
    <3>1. version(k) \in {version(j) : j \in DOMAIN rows}
      OBVIOUS
    <3>2. KeyOf(version(k)) = k
      BY <1>10, <1>14
    <3> QED BY <1>8, <3>1, <3>2
  <2> QED BY <2>1, <2>2
<1>16. DOMAIN hits \subseteq passing
  BY <1>10, <1>14, <1>15
<1>17. \A k \in V : A[k] \in Nat \ {0}
  BY <1>13 DEF Dense, IsList
<1>18. ASSUME \A n \in DOMAIN hits : hits[n] < limit
       PROVE  /\ DOMAIN plain \subseteq DOMAIN hits
              /\ \A k \in DOMAIN near : Live(g, k) \in passing => k \in DOMAIN KeysOf(hits)
  <2>1. ASSUME NEW k \in V PROVE k \in DOMAIN rows
    <3> SUFFICES ASSUME ~(A[k] <= limit) PROVE FALSE
      BY <1>14
    <3>1. limit \in 1 .. A[k]
      BY <1>17
    <3>2. PICK j \in V : A[j] = limit
      BY <1>13, <3>1 DEF Dense
    <3>3. j \in DOMAIN rows /\ rows[j] = limit
      BY <1>14, <3>2
    <3>4. version(j) \in DOMAIN hits /\ hits[version(j)] = limit
      BY <1>15, <3>3
    <3> QED BY <1>18, <3>4
  <2>2. ASSUME NEW n \in DOMAIN plain PROVE n \in DOMAIN hits
    BY <1>11, <1>15, <2>1
  <2>3. ASSUME NEW k \in DOMAIN near, Live(g, k) \in passing PROVE k \in DOMAIN KeysOf(hits)
    <3>1. k \in V /\ version(k) \in DOMAIN hits /\ KeyOf(version(k)) = k
      BY <1>10, <1>12, <1>15, <2>1, <2>3
    <3>2. DOMAIN KeysOf(hits) = {KeyOf(n) : n \in DOMAIN hits}
      BY DEF KeysOf
    <3> QED BY <3>1, <3>2
  <2> QED BY <2>2, <2>3
<1>19. ASSUME NEW m \in DOMAIN hits, NEW n \in DOMAIN hits, hits[m] < hits[n]
       PROVE  ~ (Behind(lex, KeyOf(m), KeyOf(n)) /\ Behind(near, KeyOf(m), KeyOf(n)))
  <2>1. PICK a \in DOMAIN rows, b \in DOMAIN rows : m = version(a) /\ n = version(b)
    BY <1>15
  <2>2. KeyOf(m) = a /\ KeyOf(n) = b /\ a \in V /\ b \in V
    BY <1>10, <1>14, <2>1
  <2>3. A[a] < A[b]
    BY <1>14, <1>15, <1>19, <2>1
  <2>4. F[a] < F[b] /\ F[a] \in Nat /\ F[b] \in Nat /\ a \in all /\ b \in all
    BY <1>6, <1>9, <1>13, <2>2, <2>3 DEF Dense, IsList
  <2>5. ~Outscores(Score(lex, near, b), Score(lex, near, a))
    BY <1>6, <2>4
  <2>6. Behind(lex, a, b) /\ Behind(near, a, b) => Outscores(Score(lex, near, b), Score(lex, near, a))
    BY <1>4, <1>5, ScoreLemma
  <2> QED BY <2>2, <2>5, <2>6
<1>20. ASSUME DOMAIN semantic = {} PROVE hits = SearchIn(h, q)
  <2>1. DOMAIN near = {} /\ all = DOMAIN lex
    BY <1>4, <1>20 DEF all
  <2>2. V = DOMAIN lex
    BY <1>5, <1>9, <1>11, <2>1
  <2>3. \A k \in DOMAIN lex : lex[k] \in Nat /\ F[k] \in Nat
    BY <1>5, <1>6, <2>1 DEF Dense, IsList
  <2>4. ASSUME NEW a \in DOMAIN lex, NEW b \in DOMAIN lex, lex[b] < lex[a] PROVE F[b] < F[a]
    <3>1. Outscores(Part(4, lex, b), Part(4, lex, a))
      BY <1>5, <2>4, PartLemma DEF Behind
    <3>2. Fraction(Part(4, lex, b)) /\ Fraction(Part(4, lex, a))
      BY <1>5, PartLemma
    <3>3. \A k : Part(6, near, k) = [num |-> 0, den |-> 1]
      BY <2>1 DEF Part
    <3>4. ASSUME NEW k \in {a, b}
          PROVE  Score(lex, near, k).num = Part(4, lex, k).num /\ Score(lex, near, k).den = Part(4, lex, k).den
      <4>1. Part(4, lex, k).num \in Nat /\ Part(4, lex, k).den \in Nat
        BY <3>2, <3>4 DEF Fraction
      <4>2. /\ Score(lex, near, k).num = Part(4, lex, k).num * 1 + 0 * Part(4, lex, k).den
            /\ Score(lex, near, k).den = Part(4, lex, k).den * 1
        BY <3>3 DEF Score
      <4> QED BY <4>1, <4>2
    <3>5. Outscores(Score(lex, near, b), Score(lex, near, a))
      BY <3>1, <3>4 DEF Outscores
    <3> QED BY <1>6, <2>1, <3>5
  <2>5. \A a, b \in DOMAIN lex : lex[b] < lex[a] <=> F[b] < F[a]
    <3> SUFFICES ASSUME NEW a \in DOMAIN lex, NEW b \in DOMAIN lex, F[b] < F[a], ~(lex[b] < lex[a]) PROVE FALSE
      BY <2>4
    <3>1. lex[a] < lex[b] \/ lex[a] = lex[b]
      BY <2>3
    <3>2. lex[a] = lex[b] => a = b
      BY <1>5 DEF Dense, IsList
    <3> QED BY <2>3, <2>4, <3>1, <3>2
  <2>6. \A x, y \in DOMAIN lex : lex[x] < lex[y] <=> A[x] < A[y]
    BY <1>13, <2>2, <2>5
  <2>7. A = lex
    BY <1>5, <1>13, <2>2, <2>6, SameList
  <2>8. DOMAIN rows = {k \in DOMAIN lex : lex[k] <= limit} /\ \A k \in DOMAIN rows : rows[k] = lex[k]
    BY <1>14, <2>2, <2>7
  <2> DEFINE C == {n \in DOMAIN plain : plain[n] <= limit}
  <2>9. {version(k) : k \in DOMAIN rows} = C
    <3>1. ASSUME NEW k \in DOMAIN rows PROVE version(k) \in C
      <4>1. PICK n \in DOMAIN plain : k = KeyOf(n)
        BY <1>5, <2>8
      <4>2. version(k) = n /\ lex[k] = plain[n]
        BY <1>5, <1>11, <4>1
      <4> QED BY <2>8, <4>2
    <3>2. ASSUME NEW n \in C PROVE n \in {version(k) : k \in DOMAIN rows}
      <4>1. KeyOf(n) \in DOMAIN lex /\ version(KeyOf(n)) = n /\ lex[KeyOf(n)] = plain[n]
        BY <1>5, <1>11
      <4>2. KeyOf(n) \in DOMAIN rows
        BY <2>8, <4>1
      <4> QED BY <4>1, <4>2
    <3> QED BY <3>1, <3>2
  <2>10. \A n \in C : rows[KeyOf(n)] = plain[n]
    <3> SUFFICES ASSUME NEW n \in C PROVE rows[KeyOf(n)] = plain[n]
      OBVIOUS
    <3>1. KeyOf(n) \in DOMAIN lex /\ lex[KeyOf(n)] = plain[n]
      BY <1>5, <1>11
    <3> QED BY <2>8, <3>1
  <2>11. hits = [n \in C |-> plain[n]]
    BY <1>8, <2>9, <2>10
  <2> QED BY <1>3, <2>11 DEF Cut
<1>21. \A m, n \in DOMAIN hits : hits[m] < hits[n] =>
         ~ (Behind(lex, KeyOf(m), KeyOf(n)) /\ Behind(near, KeyOf(m), KeyOf(n)))
  BY <1>19
<1> QED BY <1>2, <1>16, <1>18, <1>20, <1>21 DEF BlendRight, Behind, q, W, plain, near, lex, hits

LEMMA BlendLemma == AnswerInv => BlendHolds
<1> SUFFICES ASSUME AnswerInv, held.sound, gen.sound,
                    NEW passing \in SUBSET (Heads(held) \union Heads(gen)), NEW found \in SUBSET passing,
                    NEW limit \in Limits, NEW semantic \in Lists(Keys)
             PROVE  BlendRight(held, gen, Question("now", 0, Times, "first", passing, found, limit), semantic)
  BY DEF BlendHolds
<1>1. Faithful(gen) /\ Faithful(held)
  BY SoundFaithful
<1>2. 0 \notin passing
  BY DEF Heads
<1>3. limit \in Nat \ {0}
  BY QueryAssumption
<1>4. IsList(semantic, DOMAIN semantic) /\ DOMAIN semantic \in SUBSET Keys
  <2>1. PICK T \in SUBSET Keys : semantic \in {f \in [T -> 1 .. Cardinality(T)] : \A x, y \in T : f[x] = f[y] => x = y}
    BY DEF Lists
  <2>2. IsFiniteSet(T) /\ DOMAIN semantic = T
    BY <2>1, FS_Subset, QueryAssumption
  <2>3. Cardinality(T) \in Nat
    BY <2>2, FS_CardinalityType
  <2>4. semantic \in [T -> Nat \ {0}]
    BY <2>1, <2>3
  <2> QED BY <2>1, <2>2, <2>4 DEF IsList
<1> QED BY <1>1, <1>2, <1>3, <1>4, HybridLemma

\* Whatever is written, removed or reindexed and whatever fails in between, a
\* search that begins finds the best of what the history holds, and a blend
\* holds nothing that does not pass, leaves out nothing that fits and keeps the
\* order both lists agree on (main.rs search, hybrid; index.rs search_in;
\* embed.rs fuse_lists).
THEOREM SearchesAnswer == Spec => []SearchAnswers
<1>1. Init => AnswerInv
  <2>1. ASSUME Init PROVE Exact(gen) /\ Exact(held)
    BY <2>1, ExactFromNothing DEF Init
  <2> QED BY <2>1, IndexInit DEF AnswerInv
<1>2. AnswerInv /\ [Next]_vars => AnswerInv'
  BY AnswerStep
<1>3. AnswerInv => SearchAnswers
  BY FoundRightLemma, BlendLemma DEF SearchAnswers
<1> QED BY <1>1, <1>2, <1>3, PTL DEF Spec
=============================================================================
