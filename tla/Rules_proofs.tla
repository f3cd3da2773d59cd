----------------------------- MODULE Rules_proofs ----------------------------
(* Theorems about Rules, for any values of its constants: what a get and what *)
(* a listing answers while somebody writes; which reminders are shown and     *)
(* which deadlines stand; that the views of what is open agree, and stamps    *)
(* stay; what a tool call is answered and what it may change.                 *)
EXTENDS Rules, FiniteSetTheorems, TLAPS

-----------------------------------------------------------------------------
(* Histories *)

Removals(p) == {i \in DOMAIN p : p[i] = 0}

\* A history as commits make it: it begins with a version, and nothing is
\* removed twice.  There being a newest removal is part of what has to be
\* carried from commit to commit, as no induction over p is at hand.
Told(p) ==
    /\ p \in Seq(Nat)
    /\ p # <<>> => p[1] # 0
    /\ \A i \in 1 .. Len(p) - 1 : p[i] # 0 \/ p[i + 1] # 0
    /\ Removals(p) # {} => \E m \in Removals(p) : \A i \in Removals(p) : i <= m

\* What HEAD has of the key; 0: nothing.
AtHead(p) == IF p = <<>> \/ Last(p) = 0 THEN 0 ELSE Last(p)

LEMMA MaxLemma ==
    ASSUME NEW S \in SUBSET Nat, NEW m \in S, \A i \in S : i <= m
    PROVE  Max(S) = m
<1>1. Max(S) \in S /\ \A i \in S : Max(S) >= i
  BY DEF Max
<1> DEFINE top == Max(S)
<1> HIDE DEF top
<1>2. top \in S /\ \A i \in S : top >= i
  BY <1>1 DEF top
<1>3. top = m
  BY <1>2
<1> QED BY <1>3 DEF top

LEMMA TellsNothing == Told(<<>>) /\ LastVersion(<<>>) = 0 /\ AtHead(<<>>) = 0
BY DEF Told, LastVersion, AtHead, Removals

\* The last version is what is at HEAD, or what the removal there took away.
LEMMA LastVersionLemma ==
    ASSUME NEW p, Told(p), p # <<>>
    PROVE  /\ Last(p) \in Nat
           /\ LastVersion(p) \in Nat \ {0}
           /\ Last(p) # 0 => LastVersion(p) = Last(p)
           /\ Last(p) = 0 => Len(p) > 1 /\ LastVersion(p) = p[Len(p) - 1]
<1> DEFINE n == Len(p)
           wrote == {i \in DOMAIN p : p[i] # 0}
<1>1. n \in Nat /\ n >= 1 /\ DOMAIN p = 1 .. n /\ p \in [1 .. n -> Nat]
  BY DEF Told
<1>2. wrote \in SUBSET Nat
  BY <1>1
<1>3. CASE p[n] # 0
  <2>1. n \in wrote /\ \A i \in wrote : i <= n
    BY <1>1, <1>3
  <2>2. Max(wrote) = n
    BY <1>2, <2>1, MaxLemma
  <2> QED BY <1>1, <1>3, <2>1, <2>2 DEF LastVersion, Last
<1>4. CASE p[n] = 0
  <2>1. n > 1
    BY <1>1, <1>4 DEF Told
  <2>2. p[n - 1] # 0
    <3>1. n - 1 \in 1 .. n - 1 /\ (n - 1) + 1 = n
      BY <1>1, <2>1
    <3>2. p[n - 1] # 0 \/ p[(n - 1) + 1] # 0
      BY <3>1 DEF Told
    <3> QED BY <1>4, <3>1, <3>2
  <2>3. n - 1 \in wrote /\ \A i \in wrote : i <= n - 1
    BY <1>1, <1>4, <2>1, <2>2
  <2>4. Max(wrote) = n - 1
    BY <1>2, <2>3, MaxLemma
  <2> QED BY <1>1, <1>4, <2>1, <2>2, <2>3, <2>4 DEF LastVersion, Last
<1> QED BY <1>3, <1>4

\* What a known removal took away is a version; the newest one's, if it is at
\* HEAD, is the last.
LEMMA ArchivedLemma ==
    ASSUME NEW p, Told(p), 0 \in Range(p)
    PROVE  /\ p # <<>>
           /\ Archived(p) \in Nat \ {0}
           /\ Last(p) = 0 => Archived(p) = LastVersion(p)
           /\ Max(Removals(p)) \in Removals(p) /\ Max(Removals(p)) > 1
<1> DEFINE n == Len(p)
<1>1. n \in Nat /\ DOMAIN p = 1 .. n /\ p \in [1 .. n -> Nat]
  BY DEF Told
<1>2. Removals(p) # {} /\ Removals(p) \in SUBSET Nat /\ p # <<>>
  BY <1>1 DEF Range, Removals
<1>3. PICK m \in Removals(p) : \A i \in Removals(p) : i <= m
  BY <1>2 DEF Told
<1>4. Max(Removals(p)) = m
  BY <1>2, <1>3, MaxLemma
<1>5. m \in 1 .. n /\ p[m] = 0 /\ m > 1
  BY <1>1, <1>2, <1>3 DEF Told, Removals
<1>6. p[m - 1] \in Nat \ {0}
  <2>1. m - 1 \in 1 .. n - 1 /\ (m - 1) + 1 = m
    BY <1>1, <1>5
  <2>2. p[m - 1] # 0 \/ p[(m - 1) + 1] # 0
    BY <2>1 DEF Told
  <2> QED BY <1>1, <1>5, <2>1, <2>2
<1>7. Archived(p) = p[m - 1]
  BY <1>4 DEF Archived, Removals
<1>8. ASSUME Last(p) = 0 PROVE Archived(p) = LastVersion(p)
  <2>1. n \in Removals(p)
    BY <1>1, <1>5, <1>8 DEF Last, Removals
  <2>2. m = n
    <3>1. n <= m /\ m <= n /\ m \in Nat /\ n \in Nat
      BY <1>1, <1>3, <1>5, <2>1
    <3> HIDE DEF n
    <3> QED BY <3>1
  <2> QED BY <1>2, <1>7, <1>8, <2>2, LastVersionLemma
<1> QED BY <1>2, <1>3, <1>4, <1>5, <1>6, <1>7, <1>8

\* What a commit makes of a history.
LEMMA WithLemma ==
    ASSUME NEW p, Told(p), NEW n \in Nat
    PROVE  /\ Told(With(p, n))
           /\ p # <<>> \/ n # 0 => With(p, n) # <<>>
           /\ n # 0 => /\ AtHead(With(p, n)) = n /\ LastVersion(With(p, n)) = n
                       /\ 0 \in Range(With(p, n)) <=> 0 \in Range(p)
                       /\ 0 \in Range(p) => Archived(With(p, n)) = Archived(p)
           /\ n = 0 => /\ AtHead(With(p, n)) = 0 /\ LastVersion(With(p, n)) = LastVersion(p)
                       /\ p # <<>> => /\ 0 \in Range(With(p, n))
                                      /\ Archived(With(p, n)) = LastVersion(p)
<1> DEFINE l == Len(p)
           q == Append(p, n)
<1>1. l \in Nat /\ DOMAIN p = 1 .. l /\ p \in [1 .. l -> Nat] /\ p \in Seq(Nat)
  BY DEF Told
<1>2. /\ q \in Seq(Nat) /\ q # <<>> /\ Len(q) = l + 1 /\ DOMAIN q = 1 .. l + 1
      /\ q[l + 1] = n /\ \A i \in 1 .. l : q[i] = p[i]
  BY <1>1
<1> HIDE DEF q
<1>3. CASE n = 0 /\ (p = <<>> \/ Last(p) = 0)
  <2>1. With(p, n) = p
    BY <1>3 DEF With
  <2>2. ASSUME p # <<>> PROVE 0 \in Range(p)
    BY <1>1, <1>3, <2>2 DEF Last, Range
  <2> QED
    BY <1>3, <2>1, <2>2, ArchivedLemma, TellsNothing DEF AtHead
<1>4. CASE ~(n = 0 /\ (p = <<>> \/ Last(p) = 0))
  <2>1. With(p, n) = q
    BY <1>4 DEF With, q
  <2>2. Removals(q) = IF n = 0 THEN Removals(p) \union {l + 1} ELSE Removals(p)
    BY <1>1, <1>2 DEF Removals
  <2>3. Told(q)
    <3>1. q[1] # 0
      BY <1>1, <1>2, <1>4 DEF Told
    <3>2. \A i \in 1 .. Len(q) - 1 : q[i] # 0 \/ q[i + 1] # 0
      <4> SUFFICES ASSUME NEW i \in 1 .. l PROVE q[i] # 0 \/ q[i + 1] # 0
        BY <1>1, <1>2
      <4>1. CASE i = l
        BY <1>1, <1>2, <1>4, <4>1 DEF Last
      <4>2. CASE i # l
        <5>0. l \in Nat
          BY <1>1
        <5> HIDE DEF l
        <5>1. i \in 1 .. l - 1 /\ i + 1 \in 1 .. l
          BY <4>2, <5>0
        <5>2. p[i] # 0 \/ p[i + 1] # 0
          BY <5>1 DEF Told, l
        <5> QED BY <1>2, <5>1, <5>2
      <4> QED BY <4>1, <4>2
    <3>3. Removals(q) # {} => \E m \in Removals(q) : \A i \in Removals(q) : i <= m
      <4>1. Removals(p) \subseteq 1 .. l
        BY <1>1 DEF Removals
      <4>2. CASE n = 0
        <5>1. l + 1 \in Removals(q) /\ \A i \in Removals(q) : i \in 1 .. l + 1
          BY <2>2, <4>1, <4>2, <1>1
        <5>2. \A i \in 1 .. l + 1 : i <= l + 1
          BY <1>1
        <5> QED BY <5>1, <5>2
      <4>3. CASE n # 0
        BY <2>2, <4>3 DEF Told
      <4> QED BY <4>2, <4>3
    <3> QED BY <1>2, <3>1, <3>2, <3>3 DEF Told
  <2>4. Last(q) = n
    BY <1>2 DEF Last
  <2>5. ASSUME n # 0
        PROVE  /\ AtHead(q) = n /\ LastVersion(q) = n
               /\ 0 \in Range(q) <=> 0 \in Range(p)
               /\ 0 \in Range(p) => Archived(q) = Archived(p)
    <3>1. 0 \in Range(q) <=> 0 \in Range(p)
      BY <1>1, <1>2, <2>5, SMTT(30) DEF Range
    <3>2. ASSUME 0 \in Range(p) PROVE Archived(q) = Archived(p)
      <4>1. Max(Removals(p)) \in Removals(p) /\ Max(Removals(p)) > 1
        BY <3>2, ArchivedLemma
      <4>2. Max(Removals(p)) - 1 \in 1 .. l
        BY <1>1, <4>1 DEF Removals
      <4>3. Archived(q) = q[Max(Removals(p)) - 1] /\ Archived(p) = p[Max(Removals(p)) - 1]
        BY <2>2, <2>5 DEF Archived, Removals
      <4> QED BY <1>2, <4>2, <4>3
    <3> QED BY <1>2, <2>3, <2>4, <2>5, <3>1, <3>2, LastVersionLemma DEF AtHead
  <2>6. ASSUME n = 0
        PROVE  /\ AtHead(q) = 0 /\ LastVersion(q) = LastVersion(p)
               /\ 0 \in Range(q) /\ Archived(q) = LastVersion(p)
    <3>1. p # <<>> /\ Last(p) # 0
      BY <1>4, <2>6
    <3>2. LastVersion(p) = Last(p)
      BY <3>1, LastVersionLemma
    <3>3. l \in 1 .. l
      BY <1>1, <3>1
    <3>4. LastVersion(q) = q[l]
      BY <1>1, <1>2, <2>3, <2>4, <2>6, LastVersionLemma, SMTT(30)
    <3>5. 0 \in Range(q)
      BY <1>1, <1>2, <2>6 DEF Range
    <3> QED
      BY <1>2, <2>3, <2>4, <2>6, <3>2, <3>3, <3>4, <3>5, ArchivedLemma DEF AtHead, Last
  <2> QED BY <1>2, <2>1, <2>3, <2>5, <2>6
<1> QED BY <1>3, <1>4

-----------------------------------------------------------------------------
(* The writer *)

Requests ==
    [pc : {"idle", "get", "open", "archived", "walk", "list", "brief", "history", "files", "done", "error"},
     ask : {"get", "list", "brief"}, key : Keys, hits : [Keys -> Nat],
     past : [Keys -> Seq(Nat)], left : SUBSET Keys, rows : SUBSET Keys, answer : Nat,
     since : [Keys -> Nat], touched : SUBSET Keys, slipped : BOOLEAN, looked : SUBSET Keys]

\* What the index has, or will, is a version that was written.
Numbered == \A k \in Keys : index[k] <= written /\ (pending[k] # <<>> => pending[k][1] <= written)

\* Types; the history of every key is one that commits make.
Typed ==
    /\ tree \in [Keys -> Nat] /\ torn \subseteq Keys
    /\ index \in [Keys -> Nat] /\ pending \in [Keys -> Seq(Nat)] /\ Numbered
    /\ past \in [Keys -> Seq(Nat)] /\ staged \in [Keys -> Seq(Nat)]
    /\ written \in Nat /\ shut \subseteq 1 .. written /\ broken \subseteq Keys
    /\ w \in [pc : {"idle", "file", "fill", "commit", "index", "unlink", "removal"}, key : Keys, n : 0 .. written]
    /\ read \in [Readers -> Requests]
    /\ \A k \in Keys : Told(past[k])

Busy(k) == w.pc # "idle" /\ w.key = k

\* File, HEAD and index of a key agree, and no closed version is in the tree.
Settled(k) ==
    /\ tree[k] = AtHead(past[k]) /\ tree[k] \notin shut /\ k \notin torn
    /\ index[k] = IF k \in Knowledge THEN tree[k] ELSE LastVersion(past[k])

\* How far the write in hand has taken its key.
InHand ==
    LET k == w.key IN
    /\ w.pc = "file" => Settled(k)
    /\ w.pc = "fill" => tree[k] = 0 /\ k \in torn
    /\ w.pc # "fill" => k \notin torn
    /\ w.pc \in {"file", "fill", "commit"} => w.n > LastVersion(past[k])
    /\ w.pc = "commit" => tree[k] = w.n
    /\ w.pc = "index" => tree[k] = w.n /\ AtHead(past[k]) = w.n
    /\ w.pc = "index" /\ w.n = 0 => k \in Knowledge
    /\ w.pc = "unlink" => tree[k] # 0 /\ tree[k] = AtHead(past[k])
    /\ w.pc = "removal" => tree[k] = 0 /\ AtHead(past[k]) # 0
    /\ w.pc \in {"unlink", "removal"} =>
         /\ w.n = 0 \/ w.n \in shut
         /\ k \notin Knowledge => index[k] = LastVersion(past[k])
    /\ w.n \in shut => k \notin Knowledge

\* Every key no write has failed for is settled, or it is the one being written.
WriterInv ==
    /\ \A k \in Keys \ broken :
         /\ staged[k] = <<>> /\ pending[k] = <<>> /\ LastVersion(past[k]) <= written
         /\ ~Busy(k) => Settled(k)
    /\ w.pc # "idle" /\ w.key \notin broken => InHand

-----------------------------------------------------------------------------
(* The readers *)

\* A get between its looks.  When it has found no file, the newest removal in
\* the history is not older than what was there when it was asked, or that
\* removal is still to be committed.
GetInv(q) ==
    LET k == q.key IN
    /\ q.pc \in {"get", "open", "archived", "walk", "done", "error"}
    /\ q.pc \in {"get", "archived", "walk"} => q.answer = 0
    /\ q.pc \in {"archived", "walk", "done"} /\ q.answer = 0 => k \in q.touched \/ tree[k] = 0
    /\ q.pc = "open" => tree[k] # 0 \/ k \in q.touched \union broken
    /\ q.pc = "error" => k \in q.touched \union broken
    /\ q.pc = "archived" /\ k \notin broken =>
         \/ 0 \in Range(past[k]) => Archived(past[k]) >= q.since[k]
         \/ w.pc = "removal" /\ w.key = k
    /\ q.pc = "walk" => k \notin Knowledge
    /\ q.pc = "done" =>
         IF q.answer # 0 THEN q.slipped \/ k \in broken \/ q.answer >= q.since[k]
         ELSE q.since[k] # 0 => k \in Knowledge

\* A listing between its looks, about the keys that stand still.
ListInv(q) ==
    /\ q.pc \in {q.ask, "history", "files", "done"}
    /\ q.pc = "history" => q.ask = "brief"
    /\ q.pc = q.ask => q.rows = {}
    /\ q.pc = "done" => q.left = {}
    /\ \A k \in Keys : q.hits[k] <= written
    /\ \A k \in Keys \ (q.touched \union broken) :
         /\ k \in q.rows => tree[k] # 0
         /\ q.pc # q.ask => q.hits[k] = index[k]
         /\ q.pc # q.ask /\ tree[k] # 0 /\ (q.ask = "brief" \/ k \notin Knowledge) =>
              \/ k \in q.left \union q.rows
              \/ q.ask = "list" /\ k \notin q.looked /\ Cardinality(q.looked) = ListLimit
              \/ q.pc = "done" /\ LeftOut(q, k)
         /\ q.ask = "brief" /\ q.pc \in {"files", "done"} => q.past[k] = past[k]

\* A request knows which keys are written while it is answered; of the others,
\* and of those no write has failed for, the last version is the one it was
\* asked about, or a newer one.
ReaderInv(q) ==
    /\ w.pc # "idle" => w.key \in q.touched
    /\ \A k \in Keys : q.since[k] # 0 => past[k] # <<>>
    /\ \A k \in Keys \ broken : LastVersion(past[k]) >= q.since[k]
    /\ \A k \in Keys \ (q.touched \union broken) : LastVersion(past[k]) = q.since[k]
    /\ IF q.ask = "get" THEN GetInv(q) ELSE ListInv(q)

ReadsInv == Typed /\ WriterInv /\ \A r \in Readers : read[r].pc # "idle" => ReaderInv(read[r])

\* The histories of keys, as the invariants speak of them.
LEMMA ToldLemma ==
    ASSUME NEW p, Told(p)
    PROVE  /\ LastVersion(p) \in Nat /\ AtHead(p) \in {0, LastVersion(p)}
           /\ p # <<>> <=> LastVersion(p) # 0
           /\ AtHead(p) = 0 <=> p = <<>> \/ Last(p) = 0
           /\ 0 \in Range(p) => Archived(p) \in Nat \ {0}
           /\ 0 \in Range(p) /\ AtHead(p) = 0 => Archived(p) = LastVersion(p)
<1>1. CASE p = <<>>
  <2>1. 0 \notin Range(p)
    BY <1>1, ArchivedLemma
  <2> QED BY <1>1, <2>1, TellsNothing DEF AtHead
<1>2. CASE p # <<>>
  BY <1>2, LastVersionLemma, ArchivedLemma DEF AtHead
<1> QED BY <1>1, <1>2

\* A key that the write in hand is not about and no write has failed for stays
\* as it is.
LEMMA StillSettled ==
    ASSUME Typed, WriterInv, NEW k \in Keys, k \notin broken, ~Busy(k),
           tree'[k] = tree[k], k \in torn' <=> k \in torn, index'[k] = index[k], past'[k] = past[k],
           staged'[k] = <<>>, pending'[k] = <<>>,
           \/ written' = written /\ shut' = shut
           \/ written' = written + 1 /\ shut' \in {shut, shut \union {written + 1}}
    PROVE  staged'[k] = <<>> /\ pending'[k] = <<>> /\ LastVersion(past'[k]) <= written' /\ Settled(k)'
<1>1. /\ Settled(k) /\ LastVersion(past[k]) <= written
      /\ LastVersion(past[k]) \in Nat /\ tree[k] \in {0, LastVersion(past[k])}
  BY ToldLemma DEF WriterInv, Typed, Settled
<1>2. written \in Nat /\ written' \in Nat /\ written <= written'
  BY SMTT(30) DEF Typed
<1>3. LastVersion(past'[k]) <= written'
  BY <1>1, <1>2
<1>4. tree[k] \notin shut'
  BY <1>1, <1>2 DEF Settled
<1> QED BY <1>1, <1>3, <1>4 DEF Settled

\* What a commit does, whether or not it is answered.
LEMMA CommitLemma ==
    ASSUME Typed, WriterInv, Commit
    PROVE  /\ past' \in [Keys -> Seq(Nat)] /\ staged' = [k \in Keys |-> <<>>]
           /\ \A k \in Keys : Told(past'[k]) /\ (past[k] # <<>> => past'[k] # <<>>)
           /\ Committed \in Nat /\ past'[w.key] = With(past[w.key], Committed)
           /\ \A k \in Keys \ broken : k # w.key => past'[k] = past[k]
<1> DEFINE n == Committed
           P(k) == IF k = w.key THEN With(past[k], n)
                   ELSE IF staged[k] = <<>> THEN past[k] ELSE With(past[k], staged[k][1])
<1>1. past' = [k \in Keys |-> P(k)] /\ staged' = [k \in Keys |-> <<>>]
  BY DEF Commit
<1>2. n \in Nat /\ w.key \in Keys
  BY DEF Typed, Committed
<1> HIDE DEF n
<1>3. ASSUME NEW k \in Keys PROVE Told(P(k)) /\ (past[k] # <<>> => P(k) # <<>>)
  <2>1. Told(past[k]) /\ (staged[k] # <<>> => staged[k][1] \in Nat)
    BY SMTT(30) DEF Typed
  <2> QED BY <1>2, <2>1, WithLemma
<1>4. \A k \in Keys \ broken : k # w.key => P(k) = past[k]
  BY DEF WriterInv
<1>5. P(w.key) = With(past[w.key], n)
  OBVIOUS
<1> HIDE DEF P
<1>6. past' \in [Keys -> Seq(Nat)]
  BY <1>1, <1>3 DEF Told
<1> QED BY <1>1, <1>2, <1>3, <1>4, <1>5, <1>6 DEF n

\* What a write step leaves alone.
LEMMA WriteFrame ==
    ASSUME Typed, WriterInv, Write
    PROVE  /\ broken \subseteq broken'
           /\ \A k \in Keys \ broken' : ~Busy(k) =>
                tree'[k] = tree[k] /\ index'[k] = index[k] /\ past'[k] = past[k]
           /\ \A k \in Keys : past[k] # <<>> => past'[k] # <<>>
           /\ \A n \in Nat : n <= written => n <= written' /\ (n \in shut' <=> n \in shut)
<1>1. CASE \E k \in Keys : BeginRemove(k) \/ \E closing \in BOOLEAN : BeginWrite(k, closing)
  BY <1>1, SMTT(30) DEF Typed, BeginRemove, BeginWrite
<1>2. CASE TruncateFile \/ WriteFile \/ RemoveFile \/ FileFails \/ IndexFails
  BY <1>2 DEF Typed, Busy, TruncateFile, WriteFile, RemoveFile, FileFails, IndexFails
<1>3. CASE CommitFile \/ CommitFails
  <2>1. /\ UNCHANGED <<tree, index, shut, written>> /\ broken \subseteq broken' /\ w.pc # "idle"
        /\ Commit \/ past' = past
    BY <1>3 DEF CommitFile, CommitFails
  <2> QED BY <2>1, CommitLemma DEF Busy
<1>4. CASE IndexWrite
  <2>1. UNCHANGED <<tree, past, shut, written, broken>> /\ w.pc = "index"
    BY <1>4 DEF IndexWrite
  <2>2. \A k \in Keys \ broken : ~Busy(k) => index'[k] = index[k]
    BY <1>4, <2>1 DEF IndexWrite, WriterInv, Busy
  <2> QED BY <2>1, <2>2
<1> QED BY <1>1, <1>2, <1>3, <1>4 DEF Write

-----------------------------------------------------------------------------
(* Every step keeps what the writer promises.                               *)

WriterTyped ==
    /\ tree \in [Keys -> Nat] /\ torn \subseteq Keys
    /\ index \in [Keys -> Nat] /\ pending \in [Keys -> Seq(Nat)]
    /\ past \in [Keys -> Seq(Nat)] /\ staged \in [Keys -> Seq(Nat)]
    /\ written \in Nat /\ shut \subseteq 1 .. written /\ broken \subseteq Keys
    /\ w \in [pc : {"idle", "file", "fill", "commit", "index", "unlink", "removal"}, key : Keys, n : 0 .. written]
    /\ \A k \in Keys : Told(past[k])

LEMMA NoWriteTyped == NoWrite.key \in Keys /\ NoWrite = [pc |-> "idle", key |-> NoWrite.key, n |-> 0]
BY ReadsAssumption DEF NoWrite

LEMMA BeginWriter ==
    ASSUME Typed, WriterInv, NEW k \in Keys, NEW closing \in BOOLEAN, BeginWrite(k, closing)
    PROVE  WriterTyped' /\ WriterInv'
<1>1. /\ w.pc = "idle" /\ written' = written + 1 /\ k \notin torn /\ (closing => k \notin Knowledge)
      /\ shut' = IF closing THEN shut \union {written + 1} ELSE shut
      /\ w' = [pc |-> "file", key |-> k, n |-> written + 1]
      /\ UNCHANGED <<tree, torn, past, staged, index, pending, broken>>
  BY DEF BeginWrite
<1>2. WriterTyped'
  <2>1. written + 1 \in Nat /\ written + 1 \in 0 .. written + 1 /\ shut' \subseteq 1 .. written + 1
    BY <1>1 DEF Typed
  <2> QED BY <1>1, <2>1 DEF Typed, WriterTyped
<1>3. ASSUME NEW l \in Keys, l \notin broken
      PROVE  staged'[l] = <<>> /\ pending'[l] = <<>> /\ LastVersion(past'[l]) <= written' /\ Settled(l)'
  <2>1. ~Busy(l) /\ staged[l] = <<>> /\ pending[l] = <<>>
    BY <1>1, <1>3 DEF Busy, WriterInv
  <2> QED BY <1>1, <1>3, <2>1, StillSettled
<1>4. ASSUME k \notin broken PROVE InHand'
  <2>1. LastVersion(past[k]) <= written /\ LastVersion(past[k]) \in Nat /\ written \in Nat
    BY <1>4, ToldLemma DEF WriterInv, Typed
  <2>2. written + 1 > LastVersion(past[k])
    BY <2>1
  <2>3. written + 1 \in shut' => k \notin Knowledge
    BY <1>1, <2>1 DEF Typed
  <2>4. Settled(k)'
    BY <1>3, <1>4
  <2> QED BY <1>1, <2>2, <2>3, <2>4 DEF InHand
<1> QED BY <1>1, <1>2, <1>3, <1>4 DEF WriterInv

LEMMA RemoveWriter ==
    ASSUME Typed, WriterInv, NEW k \in Keys, BeginRemove(k)
    PROVE  WriterTyped' /\ WriterInv'
<1>1. /\ w.pc = "idle" /\ tree[k] # 0 /\ w' = [pc |-> "unlink", key |-> k, n |-> 0]
      /\ UNCHANGED <<tree, torn, past, staged, index, pending, shut, written, broken>>
  BY DEF BeginRemove, NoWrite
<1>2. WriterTyped'
  BY <1>1, SMTT(30) DEF Typed, WriterTyped
<1>3. ASSUME NEW l \in Keys, l \notin broken
      PROVE  staged'[l] = <<>> /\ pending'[l] = <<>> /\ LastVersion(past'[l]) <= written'
             /\ Settled(l) /\ Settled(l)'
  BY <1>1, <1>3 DEF Busy, WriterInv, Settled
<1>4. ASSUME k \notin broken PROVE InHand'
  BY <1>1, <1>3, <1>4 DEF InHand, Settled, Typed
<1> QED BY <1>1, <1>2, <1>3, <1>4 DEF WriterInv

LEMMA FileWriter ==
    ASSUME Typed, WriterInv, TruncateFile \/ WriteFile \/ RemoveFile
    PROVE  WriterTyped' /\ WriterInv'
<1>1. PICK s \in {"fill", "commit", "removal"} :
        /\ w.pc = (IF s = "fill" THEN "file" ELSE IF s = "commit" THEN "fill" ELSE "unlink")
        /\ tree' = [tree EXCEPT ![w.key] = IF s = "commit" THEN w.n ELSE 0]
        /\ torn' = (IF s = "fill" THEN torn \union {w.key} ELSE IF s = "commit" THEN torn \ {w.key} ELSE torn)
        /\ w' = [w EXCEPT !.pc = s]
        /\ UNCHANGED <<past, staged, index, pending, shut, written, broken>>
  BY DEF TruncateFile, WriteFile, RemoveFile
<1>2. /\ w.key \in Keys /\ w.n \in Nat /\ w'.key = w.key /\ w'.n = w.n /\ w'.pc = s
      /\ w' \in [pc : {"fill", "commit", "removal"}, key : Keys, n : 0 .. written]
  <2>1. w.key \in Keys /\ w.n \in 0 .. written /\ w.n \in Nat
    BY DEF Typed
  <2>2. w' = [pc |-> s, key |-> w.key, n |-> w.n]
    BY <1>1 DEF Typed
  <2> QED BY <2>1, <2>2
<1>3. WriterTyped'
  BY <1>1, <1>2 DEF Typed, WriterTyped
<1>4. ASSUME NEW l \in Keys, l \notin broken
      PROVE  /\ staged'[l] = <<>> /\ pending'[l] = <<>> /\ LastVersion(past'[l]) <= written'
             /\ l # w.key => Settled(l)'
  BY <1>1, <1>4 DEF Busy, WriterInv, Settled, Typed
<1>5. ASSUME w.key \notin broken PROVE InHand'
  <2>1. InHand
    BY <1>1, <1>5 DEF WriterInv
  <2>2. tree'[w.key] = (IF s = "commit" THEN w.n ELSE 0) /\ (w.key \in torn' <=> s = "fill")
    BY <1>1, <1>2, <2>1 DEF Typed, InHand, Settled
  <2> QED BY <1>1, <1>2, <2>1, <2>2 DEF InHand
<1> QED BY <1>1, <1>2, <1>3, <1>4, <1>5 DEF WriterInv, Busy

LEMMA CommitWriter ==
    ASSUME Typed, WriterInv, CommitFile
    PROVE  WriterTyped' /\ WriterInv'
<1>0. PICK k \in Keys, n \in Nat : k = w.key /\ n = Committed
  BY DEF Typed, Committed
<1>1. /\ w.pc \in {"commit", "removal"} /\ n = (IF w.pc = "commit" THEN w.n ELSE 0)
      /\ past' \in [Keys -> Seq(Nat)] /\ staged' = [l \in Keys |-> <<>>]
      /\ past'[k] = With(past[k], n) /\ \A l \in Keys \ broken : l # k => past'[l] = past[l]
      /\ w' = IF w.pc = "commit" \/ k \in Knowledge THEN [w EXCEPT !.pc = "index"] ELSE NoWrite
      /\ UNCHANGED <<tree, torn, index, pending, shut, written, broken>>
  BY <1>0, CommitLemma DEF CommitFile, Committed
<1>2. w.n \in 0 .. written /\ w.n \in Nat /\ written \in Nat /\ 0 \in 0 .. written
  BY DEF Typed
<1>5. w' \in [pc : {"idle", "index"}, key : Keys, n : 0 .. written]
  <2>1. NoWrite \in [pc : {"idle", "index"}, key : Keys, n : 0 .. written]
    BY <1>2, NoWriteTyped
  <2>2. [w EXCEPT !.pc = "index"] \in [pc : {"idle", "index"}, key : Keys, n : 0 .. written]
    BY DEF Typed
  <2> QED BY <1>1, <2>1, <2>2
<1>6. WriterTyped'
  <2>1. \A l \in Keys : Told(past'[l])
    BY CommitLemma DEF CommitFile
  <2>2. staged' \in [Keys -> Seq(Nat)]
    BY <1>1
  <2> QED BY <1>1, <1>5, <2>1, <2>2 DEF Typed, WriterTyped
<1>7. ASSUME NEW l \in Keys, l \notin broken, l # k
      PROVE  staged'[l] = <<>> /\ pending'[l] = <<>> /\ LastVersion(past'[l]) <= written' /\ Settled(l)'
  <2>1. staged'[l] = <<>> /\ pending[l] = <<>> /\ ~Busy(l)
    BY <1>0, <1>1, <1>7 DEF WriterInv, Busy
  <2>2. past'[l] = past[l]
    BY <1>1, <1>7
  <2> QED BY <1>1, <1>7, <2>1, <2>2, StillSettled
<1>8. ASSUME k \notin broken
      PROVE  /\ LastVersion(past'[k]) <= written'
             /\ w'.pc = "idle" => Settled(k)'
             /\ w'.pc # "idle" => InHand'
  <2> DEFINE q == past'[k]
  <2>1. InHand /\ LastVersion(past[k]) <= written /\ Told(past[k])
    BY <1>0, <1>1, <1>8 DEF WriterInv, Typed
  <2>2. q = With(past[k], n) /\ k \notin torn
    BY <1>0, <1>1, <2>1 DEF InHand
  <2>3. CASE w.pc = "commit"
    <3>1. n = w.n /\ n > LastVersion(past[k]) /\ tree[k] = n /\ n # 0
      BY <1>0, <1>1, <1>2, <2>1, <2>3, ToldLemma DEF InHand
    <3>2. AtHead(q) = n /\ LastVersion(q) = n
      BY <1>2, <2>1, <2>2, <3>1, WithLemma
    <3>3. w'.pc = "index" /\ w'.key = k /\ w'.n = n
      BY <1>0, <1>1, <2>3, <3>1 DEF Typed
    <3>4. n \in shut => k \notin Knowledge
      BY <1>0, <2>1, <3>1 DEF InHand
    <3>5. InHand'
      BY <1>1, <2>2, <3>1, <3>2, <3>3, <3>4 DEF InHand
    <3> QED BY <1>1, <1>2, <3>1, <3>2, <3>3, <3>5
  <2>4. CASE w.pc = "removal"
    <3>1. tree[k] = 0 /\ AtHead(past[k]) # 0 /\ n = 0
      BY <1>0, <1>1, <2>1, <2>4 DEF InHand
    <3>2. AtHead(q) = 0 /\ LastVersion(q) = LastVersion(past[k])
      BY <1>2, <2>1, <2>2, <3>1, WithLemma
    <3>3. CASE k \in Knowledge
      <4>1. w'.pc = "index" /\ w'.key = k /\ w'.n = w.n
        BY <1>0, <1>1, <2>4, <3>3 DEF Typed
      <4>2. w.n = 0 /\ 0 \notin shut
        BY <1>0, <2>1, <2>4, <3>3 DEF InHand, Typed
      <4>3. InHand'
        BY <1>1, <2>2, <3>1, <3>2, <3>3, <4>1, <4>2 DEF InHand
      <4> QED BY <1>1, <2>1, <3>2, <4>1, <4>3
    <3>4. CASE k \notin Knowledge
      <4>1. w'.pc = "idle"
        BY <1>1, <2>4, <3>4, NoWriteTyped
      <4>2. index[k] = LastVersion(past[k]) /\ 0 \notin shut
        BY <1>0, <2>1, <2>4, <3>4 DEF InHand, Typed
      <4>3. Settled(k)'
        BY <1>1, <2>2, <3>1, <3>2, <3>4, <4>2 DEF Settled
      <4> QED BY <1>1, <2>1, <3>2, <4>1, <4>3
    <3> QED BY <3>3, <3>4
  <2> QED BY <1>1, <2>3, <2>4
<1>9. w'.pc = "idle" \/ w'.key = k
  BY <1>0, <1>1, NoWriteTyped DEF Typed
<1>10. WriterInv'
  <2>1. \A l \in Keys : staged'[l] = <<>>
    BY <1>1
  <2>2. k \notin broken => pending'[k] = <<>>
    BY <1>1 DEF WriterInv
  <2> QED BY <1>1, <1>2, <1>7, <1>8, <1>9, <2>1, <2>2 DEF WriterInv, Busy
<1> QED BY <1>6, <1>10

LEMMA FailsWriter ==
    ASSUME Typed, WriterInv, FileFails \/ CommitFails \/ IndexFails
    PROVE  WriterTyped' /\ WriterInv'
<1>1. /\ w' = NoWrite /\ broken' = broken \union {w.key} /\ w.key \in Keys /\ w.pc # "idle"
      /\ UNCHANGED <<tree, torn, index, shut, written>>
  BY DEF Typed, FileFails, CommitFails, IndexFails
<1>2. /\ past' \in [Keys -> Seq(Nat)] /\ \A l \in Keys : Told(past'[l])
      /\ \A l \in Keys \ broken' : past'[l] = past[l]
  BY <1>1, CommitLemma DEF Typed, FileFails, CommitFails, IndexFails
<1>3. /\ staged' \in [Keys -> Seq(Nat)]
      /\ \A l \in Keys \ broken' : staged'[l] = <<>>
  <2>1. CASE staged' = [staged EXCEPT ![w.key] = <<Committed>>]
    <3>1. <<Committed>> \in Seq(Nat)
      BY DEF Committed, Typed
    <3> QED BY <1>1, <2>1, <3>1 DEF Typed, WriterInv
  <2>2. CASE Commit
    <3>1. staged' = [l \in Keys |-> <<>>]
      BY <2>2, CommitLemma
    <3> QED BY <3>1
  <2>3. CASE staged' = staged
    BY <1>1, <2>3 DEF Typed, WriterInv
  <2> QED BY <2>1, <2>2, <2>3 DEF FileFails, CommitFails, IndexFails
<1>4. /\ pending' \in [Keys -> Seq(Nat)]
      /\ \A l \in Keys \ broken' : pending'[l] = <<>>
  <2>1. CASE \E n \in {0, w.n} : pending' = [pending EXCEPT ![w.key] = <<n>>]
    <3>1. PICK n \in {0, w.n} : pending' = [pending EXCEPT ![w.key] = <<n>>]
      BY <2>1
    <3>2. n \in Nat
      BY DEF Typed
    <3>3. <<n>> \in Seq(Nat)
      BY <3>2
    <3> QED BY <1>1, <3>1, <3>3 DEF Typed, WriterInv
  <2>2. CASE pending' = pending
    BY <1>1, <2>2 DEF Typed, WriterInv
  <2> QED BY <2>1, <2>2 DEF FileFails, CommitFails, IndexFails
<1>5. WriterTyped'
  BY <1>1, <1>2, <1>3, <1>4, NoWriteTyped, SMTT(90) DEF Typed, WriterTyped
<1>6. ASSUME NEW l \in Keys, l \notin broken'
      PROVE  LastVersion(past'[l]) <= written' /\ Settled(l)'
  <2>1. Settled(l) /\ LastVersion(past[l]) <= written
    BY <1>1, <1>6 DEF Busy, WriterInv
  <2> QED BY <1>1, <1>2, <1>6, <2>1 DEF Settled
<1> QED BY <1>1, <1>3, <1>4, <1>5, <1>6, NoWriteTyped DEF WriterInv

LEMMA IndexWriter ==
    ASSUME Typed, WriterInv, IndexWrite
    PROVE  WriterTyped' /\ WriterInv'
<1>0. PICK k \in Keys : k = w.key
  BY DEF Typed
<1> DEFINE I(l) == IF l = k THEN w.n ELSE IF pending[l] = <<>> THEN index[l] ELSE pending[l][1]
<1>1. /\ w.pc = "index" /\ index' = [l \in Keys |-> I(l)] /\ pending' = [l \in Keys |-> <<>>]
      /\ w' = IF w.n \in shut THEN [w EXCEPT !.pc = "unlink"] ELSE NoWrite
      /\ UNCHANGED <<tree, torn, past, staged, shut, written, broken>>
  BY <1>0 DEF IndexWrite
<1>2. w.n \in 0 .. written /\ w.n \in Nat /\ 0 \in 0 .. written
  BY DEF Typed
<1>3. WriterTyped'
  <2>1. w' \in [pc : {"idle", "unlink"}, key : Keys, n : 0 .. written]
    <3>1. NoWrite \in [pc : {"idle", "unlink"}, key : Keys, n : 0 .. written]
      BY <1>2, NoWriteTyped
    <3>2. [w EXCEPT !.pc = "unlink"] \in [pc : {"idle", "unlink"}, key : Keys, n : 0 .. written]
      BY DEF Typed
    <3> QED BY <1>1, <3>1, <3>2
  <2>2. ASSUME NEW l \in Keys PROVE I(l) \in Nat
    BY <1>2, SMTT(90) DEF Typed
  <2> HIDE DEF I
  <2>3. index' \in [Keys -> Nat] /\ pending' \in [Keys -> Seq(Nat)]
    BY <1>1, <2>2
  <2> QED BY <1>1, <2>1, <2>3 DEF Typed, WriterTyped
<1>4. ASSUME NEW l \in Keys, l \notin broken
      PROVE  /\ staged'[l] = <<>> /\ pending'[l] = <<>> /\ LastVersion(past'[l]) <= written'
             /\ l # k => Settled(l)'
  <2>1. l # k => index'[l] = index[l] /\ Settled(l)
    BY <1>0, <1>1, <1>4 DEF Busy, WriterInv
  <2> QED BY <1>1, <1>4, <2>1 DEF WriterInv, Settled
<1>5. ASSUME k \notin broken
      PROVE  /\ w.n \notin shut => Settled(k)'
             /\ w.n \in shut => InHand'
  <2>1. InHand /\ Told(past[k])
    BY <1>0, <1>1, <1>2, <1>5 DEF WriterInv, Typed
  <2>2. tree[k] = w.n /\ AtHead(past[k]) = w.n /\ k \notin torn /\ (w.n = 0 => k \in Knowledge)
    BY <1>0, <1>1, <2>1 DEF InHand
  <2>3. index'[k] = w.n
    BY <1>1, <1>2
  <2>4. w.n # 0 => LastVersion(past[k]) = w.n
    BY <2>1, <2>2, ToldLemma
  <2>5. ASSUME w.n \notin shut PROVE Settled(k)'
    BY <1>1, <2>2, <2>3, <2>4, <2>5 DEF Settled
  <2>6. ASSUME w.n \in shut PROVE InHand'
    <3>1. w'.pc = "unlink" /\ w'.key = k /\ w'.n = w.n
      BY <1>0, <1>1, <2>6 DEF Typed
    <3>2. w.n # 0 /\ k \notin Knowledge
      BY <1>0, <2>1, <2>6 DEF Typed, InHand
    <3> QED BY <1>1, <2>2, <2>3, <2>4, <2>6, <3>1, <3>2 DEF InHand
  <2> QED BY <2>5, <2>6
<1>6. IF w.n \in shut THEN w'.pc = "unlink" /\ w'.key = k ELSE w'.pc = "idle"
  BY <1>0, <1>1, NoWriteTyped DEF Typed
<1>7. WriterInv'
  BY <1>1, <1>2, <1>4, <1>5, <1>6 DEF WriterInv, Busy
<1> QED BY <1>3, <1>7

\* The index gets no version that was not written.
LEMMA WriteNumbered ==
    ASSUME Typed, Write
    PROVE  Numbered'
<1>1. w.n \in Nat /\ w.n <= written /\ 0 <= written /\ written \in Nat /\ w.key \in Keys
  BY DEF Typed
<1>2. CASE UNCHANGED <<index, pending>>
  <2>1. written' = written \/ written' = written + 1
    BY <1>2 DEF Write, BeginRemove, BeginWrite, TruncateFile, WriteFile, RemoveFile, FileFails,
                CommitFile, CommitFails, IndexWrite, IndexFails
  <2>2. written <= written' /\ written' \in Nat /\ \A k \in Keys : index[k] \in Nat
    BY <1>1, <2>1 DEF Typed
  <2>3. \A k \in Keys : pending[k] # <<>> => pending[k][1] \in Nat
    BY SMTT(30) DEF Typed
  <2>4. \A k \in Keys : index[k] <= written /\ (pending[k] # <<>> => pending[k][1] <= written)
    BY DEF Typed, Numbered
  <2>5. \A n \in Nat : n <= written => n <= written'
    BY <1>1, <2>2
  <2> QED BY <1>2, <2>2, <2>3, <2>4, <2>5 DEF Numbered
<1>3. CASE IndexWrite
  <2> SUFFICES ASSUME NEW k \in Keys PROVE index'[k] <= written' /\ pending'[k] = <<>>
    BY DEF Numbered
  <2>1. written' = written /\ pending'[k] = <<>>
        /\ index'[k] = IF k = w.key THEN w.n ELSE IF pending[k] = <<>> THEN index[k] ELSE pending[k][1]
    BY <1>3 DEF IndexWrite
  <2> QED BY <1>1, <2>1 DEF Typed, Numbered
<1>4. CASE IndexFails
  <2>1. UNCHANGED <<index, written>>
    BY <1>4 DEF IndexFails
  <2>2. CASE pending' = pending
    BY <1>2, <2>1, <2>2
  <2>3. CASE \E n \in {0, w.n} : pending' = [pending EXCEPT ![w.key] = <<n>>]
    <3>1. PICK n \in {0, w.n} : pending' = [pending EXCEPT ![w.key] = <<n>>]
      BY <2>3
    <3>2. \A k \in Keys : pending'[k] = pending[k] \/ pending'[k] = <<n>>
      BY <3>1 DEF Typed
    <3>3. n <= written /\ <<n>>[1] = n
      BY <1>1
    <3> QED BY <2>1, <3>2, <3>3 DEF Typed, Numbered
  <2> QED BY <1>4, <2>2, <2>3 DEF IndexFails
<1> QED BY <1>2, <1>3, <1>4 DEF Write, BeginRemove, BeginWrite, TruncateFile, WriteFile, RemoveFile,
                                FileFails, CommitFile, CommitFails

LEMMA WriteWriter ==
    ASSUME Typed, WriterInv, Write
    PROVE  WriterTyped' /\ WriterInv' /\ Numbered'
BY BeginWriter, RemoveWriter, FileWriter, CommitWriter, FailsWriter, IndexWriter, WriteNumbered DEF Write

-----------------------------------------------------------------------------
(* What a write step does to the keys a reader asks about *)

\* The last version of a key only ever gets newer, and what its newest removal
\* took away changes with the next removal only.
LEMMA HistoryFrame ==
    ASSUME Typed, WriterInv, Write, NEW k \in Keys, k \notin broken'
    PROVE  /\ LastVersion(past'[k]) >= LastVersion(past[k])
           /\ w.pc = "removal" /\ w.key = k => Archived(past'[k]) = LastVersion(past[k])
           /\ ~(w.pc = "removal" /\ w.key = k) /\ 0 \in Range(past'[k]) =>
                0 \in Range(past[k]) /\ Archived(past'[k]) = Archived(past[k])
<1>1. /\ k \notin broken /\ Told(past[k]) /\ LastVersion(past[k]) \in Nat
  BY WriteFrame, ToldLemma DEF Typed
<1>2. CASE ~Busy(k)
  BY <1>1, <1>2, WriteFrame DEF Busy
<1>3. CASE Busy(k) /\ CommitFile
  <2>1. PICK n \in Nat : n = IF w.pc = "commit" THEN w.n ELSE 0
    BY DEF Typed
  <2>2. past'[k] = With(past[k], n) /\ w.key = k /\ w.pc \in {"commit", "removal"}
    BY <1>3, <2>1, CommitLemma DEF CommitFile, Committed, Busy
  <2>3. InHand
    BY <1>1, <1>3 DEF WriterInv, Busy
  <2>4. CASE w.pc = "commit"
    BY <1>1, <2>1, <2>2, <2>3, <2>4, WithLemma DEF InHand
  <2>5. CASE w.pc = "removal"
    <3>1. past[k] # <<>> /\ n = 0
      BY <2>1, <2>2, <2>3, <2>5, TellsNothing DEF InHand
    <3> QED BY <1>1, <2>2, <2>5, <3>1, WithLemma
  <2> QED BY <2>2, <2>4, <2>5
<1>4. CASE Busy(k) /\ ~CommitFile
  <2>1. ~(FileFails \/ CommitFails \/ IndexFails)
    BY <1>4 DEF FileFails, CommitFails, IndexFails, Busy
  <2>2. past' = past /\ w.pc # "removal"
    BY <1>4, <2>1 DEF Write, BeginRemove, BeginWrite, TruncateFile, WriteFile, RemoveFile, IndexWrite, Busy
  <2> QED BY <1>1, <2>2
<1> QED BY <1>2, <1>3, <1>4

LEMMA TreeFrame ==
    ASSUME Typed, Write, NEW k \in Keys, ~Busy(k)
    PROVE  tree'[k] = tree[k]
BY DEF Typed, Write, BeginRemove, BeginWrite, TruncateFile, WriteFile, RemoveFile, FileFails,
       CommitFile, CommitFails, IndexWrite, IndexFails, Busy

\* A request that is told of the write keeps what it may rely on.
LEMMA WriteReader ==
    ASSUME Typed, WriterInv, Write, NEW q \in Requests, ReaderInv(q),
           NEW T \in SUBSET Keys, q.touched \subseteq T, w'.pc # "idle" => w'.key \in T
    PROVE  ReaderInv([q EXCEPT !.touched = T])'
<1> DEFINE v == [q EXCEPT !.touched = T]
<1>1. /\ v.touched = T /\ v.pc = q.pc /\ v.ask = q.ask /\ v.key = q.key /\ v.hits = q.hits
      /\ v.past = q.past /\ v.left = q.left /\ v.rows = q.rows /\ v.answer = q.answer
      /\ v.since = q.since /\ v.slipped = q.slipped /\ v.looked = q.looked
  BY DEF Requests
<1>2. /\ broken \subseteq broken' /\ q.key \in Keys /\ q.since \in [Keys -> Nat]
      /\ \A k \in Keys : k \notin q.touched => ~Busy(k)
  BY WriteFrame DEF ReaderInv, Busy, Requests
<1> HIDE DEF v
<1>3. \A k \in Keys : q.since[k] # 0 => past'[k] # <<>>
  BY WriteFrame DEF ReaderInv
<1>4. \A k \in Keys \ broken' : LastVersion(past'[k]) >= q.since[k]
  <2> SUFFICES ASSUME NEW k \in Keys, k \notin broken' PROVE LastVersion(past'[k]) >= q.since[k]
    OBVIOUS
  <2>1. LastVersion(past'[k]) >= LastVersion(past[k]) /\ LastVersion(past[k]) >= q.since[k]
    BY <1>2, HistoryFrame DEF ReaderInv
  <2>2. LastVersion(past'[k]) \in Nat /\ LastVersion(past[k]) \in Nat /\ q.since[k] \in Nat
    BY <1>2, WriteWriter, ToldLemma DEF WriterTyped, Typed
  <2> QED BY <2>1, <2>2
<1>5. \A k \in Keys \ (T \union broken') :
        k \notin broken /\ k \notin q.touched
        /\ tree'[k] = tree[k] /\ index'[k] = index[k] /\ past'[k] = past[k]
  BY <1>2, WriteFrame
<1>6. \A k \in Keys \ (T \union broken') : LastVersion(past'[k]) = q.since[k]
  BY <1>5 DEF ReaderInv
<1>7. ASSUME q.ask = "get" PROVE GetInv(v)'
  <2>1. GetInv(q)
    BY <1>7 DEF ReaderInv
  <2>2. q.key \in T \/ tree'[q.key] = tree[q.key]
    BY <1>2, TreeFrame
  <2>3. ASSUME q.pc = "archived", q.key \notin broken', 0 \in Range(past'[q.key])
        PROVE  Archived(past'[q.key]) >= q.since[q.key]
    BY <1>2, <2>1, <2>3, HistoryFrame DEF GetInv, ReaderInv
  <2> QED BY <1>1, <1>2, <2>1, <2>2, <2>3 DEF GetInv
<1>8. ASSUME q.ask # "get" PROVE ListInv(v)'
  <2>1. ListInv(q)
    BY <1>8 DEF ReaderInv
  <2>2. \A k \in Keys : q.hits[k] \in Nat /\ q.hits[k] <= written
    BY <2>1 DEF ListInv, Requests
  <2>3. \A k \in Keys : q.hits[k] <= written' /\ (q.hits[k] \in shut' <=> q.hits[k] \in shut)
    BY <2>2, WriteFrame
  <2>4. ASSUME NEW k \in Keys, LeftOut(q, k) PROVE LeftOut(v, k)'
    <3>1. q.rows \subseteq Keys
      BY DEF Requests
    <3> QED BY <1>1, <2>3, <2>4, <3>1 DEF LeftOut
  <2> QED BY <1>1, <1>5, <2>1, <2>3, <2>4 DEF ListInv
<1>9. ReaderInv(v)'
  BY <1>1, <1>3, <1>4, <1>6, <1>7, <1>8 DEF ReaderInv
<1> QED BY <1>9 DEF v

LEMMA WriteReads ==
    ASSUME ReadsInv, Write
    PROVE  ReadsInv'
<1>1. Typed /\ WriterInv
  BY DEF ReadsInv
<1>2. WriterTyped' /\ WriterInv' /\ Numbered'
  BY <1>1, WriteWriter
<1>3. PICK K \in SUBSET Keys :
        /\ read' = [r \in Readers |-> IF read[r].pc = "idle" THEN read[r]
                                      ELSE [read[r] EXCEPT !.touched = @ \union K]]
        /\ w'.pc = "idle" \/ w'.key \in K \/ (w.pc # "idle" /\ w'.key = w.key)
  <2>1. CASE \E k \in Keys : BeginRemove(k) \/ \E closing \in BOOLEAN : BeginWrite(k, closing)
    <3>1. PICK k \in Keys : BeginRemove(k) \/ \E closing \in BOOLEAN : BeginWrite(k, closing)
      BY <2>1
    <3>3. Touch(k) /\ w'.key = k
      <4>1. CASE BeginRemove(k)
        BY <4>1 DEF BeginRemove, NoWrite
      <4>2. CASE \E closing \in BOOLEAN : BeginWrite(k, closing)
        BY <4>2 DEF BeginWrite
      <4> QED BY <3>1, <4>1, <4>2
    <3>2. {k} \in SUBSET Keys /\ w'.key \in {k}
      BY <3>3, SMTT(30)
    <3> QED BY <3>2, <3>3 DEF Touch
  <2>2. CASE \/ TruncateFile \/ WriteFile \/ RemoveFile \/ FileFails
             \/ CommitFile \/ CommitFails \/ IndexWrite \/ IndexFails
    <3>1. read' = read /\ w.pc # "idle"
      BY <2>2 DEF TruncateFile, WriteFile, RemoveFile, FileFails, CommitFile, CommitFails, IndexWrite, IndexFails
    <3>2. w'.pc = "idle" \/ w'.key = w.key
      BY <1>1, <2>2, NoWriteTyped
         DEF Typed, TruncateFile, WriteFile, RemoveFile, FileFails, CommitFile, CommitFails, IndexWrite, IndexFails
    <3>3. PICK K \in SUBSET Keys : K = {}
      OBVIOUS
    <3>4. \A r \in Readers : [read[r] EXCEPT !.touched = @ \union K] = read[r]
      BY <1>1, <3>3 DEF Typed, Requests
    <3>5. read' = [r \in Readers |-> IF read[r].pc = "idle" THEN read[r]
                                    ELSE [read[r] EXCEPT !.touched = @ \union K]]
      BY <1>1, <3>1, <3>4 DEF Typed
    <3> QED BY <3>1, <3>2, <3>5
  <2> QED BY <2>1, <2>2 DEF Write
<1>4. ASSUME NEW r \in Readers
      PROVE  read'[r] \in Requests /\ (read[r].pc # "idle" => ReaderInv(read[r]))'
  <2>1. PICK q \in Requests : q = read[r]
    BY <1>1 DEF Typed
  <2>2. CASE q.pc = "idle"
    <3>1. read'[r] = q
      BY <1>3, <2>1, <2>2
    <3> QED BY <2>2, <3>1
  <2>3. CASE q.pc # "idle"
    <3> DEFINE T == q.touched \union K
    <3>1. read'[r] = [q EXCEPT !.touched = T]
      BY <1>3, <2>1, <2>3
    <3>2. T \in SUBSET Keys
      BY DEF Requests
    <3>3. [q EXCEPT !.touched = T] \in Requests
      BY <3>2 DEF Requests
    <3>4. ReaderInv(q)
      BY <2>1, <2>3 DEF ReadsInv
    <3>5. q.touched \subseteq T /\ (w'.pc # "idle" => w'.key \in T)
      BY <1>3, <3>4 DEF ReaderInv
    <3> HIDE DEF T
    <3>6. ReaderInv([q EXCEPT !.touched = T])'
      BY <1>1, <3>2, <3>4, <3>5, WriteReader
    <3>7. PICK v : v = [q EXCEPT !.touched = T]
      OBVIOUS
    <3>8. ReaderInv(v)'
      BY <3>6, <3>7
    <3>9. read'[r] = v
      BY <3>1, <3>7
    <3>10. ReaderInv(read[r])'
      BY <3>8, <3>9 DEF ReaderInv, GetInv, ListInv, LeftOut
    <3> QED BY <3>3, <3>7, <3>9, <3>10
  <2> QED BY <2>2, <2>3
<1>5. read' \in [Readers -> Requests]
  BY <1>3, <1>4
<1> QED BY <1>2, <1>4, <1>5 DEF ReadsInv, Typed, WriterTyped

-----------------------------------------------------------------------------
(* The steps of a request *)

\* What the looks of a request have to establish.
LEMMA ReadReads ==
    ASSUME ReadsInv, UNCHANGED writerVars, NEW r \in Readers, NEW v \in Requests,
           read' = [read EXCEPT ![r] = v], v.pc # "idle" => ReaderInv(v)
    PROVE  ReadsInv'
<1>1. Typed' /\ WriterInv'
  BY SMTT(30) DEF ReadsInv, Typed, Numbered, WriterInv, writerVars, Busy, Settled, InHand
<1>2. ASSUME NEW s \in Readers
      PROVE  (read[s].pc # "idle" => ReaderInv(read[s]))'
  <2>1. PICK u : u = read'[s]
    OBVIOUS
  <2>2. u = v \/ u = read[s]
    BY <2>1 DEF ReadsInv, Typed
  <2>3. u.pc # "idle" => ReaderInv(u)
    BY <2>2 DEF ReadsInv
  <2>4. u.pc # "idle" => ReaderInv(u)'
    BY <2>3 DEF ReaderInv, GetInv, ListInv, LeftOut, writerVars
  <2> QED BY <2>1, <2>4 DEF ReaderInv, GetInv, ListInv, LeftOut
<1> QED BY <1>1, <1>2 DEF ReadsInv

\* The file of a key is never older than its last version, ...
LEMMA FileIsNewest ==
    ASSUME Typed, WriterInv, NEW k \in Keys, k \notin broken, tree[k] # 0
    PROVE  tree[k] >= LastVersion(past[k])
<1>1. /\ Told(past[k]) /\ LastVersion(past[k]) \in Nat /\ tree[k] \in Nat
      /\ AtHead(past[k]) \in {0, LastVersion(past[k])}
  BY ToldLemma DEF Typed
<1>2. CASE ~Busy(k)
  BY <1>1, <1>2 DEF WriterInv, Settled
<1>3. CASE Busy(k)
  <2>1. InHand /\ w.key = k /\ w.pc \in {"file", "fill", "commit", "index", "unlink", "removal"}
    BY <1>3 DEF WriterInv, Busy, Typed
  <2>2. CASE w.pc = "commit"
    BY <1>1, <2>1, <2>2 DEF InHand
  <2>3. CASE w.pc # "commit"
    <3>1. tree[k] = AtHead(past[k]) /\ w.pc # "fill"
      BY <2>1, <2>3 DEF InHand, Settled
    <3> QED BY <1>1, <3>1
  <2> QED BY <2>2, <2>3
<1> QED BY <1>2, <1>3

\* ... and where there is no file the newest removal has the last version, or
\* is still to be committed.
LEMMA RemovalIsNewest ==
    ASSUME Typed, WriterInv, NEW k \in Keys, k \notin broken, tree[k] = 0, k \notin torn
    PROVE  \/ 0 \in Range(past[k]) => Archived(past[k]) = LastVersion(past[k])
           \/ w.pc = "removal" /\ w.key = k
<1>1. Told(past[k])
  BY DEF Typed
<1>2. CASE ~Busy(k)
  BY <1>1, <1>2, ToldLemma DEF WriterInv, Settled
<1>3. CASE Busy(k)
  <2>1. InHand /\ w.key = k /\ w.pc \in {"file", "fill", "commit", "index", "unlink", "removal"}
    BY <1>3 DEF WriterInv, Busy, Typed
  <2>2. CASE w.pc = "commit"
    BY <1>1, <2>1, <2>2, ToldLemma DEF InHand
  <2>3. CASE w.pc \in {"file", "index", "unlink"}
    <3>1. AtHead(past[k]) = 0
      BY <2>1, <2>3 DEF InHand, Settled
    <3> QED BY <1>1, <3>1, ToldLemma
  <2>4. w.pc # "fill"
    BY <2>1 DEF InHand
  <2> QED BY <2>1, <2>2, <2>3, <2>4
<1> QED BY <1>2, <1>3

LEMMA AskReads ==
    ASSUME ReadsInv, NEW r \in Readers, NEW question \in {"get", "list", "brief"},
           NEW k \in Keys, Ask(r, question, k)
    PROVE  ReadsInv'
<1>1. PICK since, T :
        /\ since = [j \in Keys |-> LastVersion(past[j])]
        /\ T = IF w.pc = "idle" THEN {} ELSE {w.key}
  OBVIOUS
<1>2. PICK v : v = [NoRead EXCEPT !.pc = question, !.ask = question, !.key = k,
                                  !.since = since, !.touched = T]
  OBVIOUS
<1>3. \A j \in Keys : Told(past[j]) /\ LastVersion(past[j]) \in Nat
  BY ToldLemma DEF ReadsInv, Typed
<1>4. since \in [Keys -> Nat] /\ T \in SUBSET Keys
  BY <1>1, <1>3 DEF ReadsInv, Typed
<1>5. /\ v.pc = question /\ v.ask = question /\ v.since = since /\ v.touched = T
      /\ v.rows = {} /\ v.answer = 0 /\ v.hits = [j \in Keys |-> 0] /\ v \in Requests
  <2>1. [j \in Keys |-> 0] \in [Keys -> Nat] /\ [j \in Keys |-> <<>>] \in [Keys -> Seq(Nat)]
    OBVIOUS
  <2>2. v = [pc |-> question, ask |-> question, key |-> k, hits |-> [j \in Keys |-> 0],
             past |-> [j \in Keys |-> <<>>], left |-> {}, rows |-> {}, answer |-> 0,
             since |-> since, touched |-> T, slipped |-> FALSE, looked |-> {}]
    BY <1>2 DEF NoRead
  <2>3. question \in {"get", "list", "brief"}
    OBVIOUS
  <2>4. v \in Requests
    BY <1>4, <2>1, <2>2, <2>3 DEF Requests
  <2> QED BY <2>2, <2>4
<1>6. \A j \in Keys : since[j] = LastVersion(past[j]) /\ (since[j] # 0 => past[j] # <<>>)
  BY <1>1, <1>3, ToldLemma
<1>7. ReaderInv(v)
  <2>1. \A j \in Keys : v.hits[j] <= written
    BY <1>5 DEF ReadsInv, Typed
  <2> QED BY <1>1, <1>3, <1>4, <1>5, <1>6, <2>1 DEF ReaderInv, GetInv, ListInv
<1>8. read' = [read EXCEPT ![r] = v] /\ UNCHANGED writerVars
  BY <1>1, <1>2 DEF Ask
<1> QED BY <1>5, <1>7, <1>8, ReadReads

\* Gets

LEMMA GetFileReads ==
    ASSUME ReadsInv, NEW r \in Readers, GetFile(r)
    PROVE  ReadsInv'
<1>1. PICK q \in Requests : q = read[r]
  BY DEF ReadsInv, Typed
<1>2. q.pc = "get" /\ ReaderInv(q)
  BY <1>1 DEF GetFile, ReadsInv
<1>3. q.ask = "get" /\ GetInv(q)
  BY <1>2 DEF ReaderInv, ListInv, Requests
<1>4. PICK k \in Keys : k = q.key
  BY DEF Requests
<1>5. PICK s \in {"open", "archived"} : s = IF tree[k] # 0 \/ k \in torn THEN "open" ELSE "archived"
  OBVIOUS
<1>6. PICK v : v = [q EXCEPT !.pc = s]
  OBVIOUS
<1>7. read' = [read EXCEPT ![r] = v] /\ UNCHANGED writerVars
  BY <1>1, <1>4, <1>5, <1>6 DEF GetFile
<1>8. /\ v.pc = s /\ v.answer = 0 /\ v.ask = "get" /\ v.key = k /\ v.since = q.since
      /\ v.touched = q.touched /\ v \in Requests
  BY <1>2, <1>3, <1>4, <1>6 DEF Requests, GetInv
<1>9. ASSUME s = "open" PROVE tree[k] # 0 \/ k \in q.touched \union broken
  <2>1. ASSUME k \notin broken, k \notin q.touched PROVE k \notin torn
    <3>1. ~Busy(k)
      BY <1>2, <2>1 DEF ReaderInv, Busy
    <3> QED BY <2>1, <3>1 DEF ReadsInv, WriterInv, Settled
  <2> QED BY <1>5, <1>9, <2>1
<1>10. ASSUME s = "archived", k \notin broken
       PROVE  \/ 0 \in Range(past[k]) => Archived(past[k]) >= q.since[k]
              \/ w.pc = "removal" /\ w.key = k
  <2>1. LastVersion(past[k]) >= q.since[k]
    BY <1>2, <1>10 DEF ReaderInv
  <2>2. tree[k] = 0 /\ k \notin torn
    BY <1>5, <1>10
  <2> QED BY <1>10, <2>1, <2>2, RemovalIsNewest DEF ReadsInv
<1>11. GetInv(v)
  BY <1>5, <1>8, <1>9, <1>10 DEF GetInv
<1>12. ReaderInv(v)
  BY <1>2, <1>8, <1>11 DEF ReaderInv
<1> QED BY <1>7, <1>8, <1>12, ReadReads

LEMMA OpenFileReads ==
    ASSUME ReadsInv, NEW r \in Readers, OpenFile(r)
    PROVE  ReadsInv'
<1>1. PICK q \in Requests : q = read[r]
  BY DEF ReadsInv, Typed
<1>2. q.pc = "open" /\ ReaderInv(q)
  BY <1>1 DEF OpenFile, ReadsInv
<1>3. q.ask = "get" /\ GetInv(q)
  BY <1>2 DEF ReaderInv, ListInv, Requests
<1>4. PICK k \in Keys : k = q.key
  BY DEF Requests
<1>5. PICK s \in {"done", "error"}, a \in Nat : s = (IF tree[k] # 0 THEN "done" ELSE "error") /\ a = tree[k]
  BY DEF ReadsInv, Typed
<1>6. PICK v : v = [q EXCEPT !.pc = s, !.answer = a]
  OBVIOUS
<1>7. read' = [read EXCEPT ![r] = v] /\ UNCHANGED writerVars
  BY <1>1, <1>4, <1>5, <1>6 DEF OpenFile
<1>8. /\ v.pc = s /\ v.answer = a /\ v.ask = "get" /\ v.key = k /\ v.since = q.since
      /\ v.touched = q.touched /\ v \in Requests
  BY <1>3, <1>4, <1>6 DEF Requests
<1>9. ASSUME k \notin broken, a # 0 PROVE a >= q.since[k]
  <2>1. LastVersion(past[k]) >= q.since[k]
    BY <1>2, <1>9 DEF ReaderInv
  <2>2. LastVersion(past[k]) \in Nat /\ q.since[k] \in Nat
    BY ToldLemma DEF ReadsInv, Typed, Requests
  <2>3. a >= LastVersion(past[k])
    BY <1>5, <1>9, FileIsNewest DEF ReadsInv
  <2> QED BY <2>1, <2>2, <2>3
<1>10. a = 0 => k \in q.touched \union broken
  BY <1>2, <1>3, <1>4, <1>5 DEF GetInv
<1>11. GetInv(v)
  BY <1>5, <1>8, <1>9, <1>10 DEF GetInv
<1>12. ReaderInv(v)
  BY <1>2, <1>8, <1>11 DEF ReaderInv
<1> QED BY <1>7, <1>8, <1>12, ReadReads

LEMMA GetArchivedReads ==
    ASSUME ReadsInv, NEW r \in Readers, GetArchived(r)
    PROVE  ReadsInv'
<1>1. PICK q \in Requests : q = read[r]
  BY DEF ReadsInv, Typed
<1>2. q.pc = "archived" /\ ReaderInv(q)
  BY <1>1 DEF GetArchived, ReadsInv
<1>3. q.ask = "get" /\ GetInv(q)
  BY <1>2 DEF ReaderInv, ListInv, Requests
<1>4. PICK k \in Keys : k = q.key
  BY DEF Requests
<1>5. PICK found, a, slipped :
        /\ found = (k \in Knowledge \/ 0 \in Range(past[k]))
        /\ a = (IF k \notin Knowledge /\ 0 \in Range(past[k]) THEN Archived(past[k]) ELSE 0)
        /\ slipped = (tree[k] = 0 /\ k \notin torn /\ past[k] # <<>> /\ Last(past[k]) # 0)
  OBVIOUS
<1>6. PICK v : v = [q EXCEPT !.pc = IF found THEN "done" ELSE "walk", !.answer = a, !.slipped = slipped]
  BY SMTT(30)
<1>7. read' = [read EXCEPT ![r] = v] /\ UNCHANGED writerVars
  BY <1>1, <1>4, <1>5, <1>6 DEF GetArchived
<1>8. Told(past[k]) /\ a \in Nat /\ (k \notin Knowledge /\ 0 \in Range(past[k]) => a # 0)
  BY <1>5, ToldLemma DEF ReadsInv, Typed
<1>9. /\ v.pc = (IF found THEN "done" ELSE "walk") /\ v.answer = a /\ v.ask = "get"
      /\ v.key = k /\ v.since = q.since /\ v.touched = q.touched /\ v.slipped = slipped
      /\ v \in Requests
  BY <1>3, <1>4, <1>5, <1>6, <1>8, ZenonT(60) DEF Requests
<1>10. ASSUME a # 0, k \notin broken, ~slipped
       PROVE  a >= q.since[k]
  <2>1. 0 \in Range(past[k]) /\ a = Archived(past[k])
    BY <1>5, <1>10
  <2>2. ~(w.pc = "removal" /\ w.key = k)
    BY <1>5, <1>8, <1>10, ToldLemma DEF ReadsInv, WriterInv, InHand
  <2> QED BY <1>2, <1>3, <1>4, <1>10, <2>1, <2>2 DEF GetInv
<1>11. GetInv(v)
  <2>1. a = 0 => k \in q.touched \/ tree[k] = 0
    BY <1>2, <1>3, <1>4 DEF GetInv
  <2>2. found /\ a = 0 => k \in Knowledge
    BY <1>5, <1>8
  <2>3. ~found => a = 0 /\ k \notin Knowledge
    BY <1>5
  <2> QED BY <1>9, <1>10, <2>1, <2>2, <2>3 DEF GetInv
<1>12. ReaderInv(v)
  BY <1>2, <1>9, <1>11 DEF ReaderInv
<1> QED BY <1>7, <1>9, <1>12, ReadReads

LEMMA GetLatestReads ==
    ASSUME ReadsInv, NEW r \in Readers, GetLatest(r)
    PROVE  ReadsInv'
<1>1. PICK q \in Requests : q = read[r]
  BY DEF ReadsInv, Typed
<1>2. q.pc = "walk" /\ ReaderInv(q)
  BY <1>1 DEF GetLatest, ReadsInv
<1>3. q.ask = "get" /\ GetInv(q)
  BY <1>2 DEF ReaderInv, ListInv, Requests
<1>4. PICK k \in Keys : k = q.key
  BY DEF Requests
<1>5. PICK a : a = LastVersion(past[k])
  OBVIOUS
<1>6. PICK v : v = [q EXCEPT !.pc = "done", !.answer = a]
  OBVIOUS
<1>7. read' = [read EXCEPT ![r] = v] /\ UNCHANGED writerVars
  BY <1>1, <1>4, <1>5, <1>6 DEF GetLatest
<1>8. a \in Nat /\ (past[k] # <<>> => a # 0)
  BY <1>5, ToldLemma DEF ReadsInv, Typed
<1>9. /\ v.pc = "done" /\ v.answer = a /\ v.ask = "get"
      /\ v.key = k /\ v.since = q.since /\ v.touched = q.touched /\ v \in Requests
  BY <1>3, <1>4, <1>6, <1>8 DEF Requests
<1>10. GetInv(v)
  <2>1. k \notin broken => a >= q.since[k]
    BY <1>2, <1>4, <1>5 DEF ReaderInv
  <2>2. k \in q.touched \/ tree[k] = 0
    BY <1>2, <1>3, <1>4 DEF GetInv
  <2>3. a = 0 => q.since[k] = 0
    BY <1>2, <1>5, <1>8 DEF ReaderInv
  <2> QED BY <1>9, <2>1, <2>2, <2>3 DEF GetInv
<1>11. ReaderInv(v)
  BY <1>2, <1>9, <1>10 DEF ReaderInv
<1> QED BY <1>7, <1>9, <1>11, ReadReads

\* Listings

LEMMA SearchReads ==
    ASSUME ReadsInv, NEW r \in Readers, Search(r)
    PROVE  ReadsInv'
<1>1. PICK q \in Requests : q = read[r]
  BY DEF ReadsInv, Typed
<1>2. q.pc \in {"list", "brief"} /\ ReaderInv(q)
  BY <1>1 DEF Search, ReadsInv
<1>3. q.ask = q.pc /\ ListInv(q)
  BY <1>2, SMTT(30) DEF ReaderInv, GetInv, ListInv, Requests
<1>4. PICK heads \in Hits(q.ask) :
        /\ UNCHANGED writerVars
        /\ read' = [read EXCEPT ![r].pc = IF @ = "list" THEN "files" ELSE "history",
                                ![r].hits = index, ![r].left = heads, ![r].looked = heads]
  BY <1>1 DEF Search
<1>6. PICK v : v = [q EXCEPT !.pc = IF q.pc = "list" THEN "files" ELSE "history",
                             !.hits = index, !.left = heads, !.looked = heads]
  OBVIOUS
<1>7. read' = [read EXCEPT ![r] = v]
  <2>1. q \in Requests /\ read \in [Readers -> Requests]
    BY DEF ReadsInv, Typed
  <2>2. read' = [read EXCEPT ![r] = [read[r] EXCEPT !.pc = IF @ = "list" THEN "files" ELSE "history",
                                                    !.hits = index, !.left = heads, !.looked = heads]]
    BY <1>4, <2>1, Zenon
  <2> QED BY <1>1, <1>6, <2>2
<1>8. /\ heads \subseteq Keys
      /\ q.ask = "brief" => heads = {k \in Keys : index[k] # 0}
      /\ q.ask = "list" => \/ heads = {k \in Keys \ Knowledge : index[k] # 0}
                           \/ Cardinality(heads) = ListLimit
  BY <1>3, <1>4 DEF Hits
<1>9. /\ v.pc = (IF q.pc = "list" THEN "files" ELSE "history") /\ v.ask = q.ask
      /\ v.hits = index /\ v.left = heads /\ v.rows = q.rows /\ v.looked = heads
      /\ v.since = q.since /\ v.touched = q.touched /\ v \in Requests
  BY <1>2, <1>6, <1>8, ZenonT(60) DEF Requests, ReadsInv, Typed
<1>10. \A k \in Keys \ (q.touched \union broken) : tree[k] # 0 => index[k] # 0
  <2> SUFFICES ASSUME NEW k \in Keys, k \notin q.touched, k \notin broken, tree[k] # 0
               PROVE  index[k] # 0
    OBVIOUS
  <2>1. ~Busy(k)
    BY <1>2 DEF ReaderInv, Busy
  <2>2. Settled(k) /\ Told(past[k])
    BY <2>1 DEF ReadsInv, WriterInv, Typed
  <2> QED BY <2>2, ToldLemma DEF Settled
<1>11. ListInv(v)
  <2>1. q.rows = {} /\ v.pc # v.ask /\ v.pc # "done"
    BY <1>2, <1>3, <1>9 DEF ListInv
  <2>2. v.pc = "history" => v.ask = "brief"
    BY <1>2, <1>3, <1>9
  <2>3. \A k \in Keys : v.hits[k] <= written
    BY <1>9 DEF ReadsInv, Typed, Numbered
  <2>4. v.ask = "brief" => v.pc = "history"
    BY <1>2, <1>3, <1>9
  <2>5. \A k \in Keys \ (q.touched \union broken) :
          tree[k] # 0 /\ (q.ask = "brief" \/ k \notin Knowledge) =>
            k \in heads \/ (q.ask = "list" /\ k \notin heads /\ Cardinality(heads) = ListLimit)
    BY <1>2, <1>3, <1>8, <1>10
  <2> QED BY <1>9, <2>1, <2>2, <2>3, <2>4, <2>5 DEF ListInv
<1>12. v.ask # "get"
  BY <1>2, <1>3, <1>9
<1>13. ReaderInv(v)
  BY <1>2, <1>9, <1>11, <1>12 DEF ReaderInv
<1> QED BY <1>4, <1>7, <1>9, <1>13, ReadReads

LEMMA ReadHistoryReads ==
    ASSUME ReadsInv, NEW r \in Readers, ReadHistory(r)
    PROVE  ReadsInv'
<1>1. PICK q \in Requests : q = read[r]
  BY DEF ReadsInv, Typed
<1>2. q.pc = "history" /\ ReaderInv(q)
  BY <1>1 DEF ReadHistory, ReadsInv
<1>3. q.ask = "brief" /\ ListInv(q)
  BY <1>2 DEF ReaderInv, GetInv, ListInv
<1>4. PICK v : v = [q EXCEPT !.pc = "files", !.past = past]
  OBVIOUS
<1>5. read' = [read EXCEPT ![r] = v] /\ UNCHANGED writerVars
  BY <1>1, <1>4 DEF ReadHistory
<1>6. /\ v.pc = "files" /\ v.ask = "brief" /\ v.past = past
      /\ v.hits = q.hits /\ v.left = q.left /\ v.rows = q.rows /\ v.looked = q.looked
      /\ v.since = q.since /\ v.touched = q.touched /\ v \in Requests
  BY <1>3, <1>4 DEF Requests, ReadsInv, Typed
<1>7. ReaderInv(v)
  BY <1>2, <1>3, <1>6 DEF ReaderInv, ListInv
<1> QED BY <1>5, <1>6, <1>7, ReadReads

LEMMA CheckFileReads ==
    ASSUME ReadsInv, NEW r \in Readers, CheckFile(r)
    PROVE  ReadsInv'
<1>1. PICK q \in Requests : q = read[r]
  BY DEF ReadsInv, Typed
<1>2. q.pc = "files" /\ ReaderInv(q)
  BY <1>1 DEF CheckFile, ReadsInv
<1>3. q.ask # "get" /\ ListInv(q)
  BY <1>2 DEF ReaderInv, GetInv
<1>4. PICK k \in q.left :
        /\ UNCHANGED writerVars
        /\ read' = [read EXCEPT ![r].left = @ \ {k},
                                ![r].rows = IF tree[k] # 0 THEN @ \union {k} ELSE @]
  BY <1>1 DEF CheckFile, IsLive
<1>5. PICK rows \in SUBSET Keys : rows = IF tree[k] # 0 THEN q.rows \union {k} ELSE q.rows
  BY DEF Requests
<1>6. PICK v : v = [q EXCEPT !.left = q.left \ {k}, !.rows = rows]
  OBVIOUS
<1>7. read' = [read EXCEPT ![r] = v]
  BY <1>1, <1>4, <1>5, <1>6
<1>8. /\ v.pc = "files" /\ v.ask = q.ask /\ v.past = q.past
      /\ v.hits = q.hits /\ v.left = q.left \ {k} /\ v.rows = rows /\ v.looked = q.looked
      /\ v.since = q.since /\ v.touched = q.touched /\ v \in Requests
  BY <1>2, <1>6 DEF Requests
<1>9. ListInv(v)
  <2>1. q.hits \in [Keys -> Nat] /\ rows = IF tree[k] # 0 THEN q.rows \union {k} ELSE q.rows
    BY <1>5 DEF Requests
  <2>2. \A l \in Keys : v.hits[l] <= written
    BY <1>3, <1>8 DEF ListInv
  <2>3. ASSUME NEW l \in Keys \ (q.touched \union broken)
        PROVE  /\ l \in rows => tree[l] # 0
               /\ q.hits[l] = index[l]
               /\ tree[l] # 0 /\ (q.ask = "brief" \/ l \notin Knowledge) =>
                    \/ l \in (q.left \ {k}) \union rows
                    \/ q.ask = "list" /\ l \notin q.looked /\ Cardinality(q.looked) = ListLimit
               /\ q.ask = "brief" => q.past[l] = past[l]
    <3>1. q.pc # q.ask
      BY <1>2 DEF Requests
    <3> QED BY <1>2, <1>3, <2>1, <3>1, Zenon DEF ListInv
  <2>4. v.pc # v.ask /\ v.pc \notin {"history", "done"}
    BY <1>2, <1>8 DEF Requests
  <2> QED BY <1>2, <1>8, <2>2, <2>3, <2>4, ZenonT(60) DEF ListInv
<1>10. ReaderInv(v)
  BY <1>2, <1>3, <1>8, <1>9 DEF ReaderInv
<1> QED BY <1>4, <1>7, <1>8, <1>10, ReadReads

LEMMA ListedReads ==
    ASSUME ReadsInv, NEW r \in Readers, Listed(r)
    PROVE  ReadsInv'
<1>1. PICK q \in Requests : q = read[r]
  BY DEF ReadsInv, Typed
<1>2. q.pc = "files" /\ q.left = {} /\ ReaderInv(q)
  BY <1>1 DEF Listed, ReadsInv
<1>3. q.ask # "get" /\ ListInv(q)
  BY <1>2 DEF ReaderInv, GetInv
<1>4. PICK rows \in SUBSET q.rows :
        /\ \/ rows = q.rows
           \/ /\ q.ask = "list" /\ Cardinality(rows) = PageLimit
              /\ \A j \in rows, k \in q.rows \ rows : q.hits[j] \in shut => q.hits[k] \in shut
        /\ read' = [read EXCEPT ![r].pc = "done", ![r].rows = rows]
        /\ UNCHANGED writerVars
  <2>1. PICK rows \in IF q.ask = "list" THEN Cut(q.rows, q.hits) ELSE {q.rows} :
          read' = [read EXCEPT ![r].pc = "done", ![r].rows = rows] /\ UNCHANGED writerVars
    BY <1>1 DEF Listed
  <2> QED BY <2>1 DEF Cut
<1>5. PICK v : v = [q EXCEPT !.pc = "done", !.rows = rows]
  OBVIOUS
<1>6. read' = [read EXCEPT ![r] = v]
  BY <1>1, <1>4, <1>5
<1>7. /\ v.pc = "done" /\ v.ask = q.ask /\ v.past = q.past
      /\ v.hits = q.hits /\ v.left = q.left /\ v.rows = rows /\ v.looked = q.looked
      /\ v.since = q.since /\ v.touched = q.touched /\ v \in Requests
  <2>1. rows \in SUBSET Keys
    BY DEF Requests
  <2> QED BY <1>5, <2>1 DEF Requests
<1>8. ASSUME NEW k \in Keys \ (q.touched \union broken), k \in q.rows \ rows
      PROVE  LeftOut(v, k)
  <2>1. ~Busy(k)
    BY <1>2 DEF ReaderInv, Busy
  <2>2. Settled(k) /\ Told(past[k]) /\ tree[k] # 0 /\ q.hits[k] = index[k]
    BY <1>2, <1>3, <1>8, <2>1 DEF ReadsInv, WriterInv, Typed, ListInv
  <2>3. q.hits[k] \notin shut
    BY <2>2, ToldLemma DEF Settled
  <2> QED BY <1>4, <1>7, <1>8, <2>3 DEF LeftOut
<1>9. ListInv(v)
  <2>1. /\ \A l \in Keys : v.hits[l] <= written
        /\ v.pc # v.ask /\ v.pc = "done" /\ v.left = {} /\ rows \subseteq q.rows /\ q.pc # q.ask
    BY <1>2, <1>3, <1>4, <1>7 DEF ListInv, Requests
  <2>2. ASSUME NEW l \in Keys \ (q.touched \union broken)
        PROVE  /\ l \in rows => tree[l] # 0
               /\ q.hits[l] = index[l]
               /\ tree[l] # 0 /\ (q.ask = "brief" \/ l \notin Knowledge) =>
                    \/ l \in rows
                    \/ q.ask = "list" /\ l \notin q.looked /\ Cardinality(q.looked) = ListLimit
                    \/ LeftOut(v, l)
               /\ q.ask = "brief" => q.past[l] = past[l]
    BY <1>2, <1>3, <1>8, <2>1, Zenon DEF ListInv
  <2> QED BY <1>7, <2>1, <2>2, ZenonT(60) DEF ListInv
<1>10. ReaderInv(v)
  BY <1>2, <1>3, <1>7, <1>9 DEF ReaderInv
<1> QED BY <1>4, <1>6, <1>7, <1>10, ReadReads

-----------------------------------------------------------------------------
(* The invariant, and what follows from it *)

LEMMA NoReadTyped == NoRead \in Requests /\ NoRead.pc = "idle"
<1>1. [j \in Keys |-> 0] \in [Keys -> Nat] /\ [j \in Keys |-> <<>>] \in [Keys -> Seq(Nat)]
  OBVIOUS
<1>2. NoWrite.key \in Keys
  BY NoWriteTyped
<1> QED BY <1>1, <1>2 DEF NoRead, Requests

LEMMA AnsweredReads ==
    ASSUME ReadsInv, NEW r \in Readers, Answered(r)
    PROVE  ReadsInv'
<1>1. PICK v : v = NoRead
  OBVIOUS
<1> QED BY <1>1, NoReadTyped, ReadReads DEF Answered

LEMMA ReadsInit == Init => ReadsInv
<1> SUFFICES ASSUME Init PROVE ReadsInv
  OBVIOUS
<1>1. \A k \in Keys : /\ past[k] = <<>> /\ staged[k] = <<>> /\ pending[k] = <<>>
                      /\ tree[k] = 0 /\ index[k] = 0 /\ k \notin torn
                      /\ Told(past[k]) /\ LastVersion(past[k]) = 0 /\ AtHead(past[k]) = 0
  BY TellsNothing DEF Init
<1>2. /\ tree \in [Keys -> Nat] /\ index \in [Keys -> Nat] /\ past \in [Keys -> Seq(Nat)]
      /\ staged \in [Keys -> Seq(Nat)] /\ pending \in [Keys -> Seq(Nat)] /\ torn = {}
      /\ written = 0 /\ shut = {} /\ broken = {}
  BY DEF Init
<1>3. w.pc = "idle" /\ w \in [pc : {"idle"}, key : Keys, n : {0}]
  BY NoWriteTyped DEF Init, NoWrite
<1>4. read \in [Readers -> Requests] /\ \A r \in Readers : read[r].pc = "idle"
  BY NoReadTyped DEF Init
<1>5. Typed
  BY <1>1, <1>2, <1>3, <1>4 DEF Typed, Numbered
<1>6. WriterInv
  BY <1>1, <1>2, <1>3 DEF WriterInv, Settled
<1> QED BY <1>4, <1>5, <1>6 DEF ReadsInv

LEMMA ReadsStep == ReadsInv /\ [Next]_vars => ReadsInv'
<1> SUFFICES ASSUME ReadsInv, [Next]_vars PROVE ReadsInv'
  OBVIOUS
<1>1. CASE Write
  BY <1>1, WriteReads
<1>2. ASSUME NEW r \in Readers, Read(r) PROVE ReadsInv'
  <2>1. CASE \E k \in Keys : Ask(r, "get", k)
    BY <2>1, AskReads
  <2>2. CASE \E q \in {"list", "brief"} : Ask(r, q, NoWrite.key)
    BY <2>2, AskReads, NoWriteTyped
  <2> QED
    BY <1>2, <2>1, <2>2, GetFileReads, OpenFileReads, GetArchivedReads, GetLatestReads, SearchReads,
       ReadHistoryReads, CheckFileReads, ListedReads, AnsweredReads DEF Read
<1>3. CASE UNCHANGED vars
  <2>1. Typed' /\ WriterInv'
    BY <1>3 DEF ReadsInv, Typed, Numbered, WriterInv, vars, writerVars, Busy, Settled, InHand
  <2>2. ASSUME NEW s \in Readers PROVE (read[s].pc # "idle" => ReaderInv(read[s]))'
    BY <1>3 DEF ReadsInv, ReaderInv, GetInv, ListInv, LeftOut, vars, writerVars
  <2> QED BY <2>1, <2>2 DEF ReadsInv
<1> QED BY <1>1, <1>2, <1>3 DEF Next

LEMMA ReadsInvariant == Spec => []ReadsInv
BY ReadsInit, ReadsStep, PTL DEF Spec

\* A get is answered with the version current when it was asked or a newer one,
\* whatever was written, closed, reopened or removed meanwhile, but where the
\* file was gone and its removal not committed, or a write has failed; it finds
\* nothing only of knowledge that is gone or is being changed, and it is an
\* error only of an entry whose file was written or removed meanwhile, or whose
\* write has failed (main.rs get_one, archived_version, latest_version; store.rs
\* get).
THEOREM GetsAreCurrent == Spec => []GetIsCurrent
<1>1. ReadsInv => GetIsCurrent
  <2> SUFFICES ASSUME ReadsInv, NEW r \in Readers, NEW q, q = read[r], q.ask = "get"
               PROVE  /\ q.pc = "error" => q.key \in q.touched \union broken
                      /\ q.pc = "done" =>
                           IF q.answer # 0
                           THEN q.slipped \/ q.key \in broken \/ q.answer >= q.since[q.key]
                           ELSE q.since[q.key] # 0 =>
                                  q.key \in Knowledge /\ (q.key \in q.touched \/ tree[q.key] = 0)
    BY DEF GetIsCurrent
  <2> QED BY DEF ReadsInv, ReaderInv, GetInv
<1> QED BY <1>1, ReadsInvariant, PTL

\* A listing and a brief show of whatever nobody changed meanwhile exactly what
\* is there, wherever the looks at the index, the history and the files fall
\* between the steps of the writes (main.rs list_kind, open_items, brief).
THEOREM ListingsSettle == Spec => []ListingIsSettled
<1>1. ReadsInv => ListingIsSettled
  <2> SUFFICES ASSUME ReadsInv, NEW r \in Readers, NEW q, q = read[r], q.pc = "done", q.ask # "get",
                      NEW k \in Keys \ (q.touched \union broken),
                      q.ask = "list" => k \notin Knowledge
               PROVE  /\ k \in q.rows => tree[k] # 0 /\ q.hits[k] = q.since[k]
                      /\ tree[k] # 0 => k \in q.rows \/ LeftOut(q, k)
                      /\ q.ask = "brief" => (k \in Live(q) <=> k \notin Knowledge /\ tree[k] # 0)
                      /\ q.ask = "brief" /\ k \in Knowledge =>
                           /\ k \in Changed(q) <=> tree[k] # 0
                           /\ k \in Retracted(q) <=> tree[k] = 0 /\ q.since[k] # 0
    BY DEF ListingIsSettled
  <2>1. q \in Requests /\ q.ask \in {"list", "brief"}
    BY DEF ReadsInv, Typed, Requests
  <2>2. ReaderInv(q) /\ ListInv(q)
    BY DEF ReadsInv, ReaderInv
  <2>3. Settled(k) /\ Told(past[k]) /\ LastVersion(past[k]) = q.since[k]
    BY <2>2 DEF ReaderInv, ReadsInv, WriterInv, Typed, Busy
  <2>4. /\ q.hits[k] = index[k] /\ (k \in q.rows => tree[k] # 0)
        /\ tree[k] # 0 => k \in q.rows \/ LeftOut(q, k)
        /\ q.ask = "brief" => q.past[k] = past[k] /\ ~LeftOut(q, k)
    BY <2>1, <2>2 DEF ListInv, LeftOut
  <2>5. /\ tree[k] # 0 => index[k] = tree[k] /\ index[k] = q.since[k] /\ index[k] \notin shut
        /\ k \in Knowledge => (index[k] # 0 <=> tree[k] # 0)
        /\ past[k] # <<>> /\ Last(past[k]) = 0 <=> tree[k] = 0 /\ q.since[k] # 0
    BY <2>3, ToldLemma DEF Settled
  <2> QED BY <2>4, <2>5 DEF Live, Changed, Retracted
<1> QED BY <1>1, ReadsInvariant, PTL

-----------------------------------------------------------------------------
(* Days *)

LEMMA DaysLemma ==
    ASSUME NEW t \in Int, NEW u \in Int, t <= u, NEW D \in Nat \ {0}
    PROVE  t \div D \in Int /\ u \div D \in Int /\ t \div D <= u \div D
OBVIOUS

\* The date in a zone is that of UTC or its neighbour.
LEMMA ZoneLemma ==
    ASSUME NEW t \in Int, NEW z \in Zones
    PROVE  /\ A!DateIn(t, z) \in Int /\ A!DateIn(t, 0) \in Int
           /\ A!DateIn(t, z) - A!DateIn(t, 0) \in -1 .. 1
           /\ A!DateIn(t, z) <= A!DateIn(t + 1, z)
           /\ A!DateIn(t + 1, z) \in Int
<1>1. DayLen \in Nat \ {0} /\ z \in Int /\ z >= -DayLen /\ z <= DayLen
  BY RulesAssumption DEF A!AgendaAssumption
<1>2. (t + z) \div DayLen \in Int /\ (t + 1 + z) \div DayLen \in Int /\ (t + z) \div DayLen <= (t + 1 + z) \div DayLen
  BY <1>1, DaysLemma
<1>3. (t - DayLen) \div DayLen <= (t + z) \div DayLen /\ (t + z) \div DayLen <= (t + DayLen) \div DayLen
  BY <1>1, DaysLemma
<1>4. t \div DayLen \in Int
  BY <1>1
<1>5. (t + DayLen) \div DayLen = (t \div DayLen) + 1
  BY <1>1
<1>6. (t - DayLen) \div DayLen = (t \div DayLen) - 1
  BY <1>1
<1>7. t + 0 = t
  OBVIOUS
<1> DEFINE d == t \div DayLen
           e == (t + z) \div DayLen
<1>8. d \in Int /\ e \in Int /\ d - 1 <= e /\ e <= d + 1
  BY <1>2, <1>3, <1>4, <1>5, <1>6
<1>9. A!DateIn(t, z) = e /\ A!DateIn(t, 0) = d
  BY <1>7 DEF A!DateIn
<1> HIDE DEF d, e
<1>10. e - d \in -1 .. 1
  BY <1>8
<1> QED BY <1>2, <1>8, <1>9, <1>10 DEF A!DateIn

-----------------------------------------------------------------------------
(* Deadlines and their items *)

Deadlines == [due : Whens \union {None}, expected : Whens \union {None}, hard : BOOLEAN,
              remind : Nat \union {None}, event : BOOLEAN]

\* A deadline that is kept is well formed, and has a date or nothing at all.
Dated(d) ==
    /\ d \in Deadlines
    /\ d.due = None /\ d.expected = None => d = A!NoDeadline

AgendaInv ==
    /\ now \in Nat
    /\ tasks = [k \in DatedKeys |-> tasks[k]]
    /\ \A k \in DatedKeys : tasks[k] \in [live : BOOLEAN, deadline : Deadlines] /\ Dated(tasks[k].deadline)

LEMMA NoDeadlineLemma == Dated(A!NoDeadline)
BY DEF Dated, Deadlines, A!NoDeadline

LEMMA WhenLemma ==
    ASSUME NEW when \in Whens
    PROVE  A!DayOf(when) \in Int /\ (when.kind = "at" => when.at \in Int)
<1>1. when \in [kind : {"day", "at"}, at : Nat, zone : Zones \union {0}]
  BY RulesAssumption DEF A!AgendaAssumption
<1>2. when.at \in Nat /\ when.zone \in Int
  BY <1>1, RulesAssumption DEF A!AgendaAssumption
<1>3. (when.at + when.zone) \div DayLen \in Int
  BY <1>2, RulesAssumption DEF A!AgendaAssumption
<1> QED BY <1>2, <1>3 DEF A!DayOf, A!DateIn

\* An item, and how it goes with the date of its task.
LEMMA ItemLemma ==
    ASSUME AgendaInv, NEW c, c.today \in Int, NEW i \in A!Items(c)
    PROVE  /\ i.key \in DatedKeys /\ i = A!Item(i.key, c) /\ tasks[i.key].live
           /\ A!Effective(tasks[i.key].deadline) \in Whens
           /\ i.key \in Nat /\ i.overdue \in BOOLEAN /\ i.hard \in BOOLEAN
           /\ i.days \in Int /\ i.remind \in Nat
           /\ i.overdue = A!Overdue(A!Effective(tasks[i.key].deadline), c)
           /\ i.overdue => i.days <= 0
           /\ ~i.overdue => i.days >= 0
<1>1. PICK k \in DatedKeys : tasks[k].live /\ A!Effective(tasks[k].deadline) # None /\ i = A!Item(k, c)
  BY DEF A!Items
<1> DEFINE d == tasks[k].deadline
           when == A!Effective(d)
           late == A!Overdue(when, c)
           days == A!DayOf(when) - c.today
<1>2. d \in Deadlines
  BY DEF AgendaInv, Dated
<1>3. when \in Whens
  BY <1>1, <1>2 DEF A!Effective, Deadlines
<1>4. A!DayOf(when) \in Int /\ days \in Int
  BY <1>3, WhenLemma
<1>5. late \in BOOLEAN
  BY DEF A!Overdue
<1>6. d.hard \in BOOLEAN /\ A!Remind(d) \in Nat
  BY <1>2, RulesAssumption DEF A!Remind, Deadlines, A!AgendaAssumption
<1>7. i = [key |-> k, overdue |-> late, hard |-> d.hard, provisional |-> A!Provisional(d),
           event |-> A!Provisional(d) /\ d.event, remind |-> A!Remind(d),
           days |-> IF late /\ days > 0 THEN 0 ELSE days]
  BY <1>1 DEF A!Item
<1>8. i.key = k /\ i.overdue = late /\ i.hard = d.hard /\ i.remind = A!Remind(d)
      /\ i.days = IF late /\ days > 0 THEN 0 ELSE days
  BY <1>7
<1>9. days < 0 => late
  BY <1>4 DEF A!Overdue
<1>10. k \in Nat
  BY RulesAssumption DEF A!AgendaAssumption
<1> HIDE DEF late, days, d, when
<1>11. i.days \in Int /\ (i.overdue => i.days <= 0) /\ (~i.overdue => i.days >= 0)
  BY <1>4, <1>8, <1>9
<1> QED BY <1>1, <1>3, <1>5, <1>6, <1>8, <1>10, <1>11 DEF d, when, late

LEMMA PassedLemma == AgendaInv => A!PassedIsLate
<1> SUFFICES ASSUME AgendaInv, NEW z \in Zones, NEW i \in A!Items(A!Here(z))
             PROVE  LET when == A!Effective(tasks[i.key].deadline)
                    IN /\ when.kind = "at" /\ now > when.at => i.overdue
                       /\ i.overdue => i.days <= 0
                       /\ i.days < 0 => i.overdue
  BY DEF A!PassedIsLate
<1> DEFINE c == A!Here(z)
<1>1. c.now = now /\ c.today = A!DateIn(now, z) /\ now \in Int
  BY DEF A!Here, A!Clock, AgendaInv
<1>2. c.today \in Int /\ A!Present(c)
  BY <1>1, ZoneLemma DEF A!Present
<1> HIDE DEF c
<1>3. i \in A!Items(c)
  BY DEF c
<1>4. A!Effective(tasks[i.key].deadline).kind = "at" /\ now > A!Effective(tasks[i.key].deadline).at => i.overdue
  BY <1>1, <1>2, <1>3, ItemLemma DEF A!Overdue
<1>5. (i.overdue => i.days <= 0) /\ (i.days < 0 => i.overdue)
  BY <1>2, <1>3, ItemLemma
<1> QED BY <1>4, <1>5

-----------------------------------------------------------------------------
(* The block: late tasks first *)

LEMMA LateFirst ==
    ASSUME NEW a, NEW b, NEW scoped, a.overdue \in BOOLEAN, b.overdue \in BOOLEAN
    PROVE  /\ a.overdue /\ ~b.overdue => A!Precedes(a, b, scoped)
           /\ ~a.overdue /\ b.overdue => ~A!Precedes(a, b, scoped)
BY DEF A!Precedes

LEMMA Counted == ASSUME NEW S PROVE A!Cardinality(S) = Cardinality(S)
BY DEF A!Cardinality, Cardinality, A!IsFiniteSet, IsFiniteSet

LEMMA Finitely == ASSUME NEW S PROVE A!IsFiniteSet(S) <=> IsFiniteSet(S)
BY DEF A!IsFiniteSet, IsFiniteSet

\* Of any rows, cut anywhere, no late one is left out for one that is not late.
LEMMA FirstLemma ==
    ASSUME NEW rows, IsFiniteSet(rows), \A i \in rows : i.overdue \in BOOLEAN, NEW scoped, NEW n \in Nat,
           NEW i \in rows, i.overdue, i \notin A!First(rows, scoped, n), NEW j \in A!First(rows, scoped, n)
    PROVE  j.overdue
<1> SUFFICES ASSUME ~j.overdue PROVE FALSE
  OBVIOUS
<1> DEFINE before(x) == {y \in rows : A!Precedes(y, x, scoped)}
<1>1. j \in rows
  BY DEF A!First
<1>2. before(i) \subseteq before(j)
  BY <1>1, LateFirst
<1>3. IsFiniteSet(before(i)) /\ IsFiniteSet(before(j))
  BY FS_Subset
<1>4. Cardinality(before(i)) <= Cardinality(before(j)) /\ Cardinality(before(i)) \in Nat /\ Cardinality(before(j)) \in Nat
  BY <1>2, <1>3, FS_Subset, FS_CardinalityType
<1>5. Cardinality(before(j)) < n /\ ~(Cardinality(before(i)) < n)
  BY <1>1, Counted DEF A!First
<1> QED BY <1>4, <1>5

LEMMA ItemsFinite == ASSUME NEW c PROVE IsFiniteSet(A!Items(c))
<1> DEFINE due == {j \in DatedKeys : tasks[j].live /\ A!Effective(tasks[j].deadline) # None}
<1>1. IsFiniteSet(due)
  <2>1. IsFiniteSet(DatedKeys)
    BY RulesAssumption, Finitely DEF A!AgendaAssumption
  <2> QED BY <2>1, FS_Subset
<1>2. A!Items(c) = {A!Item(k, c) : k \in due}
  BY DEF A!Items
<1> HIDE DEF due
<1> DEFINE items == {A!Item(k, c) : k \in due}
           item == [k \in due |-> A!Item(k, c)]
<1>3. item \in Surjection(due, items)
  BY DEF Surjection
<1> HIDE DEF items, item
<1>4. IsFiniteSet(items)
  BY <1>1, <1>3, FS_Surjection
<1> QED BY <1>2, <1>4 DEF items

LEMMA BlockLemma == AgendaInv => A!BlockHidesNoLate
<1> SUFFICES ASSUME AgendaInv, NEW today \in A!Dates, NEW scoped \in BOOLEAN
             PROVE  LET c == A!Clock(today)
                        late(shown, among) == (\E i \in among : i.overdue /\ i \notin shown) => \A i \in shown : i.overdue
                    IN /\ late(A!Block(c, scoped), A!Items(c))
                       /\ \A n \in 1 .. BlockCap + 1 :
                            late(A!BriefBlock(c, scoped, n), {i \in A!Items(c) : A!InScope(i, scoped)})
  BY DEF A!BlockHidesNoLate
<1> DEFINE c == A!Clock(today)
           due == A!Due(c)
           near == {i \in due : A!InScope(i, scoped)}
           items == A!Items(c)
<1>1. c.today \in Int
  <2>1. today \in Int
    BY DEF A!Dates
  <2> QED BY <2>1 DEF A!Clock
<1>2. BlockCap \in Nat
  BY RulesAssumption DEF A!AgendaAssumption
<1> HIDE DEF c
<1>3. \A i \in items : i.overdue \in BOOLEAN
  BY <1>1, ItemLemma
<1>4. due \subseteq items /\ near \subseteq due /\ IsFiniteSet(due) /\ IsFiniteSet(near)
  BY ItemsFinite, FS_Subset DEF A!Due
<1>5. \A i \in items : i.overdue => i \in due
  BY DEF A!Due, A!Surfaced
<1>6. ASSUME NEW i \in items, i.overdue, i \notin A!Block(c, scoped), NEW j \in A!Block(c, scoped)
      PROVE  j.overdue
  <2>1. A!Block(c, scoped) = A!First(due, scoped, BlockCap) /\ i \in due /\ \A x \in due : x.overdue \in BOOLEAN
    BY <1>3, <1>4, <1>5, <1>6 DEF A!Block
  <2> HIDE DEF due, items
  <2> QED BY <1>2, <1>4, <1>6, <2>1, FirstLemma
<1>7. ASSUME NEW n \in 1 .. BlockCap + 1, NEW i \in items, A!InScope(i, scoped), i.overdue,
             i \notin A!BriefBlock(c, scoped, n), NEW j \in A!BriefBlock(c, scoped, n)
      PROVE  j.overdue
  <2> DEFINE first == A!First(near, FALSE, BlockCap)
  <2>1. A!BriefBlock(c, scoped, n) = A!First(first, FALSE, n)
    BY DEF A!BriefBlock
  <2>2. i \in near /\ \A x \in near : x.overdue \in BOOLEAN
    BY <1>3, <1>4, <1>5, <1>7
  <2> HIDE DEF near, due, items
  <2>3. first \subseteq near /\ j \in first
    BY <1>7, <2>1 DEF A!First
  <2>4. CASE i \notin first
    BY <1>2, <1>4, <1>7, <2>2, <2>3, <2>4, FirstLemma
  <2>5. CASE i \in first
    <3> HIDE DEF first
    <3>1. IsFiniteSet(first) /\ n \in Nat /\ \A x \in first : x.overdue \in BOOLEAN
      <4>1. IsFiniteSet(first)
        BY <1>4, <2>3, FS_Subset
      <4>2. n \in Nat
        BY <1>2
      <4> QED BY <2>2, <2>3, <4>1, <4>2
    <3> QED BY <1>7, <2>1, <2>5, <3>1, FirstLemma
  <2> QED BY <2>4, <2>5
<1> QED BY <1>6, <1>7 DEF c

-----------------------------------------------------------------------------
(* The listing: its groups in order *)

\* What comes sooner than a row of an earlier group comes sooner than any of a
\* later one.
LEMMA SoonerLemma ==
    ASSUME NEW a, NEW b, NEW j,
           \A x \in {a, b, j} : /\ x.days \in Int /\ x.overdue \in BOOLEAN
                                /\ x.overdue => x.days <= 0
                                /\ ~x.overdue => x.days >= 0,
           A!Bucket(b) < A!Bucket(a), A!Sooner(j, b)
    PROVE  A!Sooner(j, a)
<1>0. ThisWeekDays \in Nat
  BY RulesAssumption DEF A!AgendaAssumption
<1>1. j.days <= b.days
  BY DEF A!Sooner
<1>2. ~a.overdue
  BY <1>0 DEF A!Bucket
<1>3. CASE ~b.overdue
  <2>1. b.days < a.days
    BY <1>0, <1>2, <1>3 DEF A!Bucket
  <2> QED BY <1>1, <2>1 DEF A!Sooner
<1>4. CASE b.overdue
  <2>1. b.days <= 0 /\ a.days >= 0
    BY <1>2, <1>4
  <2>2. j.days = b.days => j.overdue
    BY <1>4 DEF A!Sooner
  <2> QED BY <1>1, <1>2, <2>1, <2>2 DEF A!Sooner
<1> QED BY <1>3, <1>4

LEMMA BucketsLemma == AgendaInv => A!BucketsInOrder
<1> SUFFICES ASSUME AgendaInv, NEW today \in A!Dates, NEW hard \in BOOLEAN
             PROVE  LET s == A!Listing(A!Rows(A!Clock(today), Horizon, FALSE, hard, FALSE))
                    IN \A a, b \in DOMAIN s : s[a] < s[b] => A!Bucket(a) <= A!Bucket(b)
  BY DEF A!BucketsInOrder
<1> DEFINE c == A!Clock(today)
           rows == A!Rows(c, Horizon, FALSE, hard, FALSE)
           sooner(x) == {j \in rows : A!Sooner(j, x)}
           s == A!Listing(rows)
<1>1. c.today \in Int
  <2>1. today \in Int
    BY DEF A!Dates
  <2> QED BY <2>1 DEF A!Clock
<1> HIDE DEF c
<1>2. rows \subseteq A!Items(c) /\ IsFiniteSet(rows)
  BY ItemsFinite, FS_Subset DEF A!Rows
<1>3. \A x \in rows : /\ x.days \in Int /\ x.overdue \in BOOLEAN
                      /\ x.overdue => x.days <= 0
                      /\ ~x.overdue => x.days >= 0
  BY <1>1, <1>2, ItemLemma
<1> HIDE DEF rows
<1>4. DOMAIN s = rows /\ \A x \in rows : s[x] = 1 + Cardinality(sooner(x))
  BY Counted DEF A!Listing
<1>5. \A x \in rows : IsFiniteSet(sooner(x)) /\ Cardinality(sooner(x)) \in Nat
  BY <1>2, FS_Subset, FS_CardinalityType
<1>6. ASSUME NEW a \in rows, NEW b \in rows, s[a] < s[b], ~(A!Bucket(a) <= A!Bucket(b))
      PROVE  FALSE
  <2>1. A!Bucket(b) < A!Bucket(a)
    BY <1>6 DEF A!Bucket
  <2>2. sooner(b) \subseteq sooner(a)
    <3> SUFFICES ASSUME NEW j \in rows, A!Sooner(j, b) PROVE A!Sooner(j, a)
      OBVIOUS
    <3>1. \A x \in {a, b, j} : /\ x.days \in Int /\ x.overdue \in BOOLEAN
                               /\ x.overdue => x.days <= 0
                               /\ ~x.overdue => x.days >= 0
      BY <1>3
    <3> QED BY <2>1, <3>1, SoonerLemma
  <2>3. Cardinality(sooner(b)) <= Cardinality(sooner(a))
    BY <1>5, <2>2, FS_Subset
  <2> HIDE DEF sooner, s
  <2>4. /\ s[a] = 1 + Cardinality(sooner(a)) /\ s[b] = 1 + Cardinality(sooner(b))
        /\ Cardinality(sooner(a)) \in Nat /\ Cardinality(sooner(b)) \in Nat
    BY <1>4, <1>5
  <2> QED BY <1>6, <2>3, <2>4
<1> HIDE DEF s
<1>7. \A a, b \in DOMAIN s : s[a] < s[b] => A!Bucket(a) <= A!Bucket(b)
  BY <1>4, <1>6
<1> QED BY <1>7 DEF s, rows, c

-----------------------------------------------------------------------------
(* Writes leave a date or nothing *)

LEMMA WholeLemma == AgendaInv => A!DeadlineGoesWhole
<1> SUFFICES ASSUME AgendaInv, NEW k \in DatedKeys
             PROVE  LET d == tasks[k].deadline IN
                      /\ A!Apply(A!Clearing, d) = A!NoDeadline
                      /\ d # A!NoDeadline => A!Effective(d) \in Whens
  BY DEF A!DeadlineGoesWhole
<1> DEFINE d == tasks[k].deadline
<1>2. None # Keep
  BY RulesAssumption DEF A!AgendaAssumption
<1> HIDE DEF d
<1>3. A!Apply(A!Clearing, d) = A!NoDeadline
  BY <1>2 DEF A!Apply, A!Given, A!NoDeadline, A!Clearing
<1>4. d # A!NoDeadline => A!Effective(d) \in Whens
  BY DEF AgendaInv, Dated, Deadlines, A!Effective, d
<1> QED BY <1>3, <1>4 DEF d

LEMMA ApplyLemma ==
    ASSUME NEW p \in Patches, NEW d, Dated(d), A!Valid(A!Apply(p, d))
    PROVE  Dated(A!Apply(p, d))
<1> DEFINE e == A!Apply(p, d)
           undated == A!Given(p.due, d.due) = None /\ A!Given(p.expected, d.expected) = None
           hard == A!Given(p.hard, IF undated THEN FALSE ELSE d.hard)
           remind == A!Given(p.remind, IF undated THEN None ELSE d.remind)
           event == A!Given(p.event, IF undated THEN FALSE ELSE d.event)
           due == A!Given(p.due, d.due)
           expected == A!Given(p.expected, d.expected)
<1>1. e = [due |-> due, expected |-> expected, hard |-> hard, remind |-> remind, event |-> event]
  BY DEF A!Apply
<1>2. d \in Deadlines
  BY DEF Dated
<1>3. /\ p.due \in Whens \union {Keep, None, Garbage} /\ p.expected \in Whens \union {Keep, None, Garbage}
      /\ p.hard \in BOOLEAN \union {Keep} /\ p.event \in BOOLEAN \union {Keep}
      /\ p.remind \in Nat \union {Keep, None}
  BY RulesAssumption DEF A!AgendaAssumption
<1>4. due \in Whens \union {None, Garbage} /\ expected \in Whens \union {None, Garbage}
  BY <1>2, <1>3 DEF A!Given, Deadlines
<1>5. hard \in BOOLEAN /\ event \in BOOLEAN /\ remind \in Nat \union {None}
  BY <1>2, <1>3 DEF A!Given, Deadlines
<1> HIDE DEF due, expected, hard, remind, event
<1>6. e.due = due /\ e.expected = expected /\ A!NoDeadline.due = None /\ A!NoDeadline.expected = None
  BY <1>1 DEF A!NoDeadline
<1>7. Garbage # None
  BY RulesAssumption DEF A!AgendaAssumption
<1>8. due # Garbage /\ expected # Garbage /\ (due = None /\ expected = None => e = A!NoDeadline)
  BY <1>6, <1>7 DEF A!Valid
<1>9. e \in Deadlines
  BY <1>1, <1>4, <1>5, <1>8 DEF Deadlines
<1> QED BY <1>6, <1>8, <1>9 DEF Dated

LEMMA AgendaInit == A!Init => AgendaInv
<1> SUFFICES ASSUME A!Init PROVE AgendaInv
  OBVIOUS
<1>1. now \in Nat
  BY RulesAssumption DEF A!Init, A!AgendaAssumption
<1>2. \A k \in DatedKeys : tasks[k] = [live |-> FALSE, deadline |-> A!NoDeadline]
  BY DEF A!Init
<1>3. tasks = [k \in DatedKeys |-> tasks[k]]
  BY DEF A!Init
<1> DEFINE new == [live |-> FALSE, deadline |-> A!NoDeadline]
<1>4. new \in [live : BOOLEAN, deadline : Deadlines] /\ Dated(new.deadline)
  BY NoDeadlineLemma DEF Dated
<1> HIDE DEF new
<1>5. \A k \in DatedKeys : tasks[k] = new
  BY <1>2 DEF new
<1> QED BY <1>1, <1>3, <1>4, <1>5 DEF AgendaInv

LEMMA AgendaStep == AgendaInv /\ [A!Next]_agendaVars => AgendaInv'
<1> SUFFICES ASSUME AgendaInv, [A!Next]_agendaVars PROVE AgendaInv'
  OBVIOUS
<1>1. CASE A!Tick
  BY <1>1 DEF A!Tick, AgendaInv
<1>2. ASSUME NEW k \in DatedKeys, A!Close(k) PROVE AgendaInv'
  <2> DEFINE t == tasks[k]
             new == [live |-> FALSE, deadline |-> t.deadline]
  <2>1. t \in [live : BOOLEAN, deadline : Deadlines] /\ Dated(t.deadline)
    BY DEF AgendaInv
  <2>2. tasks' = [tasks EXCEPT ![k] = new] /\ now' = now
    BY <1>2 DEF A!Close
  <2>3. new.deadline = t.deadline
    OBVIOUS
  <2>6. new \in [live : BOOLEAN, deadline : Deadlines] /\ Dated(new.deadline)
    BY <2>1, <2>3
  <2> HIDE DEF new, t
  <2> QED BY <2>2, <2>6 DEF AgendaInv
<1>3. ASSUME NEW k \in DatedKeys, NEW p \in Patches, A!Write(k, p) PROVE AgendaInv'
  <2> DEFINE d == A!Apply(p, tasks[k].deadline)
             new == [live |-> TRUE, deadline |-> d]
  <2>1. A!Valid(d) /\ tasks' = [tasks EXCEPT ![k] = new] /\ now' = now
    BY <1>3 DEF A!Write
  <2>2. Dated(d)
    BY <2>1, ApplyLemma DEF AgendaInv
  <2> HIDE DEF d
  <2>3. new \in [live : BOOLEAN, deadline : Deadlines] /\ Dated(new.deadline)
    BY <2>2 DEF Dated
  <2> HIDE DEF new
  <2> QED BY <2>1, <2>3 DEF AgendaInv
<1>4. CASE UNCHANGED agendaVars
  BY <1>4 DEF agendaVars, AgendaInv
<1> QED BY <1>1, <1>2, <1>3, <1>4 DEF A!Next

-----------------------------------------------------------------------------
(* Time takes no reminder back *)

\* What is late on a calendar is late on a later one, and no further off.
LEMMA LaterLemma ==
    ASSUME NEW when \in Whens, NEW c, NEW d, c.today \in Int, d.today \in Int, c.today <= d.today,
           c.now \in Int, d.now \in Int, c.now <= d.now, A!Present(d), A!Overdue(when, c)
    PROVE  A!Overdue(when, d)
BY WhenLemma DEF A!Overdue

LEMMA TickLemma ==
    ASSUME AgendaInv, A!Tick, NEW z \in Zones, NEW i \in A!Items(A!Here(z))
    PROVE  \E j \in A!Items(A!Here(z))' : /\ j.key = i.key /\ j.days <= i.days
                                          /\ (i.overdue => j.overdue)
                                          /\ (A!Surfaced(i) => A!Surfaced(j))
<1> DEFINE c == A!Here(z)
           d == [now |-> now + 1, today |-> A!DateIn(now + 1, z)]
           k == i.key
           j == A!Item(k, d)
           t == tasks[k].deadline
           when == A!Effective(t)
<1>1. tasks' = tasks /\ now' = now + 1 /\ now \in Int
  BY DEF A!Tick, AgendaInv
<1>2. A!Items(A!Here(z))' = A!Items(d)
  BY <1>1 DEF A!Items, A!Item, A!Here, A!Clock
<1>3. c.now = now /\ c.today = A!DateIn(now, z) /\ d.now = now + 1 /\ d.today = A!DateIn(now + 1, z)
  BY DEF A!Here, A!Clock
<1>4. c.today \in Int /\ d.today \in Int /\ c.today <= d.today /\ c.now \in Int /\ d.now \in Int /\ c.now <= d.now
  BY <1>1, <1>3, ZoneLemma
<1>5. A!Present(d)
  <2>1. now + 1 \in Int
    BY <1>1
  <2> QED BY <1>3, <2>1, ZoneLemma DEF A!Present
<1> HIDE DEF c, d
<1>6. i \in A!Items(c)
  BY DEF c
<1>7. /\ k \in DatedKeys /\ i = A!Item(k, c) /\ tasks[k].live /\ when \in Whens
      /\ i.overdue = A!Overdue(when, c) /\ i.overdue \in BOOLEAN
  BY <1>4, <1>6, ItemLemma
<1>8. when # None
  BY <1>7, RulesAssumption DEF A!AgendaAssumption
<1>9. j \in A!Items(d)
  BY <1>7, <1>8 DEF A!Items
<1>10. j.key = k
  BY DEF A!Item
<1>11. j.overdue = A!Overdue(when, d) /\ j.overdue \in BOOLEAN
  BY <1>4, <1>9, <1>10, ItemLemma
<1>12. i.overdue => j.overdue
  BY <1>4, <1>5, <1>7, <1>11, LaterLemma
<1>13. /\ i.days = IF i.overdue /\ A!DayOf(when) - c.today > 0 THEN 0 ELSE A!DayOf(when) - c.today
       /\ j.days = IF j.overdue /\ A!DayOf(when) - d.today > 0 THEN 0 ELSE A!DayOf(when) - d.today
       /\ i.remind = A!Remind(t) /\ j.remind = A!Remind(t)
  <2>1. A!Item(k, c).days = (IF A!Overdue(when, c) /\ A!DayOf(when) - c.today > 0 THEN 0 ELSE A!DayOf(when) - c.today)
        /\ A!Item(k, c).remind = A!Remind(t)
    BY DEF A!Item
  <2>2. A!Item(k, d).days = (IF A!Overdue(when, d) /\ A!DayOf(when) - d.today > 0 THEN 0 ELSE A!DayOf(when) - d.today)
        /\ A!Item(k, d).remind = A!Remind(t)
    BY DEF A!Item
  <2> HIDE DEF k, when, t
  <2> QED BY <1>7, <1>11, <2>1, <2>2
<1> HIDE DEF j, when, t, k
<1>14. A!DayOf(when) \in Int /\ i.remind \in Nat /\ i.days \in Int /\ j.days \in Int /\ (~i.overdue => i.days >= 0)
  BY <1>4, <1>6, <1>7, <1>9, ItemLemma, WhenLemma
<1>15. j.days <= i.days
  BY <1>4, <1>7, <1>11, <1>12, <1>13, <1>14
<1>16. A!Surfaced(i) => A!Surfaced(j)
  BY <1>12, <1>13, <1>14, <1>15 DEF A!Surfaced
<1> QED BY <1>2, <1>9, <1>10, <1>12, <1>15, <1>16 DEF k

LEMMA RulesKeepAgenda == AgendaInv /\ [RulesNext]_rulesVars => AgendaInv'
<1> SUFFICES ASSUME AgendaInv, [RulesNext]_rulesVars PROVE AgendaInv'
  OBVIOUS
<1>1. [A!Next]_agendaVars
  BY DEF RulesNext, rulesVars
<1> QED BY <1>1, AgendaStep

\* No late task is hidden by one that is not, on any calendar and for any area;
\* a moment that has passed is late; clearing the dates leaves nothing of a
\* deadline (deadline.rs item, block, list, apply, validate).
THEOREM Reminded == RulesSpec => []RemindersHold
<1>1. RulesInit => AgendaInv
  BY AgendaInit DEF RulesInit
<1>2. AgendaInv => RemindersHold
  BY PassedLemma, BlockLemma, BucketsLemma, WholeLemma DEF RemindersHold, A!LateIsTold
<1> QED BY <1>1, <1>2, RulesKeepAgenda, PTL DEF RulesSpec

\* As time passes no reminder is taken back, in any zone (deadline.rs item).
THEOREM LateForGood == RulesSpec => LateStaysLate
<1>1. RulesInit => AgendaInv
  BY AgendaInit DEF RulesInit
<1>2. ASSUME AgendaInv, [RulesNext]_rulesVars
      PROVE  now' # now => \A z \in Zones : \A i \in A!Items(A!Here(z)) : \E j \in A!Items(A!Here(z))' :
                /\ j.key = i.key /\ j.days <= i.days
                /\ (i.overdue => j.overdue) /\ (A!Surfaced(i) => A!Surfaced(j))
  <2>1. [A!Next]_agendaVars
    BY <1>2 DEF RulesNext, rulesVars
  <2>2. now' # now => A!Tick
    BY <2>1 DEF A!Next, agendaVars, A!Write, A!Close
  <2> QED BY <1>2, <2>2, TickLemma
<1> QED BY <1>1, <1>2, RulesKeepAgenda, PTL DEF RulesSpec, LateStaysLate, A!LateStaysLate

-----------------------------------------------------------------------------
(* What is stored *)

\* A version of k as writes leave it: no stamps but those its kind has.
Kept(k, e) ==
    /\ e \in B!Records /\ B!Valid(k, e)
    /\ k \notin Incidents => e.detected = B!Nil /\ e.mitigated = B!Nil
    /\ k \in Notes => e.closed = B!Nil /\ e.status = ""

BoardInv ==
    /\ time \in Nat
    /\ stored = [k \in B!Entries |-> stored[k]] /\ files \subseteq B!Entries
    /\ \A k \in B!Entries : stored[k] # <<>> => Kept(k, stored[k])
    /\ \A k \in files : stored[k] # <<>> /\ ~B!IsClosed(stored[k])

LEMMA RangeLemma ==
    /\ B!Range(B!IncidentStatuses) = {"open", "mitigated", "resolved"}
    /\ B!Range(B!TaskStatuses) = {"open", "in_progress", "blocked", "done", "dropped"}
    /\ B!Range(B!Ranks) = {"critical", "high", "medium", "low"}
<1>1. B!Range(B!IncidentStatuses) = {"open", "mitigated", "resolved"}
  BY DEF B!Range, B!IncidentStatuses
<1>2. B!Range(B!TaskStatuses) = {"open", "in_progress", "blocked", "done", "dropped"}
  BY DEF B!Range, B!TaskStatuses
<1>3. B!Range(B!Ranks) = {"critical", "high", "medium", "low"}
  BY DEF B!Range, B!Ranks
<1> QED BY <1>1, <1>2, <1>3

LEMMA KindsLemma ==
    /\ Incidents \subseteq B!Entries /\ TaskKeys \subseteq B!Entries /\ Notes \subseteq B!Entries
    /\ Incidents \intersect TaskKeys = {} /\ Notes \intersect (Incidents \union TaskKeys) = {}
    /\ B!Entries \subseteq Nat \ {0} /\ B!Entries = Incidents \union TaskKeys \union Notes
BY RulesAssumption DEF B!BoardAssumption, B!Entries, B!Nil

LEMMA RecordLemma ==
    ASSUME NEW e \in B!Records
    PROVE  /\ e # <<>>
           /\ e.status \in STRING /\ e.hosts \in Seq(STRING) /\ e.cites \in SUBSET Nat /\ e.parent \in Nat
           /\ e.detected \in Nat /\ e.mitigated \in Nat /\ e.closed \in Nat
           /\ e.solved \in BOOLEAN /\ e.reason \in BOOLEAN
<1>1. "status" \in DOMAIN e
  BY DEF B!Records
<1>2. e # <<>>
  BY <1>1
<1> QED BY <1>2 DEF B!Records

-----------------------------------------------------------------------------
(* Stamps *)

\* The stamps of the version there was.
Standing(k) ==
    IF B!HasVersion(k) THEN [detected |-> stored[k].detected, mitigated |-> stored[k].mitigated, closed |-> stored[k].closed]
    ELSE [detected |-> 0, mitigated |-> 0, closed |-> 0]

LEMMA StampedLemma ==
    ASSUME BoardInv, NEW k \in B!Entries, NEW e \in B!Records, NEW f, f = B!Stamped(k, e)
    PROVE  /\ f \in B!Records /\ f.status = e.status
           /\ f.detected = (IF e.detected # 0 THEN e.detected ELSE IF Standing(k).detected # 0
                 THEN Standing(k).detected ELSE IF k \in Incidents THEN time + 1 ELSE 0)
           /\ f.mitigated = (IF e.mitigated # 0 THEN e.mitigated ELSE IF Standing(k).mitigated # 0
                 THEN Standing(k).mitigated ELSE IF e.status = "mitigated" THEN time + 1 ELSE 0)
           /\ f.closed = (IF e.closed # 0 THEN e.closed ELSE IF Standing(k).closed # 0
                 THEN Standing(k).closed ELSE IF B!IsClosed(e) THEN time + 1 ELSE 0)
           /\ Standing(k).detected \in Nat /\ Standing(k).mitigated \in Nat /\ Standing(k).closed \in Nat
<1> DEFINE o == Standing(k)
           d == IF e.detected # 0 THEN e.detected ELSE IF o.detected # 0
                 THEN o.detected ELSE IF k \in Incidents THEN time + 1 ELSE 0
           m == IF e.mitigated # 0 THEN e.mitigated ELSE IF o.mitigated # 0
                 THEN o.mitigated ELSE IF e.status = "mitigated" THEN time + 1 ELSE 0
           c == IF e.closed # 0 THEN e.closed ELSE IF o.closed # 0
                 THEN o.closed ELSE IF B!IsClosed(e) THEN time + 1 ELSE 0
           old == IF B!HasVersion(k) THEN stored[k] ELSE B!Blank
<1>1. B!HasVersion(k) => stored[k] \in B!Records
  BY DEF BoardInv, Kept, B!HasVersion
<1>2. o.detected \in Nat /\ o.mitigated \in Nat /\ o.closed \in Nat
  BY <1>1, RecordLemma DEF Standing
<1>3. old.detected = o.detected /\ old.mitigated = o.mitigated /\ old.closed = o.closed
  BY DEF Standing, B!Blank, B!Nil
<1>4. e.detected \in Nat /\ e.mitigated \in Nat /\ e.closed \in Nat /\ time \in Nat
  BY RecordLemma DEF BoardInv
<1> HIDE DEF o
<1>5. d \in Nat /\ m \in Nat /\ c \in Nat
  BY <1>2, <1>4
<1> HIDE DEF old
<1>6. f = [e EXCEPT !.detected = d, !.mitigated = m, !.closed = c]
  <2> DEFINE kept(new, was) == IF new # B!Nil THEN new ELSE was
             stamp(s, due) == IF s = B!Nil /\ due THEN time + 1 ELSE s
  <2>1. f = [e EXCEPT !.detected = stamp(kept(e.detected, old.detected), k \in Incidents),
                      !.mitigated = stamp(kept(e.mitigated, old.mitigated), e.status = "mitigated"),
                      !.closed = stamp(kept(e.closed, old.closed), B!IsClosed(e))]
    BY DEF B!Stamped, old, B!Records
  <2>2. /\ stamp(kept(e.detected, old.detected), k \in Incidents) = d
        /\ stamp(kept(e.mitigated, old.mitigated), e.status = "mitigated") = m
        /\ stamp(kept(e.closed, old.closed), B!IsClosed(e)) = c
    BY <1>2, <1>3, <1>4 DEF B!Nil
  <2> HIDE DEF stamp, kept, d, m, c
  <2> QED BY <2>1, <2>2
<1> HIDE DEF d, m, c
<1>7. f = [status |-> e.status, severity |-> e.severity, service |-> e.service, hosts |-> e.hosts,
           cites |-> e.cites, parent |-> e.parent, mentions |-> e.mentions, tags |-> e.tags,
           priority |-> e.priority, solved |-> e.solved, reason |-> e.reason,
           detected |-> d, mitigated |-> m, closed |-> c]
  BY <1>6 DEF B!Records
<1>8. f \in B!Records /\ f.detected = d /\ f.mitigated = m /\ f.closed = c /\ f.status = e.status
  BY <1>5, <1>7 DEF B!Records
<1> QED BY <1>2, <1>8 DEF o, d, m, c

\* What StampsStand asks of the version e that a write makes of k.
Stands(k, e) ==
    LET stands(was, is) == was = B!Nil \/ is = was
    IN /\ k \in Incidents => e.detected # B!Nil
       /\ e.status = "mitigated" => e.mitigated # B!Nil
       /\ B!IsClosed(e) => e.closed # B!Nil
       /\ B!HasVersion(k) =>
            /\ stands(stored[k].detected, e.detected)
                 \/ \E f \in Filings : f.key = k /\ f.entry.detected = e.detected
            /\ stands(stored[k].mitigated, e.mitigated)
            /\ stands(stored[k].closed, e.closed) \/ (k \in TaskKeys /\ e.closed = B!Nil /\ ~B!IsClosed(e))

\* What files an entry: upsert_incident, upsert_task, upsert.
LEMMA FiledLemma ==
    ASSUME BoardInv, NEW f \in Filings, B!Valid(f.key, B!Filed(f.key, f.entry))
    PROVE  Kept(f.key, B!Filed(f.key, f.entry)) /\ Stands(f.key, B!Filed(f.key, f.entry)) /\ f.key \in B!Entries
<1> DEFINE k == f.key
           e == f.entry
           g == B!Filed(k, e)
           o == Standing(k)
<1>1. /\ k \in B!Entries /\ e \in B!Records /\ e.mitigated = 0 /\ e.closed = 0
      /\ k \notin Incidents => e.detected = 0
      /\ k \in Notes => e.status = ""
  BY RulesAssumption DEF B!BoardAssumption, B!Nil
<1>2. B!HasVersion(k) => /\ Kept(k, stored[k]) /\ stored[k] \in B!Records
                         /\ o.detected = stored[k].detected /\ o.mitigated = stored[k].mitigated /\ o.closed = stored[k].closed
  BY <1>1 DEF BoardInv, B!HasVersion, Kept, Standing
<1>3. time + 1 # 0 /\ time + 1 \in Nat
  BY DEF BoardInv
<1> HIDE DEF o
<1>4. CASE k \in Incidents
  <2>1. g = B!Stamped(k, e)
    BY <1>4 DEF B!Filed
  <2> HIDE DEF k, e, g
  <2>2. /\ g \in B!Records /\ g.status = e.status
        /\ g.detected = (IF e.detected # 0 THEN e.detected ELSE IF o.detected # 0
                 THEN o.detected ELSE IF k \in Incidents THEN time + 1 ELSE 0)
        /\ g.mitigated = (IF e.mitigated # 0 THEN e.mitigated ELSE IF o.mitigated # 0
                 THEN o.mitigated ELSE IF e.status = "mitigated" THEN time + 1 ELSE 0)
        /\ g.closed = (IF e.closed # 0 THEN e.closed ELSE IF o.closed # 0
                 THEN o.closed ELSE IF B!IsClosed(e) THEN time + 1 ELSE 0)
    BY <1>1, <2>1, StampedLemma, ZenonT(60) DEF o
  <2>3. B!Valid(k, g)
    BY DEF k, e, g
  <2>4. Kept(k, g)
    BY <1>4, <2>2, <2>3, KindsLemma DEF Kept
  <2>5. B!IsClosed(g) = B!IsClosed(e)
    BY <2>2 DEF B!IsClosed
  <2>6. g.detected # 0 /\ (g.status = "mitigated" => g.mitigated # 0) /\ (B!IsClosed(g) => g.closed # 0)
    BY <1>1, <1>3, <1>4, <2>2, <2>5
  <2>7. (o.mitigated = 0 \/ g.mitigated = o.mitigated) /\ (o.closed = 0 \/ g.closed = o.closed)
    BY <1>1, <2>2
  <2>8. o.detected = 0 \/ g.detected = o.detected \/ g.detected = e.detected
    BY <2>2
  <2>9. \E x \in Filings : x.key = k /\ x.entry.detected = e.detected
    BY DEF k, e
  <2>10. Stands(k, g)
    BY <1>2, <2>6, <2>7, <2>8, <2>9 DEF Stands, B!Nil
  <2> QED BY <1>1, <2>4, <2>10 DEF k, e, g
<1>5. CASE k \in TaskKeys
  <2> DEFINE c == IF B!IsClosed(e) THEN IF B!HasVersion(k) /\ stored[k].closed # 0 THEN stored[k].closed ELSE time + 1 ELSE 0
  <2>1. c \in Nat
    BY <1>2, <1>3, RecordLemma
  <2>2. k \notin Incidents /\ k \notin Notes
    BY <1>5, KindsLemma
  <2>3. g = [e EXCEPT !.closed = c]
    BY <1>1, <1>5, <2>2 DEF B!Filed, B!Nil, B!Records
  <2>4. B!Valid(k, g)
    OBVIOUS
  <2> HIDE DEF k, e, g, c
  <2>5. g = [status |-> e.status, severity |-> e.severity, service |-> e.service, hosts |-> e.hosts,
             cites |-> e.cites, parent |-> e.parent, mentions |-> e.mentions, tags |-> e.tags,
             priority |-> e.priority, solved |-> e.solved, reason |-> e.reason,
             detected |-> e.detected, mitigated |-> e.mitigated, closed |-> c]
    BY <1>1, <2>3 DEF B!Records
  <2>6. g \in B!Records /\ g.detected = e.detected /\ g.mitigated = e.mitigated /\ g.closed = c /\ g.status = e.status
    BY <1>1, <2>1, <2>5 DEF B!Records
  <2>7. Kept(k, g)
    BY <1>1, <2>2, <2>4, <2>6 DEF Kept, B!Nil
  <2>8. g.status # "mitigated"
    BY <1>5, <2>4, RangeLemma DEF B!Valid
  <2>9. B!IsClosed(g) = B!IsClosed(e)
    BY <2>6 DEF B!IsClosed
  <2>10. B!HasVersion(k) => stored[k].detected = 0 /\ stored[k].mitigated = 0
    BY <1>2, <2>2 DEF Kept, B!Nil
  <2>11. B!IsClosed(g) => g.closed # 0 /\ (B!HasVersion(k) => stored[k].closed = 0 \/ g.closed = stored[k].closed)
    BY <1>3, <2>6, <2>9 DEF c
  <2>12. ~B!IsClosed(g) => g.closed = 0
    BY <2>6, <2>9 DEF c
  <2>13. Stands(k, g)
    BY <1>5, <2>2, <2>8, <2>10, <2>11, <2>12 DEF Stands, B!Nil
  <2> QED BY <1>1, <2>7, <2>13 DEF k, e, g
<1>6. CASE k \in Notes
  <2>1. k \notin Incidents /\ k \notin TaskKeys
    BY <1>6, KindsLemma
  <2>2. g = e
    BY <2>1 DEF B!Filed
  <2>3. Kept(k, g)
    BY <1>1, <2>1, <2>2 DEF Kept, B!Nil
  <2>4. ~B!IsClosed(g) /\ g.status # "mitigated"
    <3>1. g.status = ""
      BY <1>1, <1>6, <2>2
    <3> HIDE DEF g
    <3> QED BY <3>1 DEF B!IsClosed, B!Closing
  <2>5. Stands(k, g)
    BY <1>2, <1>6, <2>1, <2>4 DEF Stands, Kept
  <2> QED BY <1>1, <2>3, <2>5
<1> QED BY <1>1, <1>4, <1>5, <1>6, KindsLemma

\* close_entry
LEMMA ClosedLemma ==
    ASSUME BoardInv, NEW m \in Moves, B!HasVersion(m.key), m.key \notin Notes, B!Valid(m.key, B!Closed(m.key, m))
    PROVE  Kept(m.key, B!Closed(m.key, m)) /\ Stands(m.key, B!Closed(m.key, m)) /\ m.key \in B!Entries
<1> DEFINE k == m.key
           v == stored[k]
           solved == v.solved \/ m.solved
           reason == v.reason /\ m.status = "blocked"
           e == [v EXCEPT !.status = m.status, !.solved = solved, !.reason = reason]
           g == B!Closed(k, m)
           o == Standing(k)
<1>1. k \in B!Entries /\ m.status \in STRING
  BY RulesAssumption DEF B!BoardAssumption
<1>2. /\ Kept(k, v) /\ v \in B!Records
      /\ o.detected = v.detected /\ o.mitigated = v.mitigated /\ o.closed = v.closed
      /\ v.detected \in Nat /\ v.mitigated \in Nat /\ v.closed \in Nat
  BY <1>1, RecordLemma DEF BoardInv, B!HasVersion, Kept, Standing
<1>3. time + 1 # 0 /\ time + 1 \in Nat
  BY DEF BoardInv
<1>4. g = B!Stamped(k, e)
  BY <1>2 DEF B!Closed, B!Records
<1>5. solved \in BOOLEAN /\ reason \in BOOLEAN
  OBVIOUS
<1>6. B!Valid(k, g) /\ k \notin Notes
  OBVIOUS
<1> HIDE DEF k, g, o, solved, reason, v
<1>15. e = [v EXCEPT !.status = m.status, !.solved = solved, !.reason = reason]
  OBVIOUS
<1>16. v \in B!Records
  BY <1>2
<1> HIDE DEF e
<1>7. e = [status |-> m.status, severity |-> v.severity, service |-> v.service, hosts |-> v.hosts,
           cites |-> v.cites, parent |-> v.parent, mentions |-> v.mentions, tags |-> v.tags,
           priority |-> v.priority, solved |-> solved, reason |-> reason,
           detected |-> v.detected, mitigated |-> v.mitigated, closed |-> v.closed]
  BY <1>5, <1>15, <1>16 DEF B!Records
<1>8. /\ e \in B!Records
      /\ e.detected = v.detected /\ e.mitigated = v.mitigated /\ e.closed = v.closed /\ e.status = m.status
  BY <1>1, <1>2, <1>5, <1>7 DEF B!Records
<1>9. /\ g \in B!Records /\ g.status = e.status
      /\ g.detected = (IF e.detected # 0 THEN e.detected ELSE IF o.detected # 0
               THEN o.detected ELSE IF k \in Incidents THEN time + 1 ELSE 0)
      /\ g.mitigated = (IF e.mitigated # 0 THEN e.mitigated ELSE IF o.mitigated # 0
               THEN o.mitigated ELSE IF e.status = "mitigated" THEN time + 1 ELSE 0)
      /\ g.closed = (IF e.closed # 0 THEN e.closed ELSE IF o.closed # 0
               THEN o.closed ELSE IF B!IsClosed(e) THEN time + 1 ELSE 0)
  BY <1>1, <1>4, <1>8, StampedLemma DEF o
<1>10. k \notin Incidents => g.status # "mitigated" /\ v.detected = 0 /\ v.mitigated = 0
  <2>1. k \in TaskKeys \/ k \in Incidents
    BY <1>1, <1>6, KindsLemma
  <2> QED BY <1>2, <1>6, <2>1, RangeLemma DEF Kept, B!Valid, B!Nil
<1>11. Kept(k, g)
  BY <1>2, <1>6, <1>8, <1>9, <1>10 DEF Kept, B!Nil
<1>12. B!IsClosed(g) = B!IsClosed(e)
  BY <1>9 DEF B!IsClosed
<1>13. /\ k \in Incidents => g.detected # 0
       /\ g.status = "mitigated" => g.mitigated # 0
       /\ B!IsClosed(g) => g.closed # 0
       /\ v.detected = 0 \/ g.detected = v.detected
       /\ v.mitigated = 0 \/ g.mitigated = v.mitigated
       /\ v.closed = 0 \/ g.closed = v.closed
  BY <1>2, <1>3, <1>8, <1>9, <1>12
<1>14. Stands(k, g)
  BY <1>13 DEF Stands, B!Nil, v
<1> QED BY <1>1, <1>11, <1>14 DEF k, g

\* transition_task
LEMMA MovedLemma ==
    ASSUME BoardInv, NEW m \in Moves, B!HasVersion(m.key), m.key \in TaskKeys, m.status \in B!LiveStatuses,
           B!Valid(m.key, B!Moved(m.key, m))
    PROVE  Kept(m.key, B!Moved(m.key, m)) /\ Stands(m.key, B!Moved(m.key, m)) /\ m.key \in B!Entries
<1> DEFINE k == m.key
           v == stored[k]
           reason == v.reason /\ m.status = "blocked"
           g == B!Moved(k, m)
<1>1. k \in B!Entries /\ m.status \in STRING
  BY RulesAssumption DEF B!BoardAssumption
<1>2. Kept(k, v) /\ v \in B!Records
  BY <1>1 DEF BoardInv, B!HasVersion, Kept
<1>3. g = [v EXCEPT !.status = m.status, !.reason = reason]
  BY <1>2 DEF B!Moved, B!Records
<1>4. reason \in BOOLEAN /\ B!Valid(k, g) /\ k \in TaskKeys
  OBVIOUS
<1>5. k \notin Notes /\ k \notin Incidents
  BY <1>4, KindsLemma
<1> HIDE DEF k, g, reason
<1>6. g = [status |-> m.status, severity |-> v.severity, service |-> v.service, hosts |-> v.hosts,
           cites |-> v.cites, parent |-> v.parent, mentions |-> v.mentions, tags |-> v.tags,
           priority |-> v.priority, solved |-> v.solved, reason |-> reason,
           detected |-> v.detected, mitigated |-> v.mitigated, closed |-> v.closed]
  BY <1>2, <1>3 DEF B!Records
<1>7. /\ g \in B!Records
      /\ g.detected = v.detected /\ g.mitigated = v.mitigated /\ g.closed = v.closed /\ g.status = m.status
  BY <1>1, <1>2, <1>4, <1>6 DEF B!Records
<1> HIDE DEF v
<1>8. Kept(k, g)
  BY <1>2, <1>4, <1>5, <1>7 DEF Kept
<1>9. g.status # "mitigated" /\ ~B!IsClosed(g)
  BY <1>7 DEF B!IsClosed, B!Closing, B!LiveStatuses
<1>10. Stands(k, g)
  BY <1>5, <1>7, <1>9 DEF Stands, v
<1> QED BY <1>1, <1>8, <1>10 DEF k, g

-----------------------------------------------------------------------------
(* The steps of the board *)

\* What StampsStand asks of a step.
StampsStay == \A k \in B!Entries : stored'[k] # stored[k] => Stands(k, stored'[k])

\* commit_locked, archive_locked
LEMMA PutLemma ==
    ASSUME BoardInv, NEW k \in B!Entries, NEW e, Kept(k, e), Stands(k, e), B!Put(k, e)
    PROVE  BoardInv' /\ StampsStay
<1>1. e # <<>>
  BY RecordLemma DEF Kept
<1>2. files' = IF B!IsClosed(e) THEN files \ {k} ELSE files \union {k}
  BY DEF B!Put
<1>3. CASE k \in files /\ stored[k] = e
  <2>1. stored' = stored /\ time' = time
    BY <1>3 DEF B!Put
  <2> QED BY <1>1, <1>2, <1>3, <2>1, ZenonT(60) DEF BoardInv, StampsStay, Kept, B!Valid
<1>4. CASE ~(k \in files /\ stored[k] = e)
  <2>1. stored' = [stored EXCEPT ![k] = e] /\ time' = time + 1
    BY <1>4 DEF B!Put
  <2>2. stored' = [j \in B!Entries |-> stored'[j]] /\ time' \in Nat /\ files' \subseteq B!Entries
    BY <1>2, <2>1 DEF BoardInv
  <2>3. \A j \in B!Entries : stored'[j] = IF j = k THEN e ELSE stored[j]
    BY <2>1 DEF BoardInv
  <2>4. ASSUME NEW j \in B!Entries, stored'[j] # <<>> PROVE Kept(j, stored'[j])
    BY <2>3, <2>4 DEF BoardInv
  <2>5. ASSUME NEW j \in files' PROVE stored'[j] # <<>> /\ ~B!IsClosed(stored'[j])
    BY <1>1, <1>2, <2>2, <2>3 DEF BoardInv
  <2>6. BoardInv'
    BY <2>2, <2>4, <2>5 DEF BoardInv, Kept, B!Valid, B!IsClosed
  <2> QED BY <2>3, <2>6 DEF StampsStay
<1> QED BY <1>3, <1>4

LEMMA BoardInit == B!Init => BoardInv
BY DEF B!Init, BoardInv

LEMMA BoardStep == BoardInv /\ [B!Next]_boardVars => BoardInv' /\ StampsStay
<1> SUFFICES ASSUME BoardInv, [B!Next]_boardVars PROVE BoardInv' /\ StampsStay
  OBVIOUS
<1>1. ASSUME NEW f \in Filings, B!File(f) PROVE BoardInv' /\ StampsStay
  <2>1. B!Put(f.key, B!Filed(f.key, f.entry))
    BY <1>1 DEF B!File
  <2>2. B!Valid(f.key, B!Filed(f.key, f.entry))
    BY <2>1 DEF B!Put
  <2> QED BY <2>1, <2>2, FiledLemma, PutLemma
<1>2. ASSUME NEW m \in Moves, B!Move(m) PROVE BoardInv' /\ StampsStay
  <2>1. /\ B!HasVersion(m.key) /\ m.key \notin Notes
        /\ m.op \in {"close", "transition"}
        /\ m.op = "transition" => m.key \in TaskKeys /\ m.status \in B!LiveStatuses
        /\ B!Put(m.key, IF m.op = "close" THEN B!Closed(m.key, m) ELSE B!Moved(m.key, m))
    BY <1>2, RulesAssumption DEF B!Move, B!BoardAssumption
  <2>2. CASE m.op = "close"
    <3>1. B!Put(m.key, B!Closed(m.key, m))
      BY <2>1, <2>2
    <3>2. B!Valid(m.key, B!Closed(m.key, m))
      BY <3>1 DEF B!Put
    <3> QED BY <2>1, <3>1, <3>2, ClosedLemma, PutLemma
  <2>3. CASE m.op = "transition"
    <3>1. B!Put(m.key, B!Moved(m.key, m))
      BY <2>1, <2>3
    <3>2. B!Valid(m.key, B!Moved(m.key, m))
      BY <3>1 DEF B!Put
    <3> QED BY <2>1, <2>3, <3>1, <3>2, MovedLemma, PutLemma
  <2> QED BY <2>1, <2>2, <2>3
<1>3. ASSUME NEW k \in B!Entries, B!Delete(k) PROVE BoardInv' /\ StampsStay
  <2>1. stored' = stored /\ files' \subseteq files /\ time' = time + 1
    BY <1>3 DEF B!Delete
  <2>2. time' \in Nat
    BY <2>1 DEF BoardInv
  <2> QED BY <2>1, <2>2, ZenonT(60) DEF BoardInv, StampsStay, Kept, B!Valid, B!IsClosed
<1>4. CASE UNCHANGED boardVars
  BY <1>4, ZenonT(60) DEF boardVars, BoardInv, StampsStay, Kept, B!Valid, B!IsClosed
<1> QED BY <1>1, <1>2, <1>3, <1>4 DEF B!Next

LEMMA RulesKeepBoard == RulesSpec => [](BoardInv) /\ [][[B!Next]_boardVars]_boardVars
<1>1. RulesInit => BoardInv
  BY BoardInit DEF RulesInit
<1>2. [RulesNext]_rulesVars => [B!Next]_boardVars
  BY DEF RulesNext, rulesVars, boardVars
<1>3. BoardInv /\ [RulesNext]_rulesVars => BoardInv'
  BY <1>2, BoardStep
<1> QED BY <1>1, <1>2, <1>3, PTL DEF RulesSpec

\* StampsStand: the stamps of the timeline stand (stamp_timeline, upsert_task).
THEOREM StampsForGood == RulesSpec => StampsStand
<1>1. BoardInv /\ [B!Next]_boardVars => [\A k \in B!Entries : stored'[k] # stored[k] =>
         LET e == stored'[k]
             stands(was, is) == was = B!Nil \/ is = was
         IN /\ k \in Incidents => e.detected # B!Nil
            /\ e.status = "mitigated" => e.mitigated # B!Nil
            /\ B!IsClosed(e) => e.closed # B!Nil
            /\ B!HasVersion(k) =>
                 /\ stands(stored[k].detected, e.detected)
                      \/ \E f \in Filings : f.key = k /\ f.entry.detected = e.detected
                 /\ stands(stored[k].mitigated, e.mitigated)
                 /\ stands(stored[k].closed, e.closed) \/ (k \in TaskKeys /\ e.closed = B!Nil /\ ~B!IsClosed(e))]_B!vars
  BY BoardStep DEF StampsStay, Stands
<1> QED BY <1>1, RulesKeepBoard, PTL DEF StampsStand, B!StampsStand, B!vars, boardVars

-----------------------------------------------------------------------------
(* The views of what is open *)

LEMMA BoardCounted == ASSUME NEW S PROVE B!Cardinality(S) = Cardinality(S)
BY DEF B!Cardinality, Cardinality, B!IsFiniteSet, IsFiniteSet

LEMMA EntriesFinite == ASSUME NEW S \in SUBSET B!Entries PROVE IsFiniteSet(S)
<1>1. IsFiniteSet(B!Entries)
  BY RulesAssumption DEF B!BoardAssumption, B!IsFiniteSet, IsFiniteSet
<1> QED BY <1>1, FS_Subset

LEMMA KnownLemma ==
    ASSUME BoardInv
    PROVE  /\ B!Known \subseteq B!Entries /\ files \subseteq B!Known
           /\ \A k \in B!Known : Kept(k, stored[k])
           /\ \A k \in B!Entries : B!IsLive(k) <=> k \in files /\ k \notin Notes
BY DEF BoardInv, B!Known, B!HasVersion, B!IsLive

LEMMA OpenLemma == BoardInv => B!OpenIsOpen
<1> SUFFICES ASSUME BoardInv PROVE B!OpenIsOpen
  OBVIOUS
<1>1. \A k \in files \intersect Incidents : stored[k].status \in {"open", "mitigated"}
  <2> SUFFICES ASSUME NEW k \in files, k \in Incidents PROVE stored[k].status \in {"open", "mitigated"}
    OBVIOUS
  <2>1. stored[k].status \in {"open", "mitigated", "resolved"}
    BY KnownLemma, RangeLemma DEF Kept, B!Valid
  <2>2. ~B!IsClosed(stored[k])
    BY DEF BoardInv
  <2> QED BY <2>1, <2>2 DEF B!IsClosed, B!Closing
<1>2. ASSUME NEW e PROVE B!Admits(B!Everything, e)
  BY DEF B!Admits, B!Everything
<1>3. B!OpenIncidents(B!Everything) = files \intersect Incidents
  BY <1>1, <1>2 DEF B!OpenIncidents
<1>4. \A S : B!Listing(S, "", FALSE) = files \intersect S
  BY KnownLemma DEF B!Listing
<1>5. /\ {k \in B!Known : B!IsLive(k)} \intersect Incidents = files \intersect Incidents
      /\ {k \in B!Known : B!IsLive(k)} \intersect TaskKeys = files \intersect TaskKeys
  BY KnownLemma, KindsLemma
<1>6. B!Work(B!Everything) \subseteq files \intersect TaskKeys
  BY DEF B!Work
<1>7. \A k \in B!Listing(Incidents, "resolved", FALSE) : k \in Incidents /\ stored[k].status = "resolved"
  BY DEF B!Listing
<1>8. B!Listing(Incidents, "resolved", FALSE) \intersect files = {}
  BY <1>1, <1>7
<1> QED BY <1>3, <1>4, <1>5, <1>6, <1>8 DEF B!OpenIsOpen

LEMMA LinkLemma == BoardInv => B!LinksHold
<1> SUFFICES ASSUME BoardInv, NEW k \in B!Known
             PROVE  /\ \A to \in stored[k].cites \ {k} : k \in B!LinksIn(to)
                    /\ k \notin B!LinksOut(k) \union B!LinksIn(k)
                    /\ B!UnknownParent(stored[k]) <=> stored[k].parent # B!Nil /\ B!Missing(stored[k].parent)
                    /\ {to \in stored[k].cites : B!Missing(to)} \subseteq B!UnknownKnowledge(stored[k])
                    /\ k \in Incidents /\ stored[k].service # "" =>
                         /\ stored[k].cites \intersect B!Known \intersect Notes \subseteq B!Runbooks(stored[k].service, FALSE)
                         /\ B!LinksIn(k) \intersect B!Listing(TaskKeys, "", FALSE) \subseteq B!TasksAt(stored[k].service, FALSE)
  BY DEF B!LinksHold
<1> DEFINE e == stored[k]
<1>1. Kept(k, e) /\ k \in B!Entries
  BY KnownLemma
<1>2. \A to \in e.cites \ {k} : to \in B!Outgoing(k) /\ k \in B!LinksIn(to)
  BY DEF B!LinksIn, B!Outgoing
<1>3. k \notin B!LinksOut(k) \union B!LinksIn(k)
  BY DEF B!LinksOut, B!LinksIn, B!Outgoing
<1>4. B!UnknownParent(e) <=> e.parent # B!Nil /\ B!Missing(e.parent)
  <2>1. e.parent = B!Nil \/ e.parent \in B!Entries
    BY <1>1, KindsLemma DEF Kept, B!Valid
  <2> QED BY <2>1 DEF B!UnknownParent, B!Missing, B!Known
<1>5. {to \in e.cites : B!Missing(to)} \subseteq B!UnknownKnowledge(e)
  BY KnownLemma DEF B!Missing, B!UnknownKnowledge
<1>6. ASSUME k \in Incidents
      PROVE  /\ e.cites \intersect B!Known \intersect Notes \subseteq B!Runbooks(e.service, FALSE)
             /\ B!LinksIn(k) \intersect B!Listing(TaskKeys, "", FALSE) \subseteq B!TasksAt(e.service, FALSE)
  <2>1. k \in B!AtPlace(e.service, FALSE)
    BY <1>6 DEF B!AtPlace
  <2>2. ASSUME NEW to \in e.cites, to \in B!Known, to \in Notes PROVE to \in B!Runbooks(e.service, FALSE)
    <3>1. to \in B!Outgoing(k)
      BY <1>2, <1>6, <2>2, KindsLemma
    <3>2. to \in UNION {B!Outgoing(x) : x \in B!AtPlace(e.service, FALSE)}
      BY <2>1, <3>1
    <3> QED BY <2>2, <3>2 DEF B!Runbooks
  <2>3. ASSUME NEW j \in B!LinksIn(k), j \in B!Listing(TaskKeys, "", FALSE) PROVE j \in B!TasksAt(e.service, FALSE)
    <3>1. j \in B!Known /\ k \in B!Outgoing(j) /\ j \in TaskKeys /\ j \in files
      BY <2>3 DEF B!LinksIn, B!Listing
    <3>2. B!IsLive(j)
      BY <3>1, KnownLemma, KindsLemma
    <3> QED BY <2>1, <3>1, <3>2 DEF B!TasksAt
  <2> QED BY <2>2, <2>3
<1> QED BY <1>2, <1>3, <1>4, <1>5, <1>6

LEMMA RankLemma ==
    /\ \A v : B!RankIn(B!Ranks, v) \in 1 .. 5
    /\ \A v : B!RankIn(B!IncidentStatuses, v) \in 1 .. 4
    /\ \A v : B!RankIn(B!Ranks, v) = 1 <=> v = "critical"
    /\ \A v : B!RankIn(<<"in_progress", "blocked", "open">>, v) =
             IF v = "in_progress" THEN 1 ELSE IF v = "blocked" THEN 2 ELSE IF v = "open" THEN 3 ELSE 4
<1>1. ASSUME NEW v
      PROVE  B!RankIn(B!Ranks, v) = IF v = "critical" THEN 1 ELSE IF v = "high" THEN 2
                                    ELSE IF v = "medium" THEN 3 ELSE IF v = "low" THEN 4 ELSE 5
  BY DEF B!RankIn, B!Ranks, B!Range
<1>2. ASSUME NEW v
      PROVE  B!RankIn(B!IncidentStatuses, v) = IF v = "open" THEN 1 ELSE IF v = "mitigated" THEN 2
                                    ELSE IF v = "resolved" THEN 3 ELSE 4
  BY DEF B!RankIn, B!IncidentStatuses, B!Range
<1>3. ASSUME NEW v
      PROVE  B!RankIn(<<"in_progress", "blocked", "open">>, v) =
             IF v = "in_progress" THEN 1 ELSE IF v = "blocked" THEN 2 ELSE IF v = "open" THEN 3 ELSE 4
  BY DEF B!RankIn, B!Range
<1>4. \A v : B!RankIn(B!Ranks, v) \in 1 .. 5 /\ (B!RankIn(B!Ranks, v) = 1 <=> v = "critical")
  BY <1>1
<1>5. \A v : B!RankIn(B!IncidentStatuses, v) \in 1 .. 4
  BY <1>2
<1> QED BY <1>3, <1>4, <1>5

\* A section is cut where it is full: what comes before a row that is left out
\* comes before no row that is shown.
LEMMA CutLemma ==
    ASSUME NEW rows \in SUBSET B!Entries, NEW ahead, NEW behind, behind \subseteq rows, ahead \subseteq behind,
           NEW cap, cap \in Nat, B!Cardinality(behind) < cap
    PROVE  B!Cardinality(ahead) < cap
<1>1. IsFiniteSet(behind)
  BY EntriesFinite
<1>2. IsFiniteSet(ahead) /\ Cardinality(ahead) <= Cardinality(behind)
  BY <1>1, FS_Subset
<1>3. Cardinality(ahead) \in Nat /\ Cardinality(behind) \in Nat
  BY <1>1, <1>2, FS_CardinalityType
<1> QED BY <1>2, <1>3, BoardCounted

LEMMA GravestLemma == BoardInv => B!GravestFirst
<1> SUFFICES ASSUME BoardInv, NEW cap \in 1 .. B!Cardinality(Incidents \union TaskKeys)
             PROVE  /\ \A k \in B!IncidentSection(B!Everything, cap),
                          j \in B!OpenIncidents(B!Everything) \ B!IncidentSection(B!Everything, cap) :
                         B!SeverityOf(k) <= B!SeverityOf(j)
                    /\ \A k \in B!WorkSection(B!Everything, cap),
                          j \in B!Work(B!Everything) \ B!WorkSection(B!Everything, cap) :
                         stored[j].status = "blocked" => stored[k].status # "open"
  BY DEF B!GravestFirst
<1> DEFINE rows == B!OpenIncidents(B!Everything)
           work == B!Work(B!Everything)
           shown == B!IncidentSection(B!Everything, cap)
           begun == B!WorkSection(B!Everything, cap)
           before(x) == {y \in rows : B!IncidentBefore(y, x)}
           sooner(x) == {y \in work : B!WorkBefore(y, x)}
<1>1. cap \in Nat
  OBVIOUS
<1>2. rows \subseteq B!Entries /\ work \subseteq B!Entries
  BY KindsLemma DEF B!OpenIncidents, B!Work
<1>3. \A x : x \in shown <=> x \in rows /\ B!Cardinality(before(x)) < cap
  BY DEF B!IncidentSection
<1>4. \A x : x \in begun <=> x \in work /\ B!Cardinality(sooner(x)) < cap
  BY DEF B!WorkSection
<1>5. ASSUME NEW k \in shown, NEW j \in rows \ shown PROVE B!SeverityOf(k) <= B!SeverityOf(j)
  <2>1. \A x : B!SeverityOf(x) \in 1 .. 5
    BY RankLemma DEF B!SeverityOf
  <2> SUFFICES ASSUME B!SeverityOf(j) < B!SeverityOf(k) PROVE FALSE
    BY <2>1
  <2>2. \A i : B!IncidentBefore(i, j) => B!SeverityOf(i) <= B!SeverityOf(j)
    BY <2>1 DEF B!IncidentBefore
  <2>3. \A i : B!SeverityOf(i) < B!SeverityOf(k) => B!IncidentBefore(i, k)
    BY <2>1 DEF B!IncidentBefore
  <2>4. before(j) \subseteq before(k)
    <3> SUFFICES ASSUME NEW i, B!IncidentBefore(i, j) PROVE B!IncidentBefore(i, k)
      OBVIOUS
    <3>1. B!SeverityOf(i) <= B!SeverityOf(j)
      BY <2>2
    <3>2. B!SeverityOf(i) < B!SeverityOf(k)
      BY <2>1, <3>1
    <3> QED BY <2>3, <3>2
  <2>5. B!Cardinality(before(k)) < cap /\ before(k) \subseteq rows
    BY <1>3
  <2> HIDE DEF rows, before
  <2>6. B!Cardinality(before(j)) < cap
    BY <1>1, <1>2, <2>4, <2>5, CutLemma
  <2> QED BY <1>3, <2>6
<1>6. ASSUME NEW k \in begun, NEW j \in work \ begun, stored[j].status = "blocked" PROVE stored[k].status # "open"
  <2> SUFFICES ASSUME stored[k].status = "open" PROVE FALSE
    OBVIOUS
  <2>1. \A x : B!BegunOf(x) \in 1 .. 4
    BY RankLemma DEF B!BegunOf
  <2>2. B!BegunOf(j) = 2 /\ B!BegunOf(k) = 3
    BY <1>6, RankLemma DEF B!BegunOf
  <2>3. \A i : B!WorkBefore(i, j) => B!BegunOf(i) <= 2
    BY <2>1, <2>2 DEF B!WorkBefore
  <2>4. \A i : B!BegunOf(i) <= 2 => B!WorkBefore(i, k)
    BY <2>1, <2>2 DEF B!WorkBefore
  <2>5. sooner(j) \subseteq sooner(k)
    BY <2>3, <2>4
  <2>6. B!Cardinality(sooner(k)) < cap /\ sooner(k) \subseteq work
    BY <1>4
  <2> HIDE DEF work, sooner
  <2>7. B!Cardinality(sooner(j)) < cap
    BY <1>1, <1>2, <2>5, <2>6, CutLemma
  <2> QED BY <1>4, <2>7
<1> QED BY <1>5, <1>6

\* Of entries that each name a place once, the tally has as many mentions as
\* there are entries.
Mentions(S, N) == UNION {{<<k, i>> : i \in N[k]} : k \in S}

LEMMA TimesLemma ==
    ASSUME NEW S \in SUBSET B!Entries, NEW N, \A k \in S : \E i : N[k] = {i}
    PROVE  B!Cardinality(Mentions(S, N)) = B!Cardinality(S)
<1> DEFINE T == Mentions(S, N)
           f == [k \in S |-> <<k, CHOOSE i : N[k] = {i}>>]
<1>1. \A k \in S : N[k] = {CHOOSE i : N[k] = {i}}
  OBVIOUS
<1>2. ASSUME NEW k \in S PROVE f[k] \in T /\ \A i \in N[k] : <<k, i>> = f[k]
  BY <1>1 DEF Mentions
<1>3. \A t \in T : \E k \in S : f[k] = t
  BY <1>2 DEF Mentions
<1>4. \A k \in S, j \in S : f[k] = f[j] => k = j
  OBVIOUS
<1>5. f \in [S -> T]
  BY <1>2
<1> HIDE DEF f, T
<1>6. f \in Surjection(S, T)
  BY <1>3, <1>5 DEF Surjection
<1>7. f \in Injection(S, T)
  BY <1>4, <1>5 DEF Injection, IsInjective
<1>8. IsFiniteSet(S)
  BY EntriesFinite
<1>9. Cardinality(T) = Cardinality(S)
  BY <1>6, <1>7, <1>8, FS_Surjection
<1> QED BY <1>9, BoardCounted DEF T

\* A set of numbers up to five that is not empty has a least one.
LEMMA LeastLemma ==
    ASSUME NEW R \in SUBSET (1 .. 5), R # {}
    PROVE  \E r \in R : \A s \in R : r <= s
<1>1. CASE 1 \in R
  BY <1>1
<1>2. CASE 1 \notin R /\ 2 \in R
  BY <1>2
<1>3. CASE 1 \notin R /\ 2 \notin R /\ 3 \in R
  BY <1>3
<1>4. CASE 1 \notin R /\ 2 \notin R /\ 3 \notin R /\ 4 \in R
  BY <1>4
<1>5. CASE 1 \notin R /\ 2 \notin R /\ 3 \notin R /\ 4 \notin R
  <2>1. PICK r \in R : TRUE
    OBVIOUS
  <2>2. \A x \in R : x = 5
    BY <1>5
  <2>3. r <= r
    BY <2>2
  <2> QED BY <2>1, <2>2, <2>3
<1> QED BY <1>1, <1>2, <1>3, <1>4, <1>5

\* A host of which an entry's list has at most one.
LEMMA OnceLemma ==
    ASSUME NEW hosts \in Seq(STRING), NEW p,
           B!Cardinality({i \in DOMAIN hosts : hosts[i] = p}) <= 1, p \in B!Range(hosts)
    PROVE  \E i : {x \in DOMAIN hosts : hosts[x] = p} = {i}
<1> DEFINE S == {i \in DOMAIN hosts : hosts[i] = p}
<1>1. IsFiniteSet(S)
  <2>1. DOMAIN hosts = 1 .. Len(hosts) /\ Len(hosts) \in Nat
    OBVIOUS
  <2>2. IsFiniteSet(1 .. Len(hosts))
    BY <2>1, FS_Interval
  <2> QED BY <2>1, <2>2, FS_Subset
<1>2. S # {}
  BY DEF B!Range
<1>3. Cardinality(S) <= 1
  BY BoardCounted
<1> HIDE DEF S
<1>4. Cardinality(S) = 1
  BY <1>1, <1>2, <1>3, FS_CardinalityType, FS_EmptySet
<1>5. \E i : S = {i}
  BY <1>1, <1>4, FS_Singleton
<1> QED BY <1>5 DEF S

LEMMA TallyLemma ==
    ASSUME BoardInv, NEW p, NEW byHost \in BOOLEAN,
           \A k \in B!AtPlace(p, byHost) : B!Cardinality({i \in DOMAIN stored[k].hosts : stored[k].hosts[i] = p}) <= 1,
           NEW open, open = {k \in B!AtPlace(p, byHost) : B!IsLive(k)}
    PROVE  /\ B!Tally(p, byHost).total = B!Cardinality(B!AtPlace(p, byHost))
           /\ B!Tally(p, byHost).open = B!Cardinality(open)
           /\ (B!Tally(p, byHost).worst = B!RankIn(B!Ranks, "critical") <=> \E k \in open : stored[k].severity = "critical")
<1> DEFINE at == B!AtPlace(p, byHost)
           naming(k) == IF byHost THEN {i \in DOMAIN stored[k].hosts : stored[k].hosts[i] = p}
                        ELSE {i \in {1} : stored[k].service = p}
           all == {k \in B!Known \intersect Incidents : naming(k) # {}}
           N == [k \in B!Entries |-> naming(k)]
           times(S) == B!Cardinality(UNION {{<<k, i>> : i \in naming(k)} : k \in S})
           ranks == {B!RankIn(B!Ranks, stored[k].severity) : k \in open}
           worst == IF open = {} THEN 0 ELSE CHOOSE r \in ranks : \A s \in ranks : r <= s
<1>1. at \subseteq B!Entries /\ open \subseteq at /\ \A k \in at : k \in B!Known /\ k \in Incidents
  BY KindsLemma DEF B!AtPlace
<1>2. at = all
  <2>1. CASE byHost
    BY <2>1 DEF B!AtPlace, B!Range
  <2>2. CASE ~byHost
    BY <2>2 DEF B!AtPlace
  <2> QED BY <2>1, <2>2
<1>3. ASSUME NEW k \in at PROVE \E i : N[k] = {i}
  <2>1. CASE byHost
    <3>1. stored[k].hosts \in Seq(STRING)
      BY <1>1, KnownLemma, RecordLemma DEF Kept
    <3>2. p \in B!Range(stored[k].hosts)
      BY <2>1 DEF B!AtPlace
    <3>3. \E i : {x \in DOMAIN stored[k].hosts : stored[k].hosts[x] = p} = {i}
      BY <3>1, <3>2, OnceLemma
    <3> QED BY <1>1, <2>1, <3>3
  <2>2. CASE ~byHost
    <3>1. stored[k].service = p
      BY <2>2 DEF B!AtPlace
    <3>2. N[k] = {1}
      BY <1>1, <2>2, <3>1
    <3> QED BY <3>2
  <2> QED BY <2>1, <2>2
<1>4. ASSUME NEW S \in SUBSET at PROVE times(S) = B!Cardinality(S)
  <2>1. S \in SUBSET B!Entries /\ \A k \in S : \E i : N[k] = {i}
    BY <1>1, <1>3
  <2>2. \A k \in S : naming(k) = N[k]
    BY <2>1
  <2>3. UNION {{<<k, i>> : i \in naming(k)} : k \in S} = Mentions(S, N)
    <3> HIDE DEF N, naming
    <3> QED BY <2>2 DEF Mentions
  <2> HIDE DEF N
  <2>4. B!Cardinality(Mentions(S, N)) = B!Cardinality(S)
    BY <2>1, TimesLemma
  <2> QED BY <2>3, <2>4
<1>5. worst = 1 <=> (\E k \in open : stored[k].severity = "critical")
  <2>1. ranks \in SUBSET (1 .. 5) /\ (1 \in ranks <=> \E k \in open : stored[k].severity = "critical")
    BY RankLemma
  <2>2. CASE open = {}
    <3>1. worst = 0 /\ ~(\E k \in open : stored[k].severity = "critical")
      BY <2>2
    <3> HIDE DEF worst
    <3> QED BY <3>1
  <2>3. CASE open # {}
    <3>1. ranks # {}
      BY <2>3
    <3> HIDE DEF ranks
    <3>2. worst \in ranks /\ \A s \in ranks : worst <= s
      BY <2>1, <2>3, <3>1, LeastLemma
    <3> HIDE DEF worst
    <3>3. worst = 1 <=> 1 \in ranks
      BY <2>1, <3>2
    <3> QED BY <2>1, <3>3
  <2> QED BY <2>2, <2>3
<1>6. B!Tally(p, byHost) = [open |-> times(open), total |-> times(all), worst |-> worst]
  <2> DEFINE live == {k \in all : B!IsLive(k)}
             ranked == {B!RankIn(B!Ranks, stored[k].severity) : k \in live}
             gravest == IF live = {} THEN 0 ELSE CHOOSE r \in ranked : \A s \in ranked : r <= s
  <2>1. open = live
    BY <1>2
  <2>2. B!Tally(p, byHost) = [open |-> times(live), total |-> times(all), worst |-> gravest]
    BY Zenon DEF B!Tally
  <2>3. worst = gravest
    <3> HIDE DEF live
    <3>1. ranks = ranked
      BY <2>1
    <3> HIDE DEF ranks, ranked
    <3> QED BY <2>1, <3>1
  <2> HIDE DEF live, times, gravest, worst, all
  <2> QED BY <2>1, <2>2, <2>3
<1> HIDE DEF times, worst, all, at
<1>7. /\ B!Tally(p, byHost).open = times(open) /\ B!Tally(p, byHost).total = times(all)
      /\ B!Tally(p, byHost).worst = worst
  BY <1>6
<1>8. times(open) = B!Cardinality(open) /\ times(all) = B!Cardinality(at)
  BY <1>1, <1>2, <1>4
<1>9. B!RankIn(B!Ranks, "critical") = 1
  BY RankLemma
<1> QED BY <1>5, <1>7, <1>8, <1>9 DEF at

LEMMA TalliesLemma == BoardInv => B!TalliesAgree
<1> SUFFICES ASSUME BoardInv, NEW p, NEW byHost \in BOOLEAN,
                    \A k \in B!AtPlace(p, byHost) : B!Cardinality({i \in DOMAIN stored[k].hosts : stored[k].hosts[i] = p}) <= 1
             PROVE  LET open == {k \in B!AtPlace(p, byHost) : B!IsLive(k)} IN
                    /\ B!Tally(p, byHost).total = B!Cardinality(B!AtPlace(p, byHost))
                    /\ B!Tally(p, byHost).open = B!Cardinality(open)
                    /\ (B!Tally(p, byHost).worst = B!RankIn(B!Ranks, "critical") <=> \E k \in open : stored[k].severity = "critical")
  BY Zenon DEF B!TalliesAgree
<1> DEFINE open == {k \in B!AtPlace(p, byHost) : B!IsLive(k)}
<1>1. open = {k \in B!AtPlace(p, byHost) : B!IsLive(k)}
  OBVIOUS
<1> HIDE DEF open
<1>2. /\ B!Tally(p, byHost).total = B!Cardinality(B!AtPlace(p, byHost))
      /\ B!Tally(p, byHost).open = B!Cardinality(open)
      /\ (B!Tally(p, byHost).worst = B!RankIn(B!Ranks, "critical") <=> \E k \in open : stored[k].severity = "critical")
  BY <1>1, TallyLemma, SMTT(30)
<1> QED BY <1>2, Zenon DEF open

\* ViewsAgree: the listings, the brief, the links and the tallies agree on what
\* is open (links.rs, brief.rs, list_kind).
THEOREM ViewsAreOne == RulesSpec => []ViewsAgree
<1>1. BoardInv => ViewsAgree
  BY OpenLemma, TalliesLemma, LinkLemma, GravestLemma DEF ViewsAgree, B!ViewsAgree
<1> QED BY <1>1, RulesKeepBoard, PTL

-----------------------------------------------------------------------------
(* Tools *)

\* What is listed is planned, needs no more than its schema says, and is no
\* request to write but for those that a read-only client is not offered.
LEMMA ToolsLemma ==
    ASSUME NEW t
    PROVE  /\ t \in DOMAIN M!Schemas =>
                /\ M!RouteOf(t) # M!NoRoute
                /\ M!RouteOf(t).required = M!Schemas[t].required
           /\ t \notin DOMAIN M!Schemas => M!RouteOf(t) = M!NoRoute
           /\ M!RouteOf(t).method = "POST" => t \in M!WriteTools
           /\ M!WriteTools \subseteq DOMAIN M!Schemas
<1>1. DOMAIN M!Schemas = M!ReadTools \union M!WriteTools
  BY DEF M!Schemas
<1>2. CASE t \in M!ReadTools
  BY <1>1, <1>2, ZenonT(60) DEF M!ReadTools, M!WriteTools, M!Schemas, M!RouteOf, M!NoRoute, M!Route, M!Schema
<1>3. CASE t \in M!WriteTools
  BY <1>1, <1>3, ZenonT(60) DEF M!ReadTools, M!WriteTools, M!Schemas, M!RouteOf, M!NoRoute, M!Route, M!Schema
<1>4. CASE t \notin M!ReadTools \union M!WriteTools
  BY <1>1, <1>4 DEF M!ReadTools, M!WriteTools, M!RouteOf, M!NoRoute, M!Route
<1> QED BY <1>1, <1>2, <1>3, <1>4

-----------------------------------------------------------------------------
(* A call changes what it names *)

LEMMA BodyLemma ==
    ASSUME NEW c, NEW k \in McpKeys, M!RouteOf(c.tool).method = "POST",
           M!Accepts(M!RouteOf(c.tool).path, k, M!Body(c.tool, c.args)),
           NEW f \in {"tags", "due", "assignee"},
           M!Written(k, M!Body(c.tool, c.args))[f] # M!StoredOf(k)[f]
    PROVE  \/ f \in DOMAIN c.args /\ c.args[f] # M!Null
           \/ f = "tags" /\ M!KindOf(k) = "knowledge"
           \/ f = "assignee" /\ c.tool = "kyb_task"
<1>1. f \in DOMAIN M!Blank
  BY DEF M!Blank
<1>2. f \in DOMAIN M!Body(c.tool, c.args)
  BY <1>1 DEF M!Written
<1>3. f \in M!Sent(c.tool, c.args)
  BY <1>2 DEF M!Body
<1>4. c.tool \in M!WriteTools
  BY ToolsLemma
<1>5. CASE c.tool = "kyb_add"
  <2>1. M!RouteOf(c.tool).path = "/knowledge"
    BY <1>5 DEF M!RouteOf, M!Route
  <2>2. M!KindOf(k) = "knowledge"
    BY <2>1 DEF M!Accepts
  <2> QED BY <1>3, <1>5, <2>2 DEF M!Sent
<1>6. CASE c.tool # "kyb_add"
  <2>1. f \in M!Named(c.args) \/ (f = "assignee" /\ c.tool = "kyb_task")
    BY <1>3, <1>4, <1>6 DEF M!Sent, M!WriteTools, M!Texts, M!Named
  <2> QED BY <2>1 DEF M!Named
<1> QED BY <1>5, <1>6

-----------------------------------------------------------------------------
(* Messages are answered in order *)

Outcomes == {"forbidden", "ok", "refused", "read-only", "no such tool", "missing argument", "bad argument",
             "initialize", "ping", "tools/list", "no such method"}
Answers == [id : Nat, what : Outcomes]
Who == {M!Nobody} \union {M!Attribution(<<c.ctx, c.meta, h>>) : c \in Calls, h \in Headers \union {M!Nobody}}
Logged == [n : Nat, by : Who]
Doings == [call : Calls, by : Who, code : {"forbidden", "ok", "refused"}]
Posts == [open : BOOLEAN, readonly : BOOLEAN, may : {"none", "read", "write"}, headers : Headers \union {M!Nobody},
          ids : Seq(BOOLEAN), last : Calls \union {M!NoCall}, out : Seq(Answers),
          doing : Doings \union {M!NotDoing}, changed : SUBSET Nat]

\* A session goes with the agent that named it.
Attributed(by, c, headers) ==
    by.session # M!Empty =>
      \E s \in {c.ctx, c.meta, headers} : s.session = by.session /\ s.agent \in {M!Empty, by.agent}

\* What the API has carried out and not yet recorded was listed and is put down
\* to who named it; if it has changed an entry, it will be recorded.
DoingSound ==
    LET d == post.doing IN
    d # M!NotDoing =>
      /\ post.open /\ d.call.tool \in M!Listed(post.readonly) /\ Attributed(d.by, d.call, post.headers)
      /\ M!Number \in post.changed => M!RouteOf(d.call.tool).method = "POST"

\* What has been answered and logged of a request is about its messages; a
\* request that is over has left nothing behind.
McpOrder ==
    /\ post \in Posts /\ log \in Seq(Logged)
    /\ ~post.open => post = M!NoPost /\ log = <<>>
    /\ \A i \in DOMAIN post.out : post.out[i].id <= Len(post.ids)
    /\ \A i \in DOMAIN log : log[i].n <= Len(post.ids)
    /\ DoingSound

McpInv == McpOrder /\ M!ToolsAnswer

\* The first source that names a field does name it.
LEMMA FirstNamedLemma ==
    ASSUME NEW s, NEW some \in SUBSET (1 .. 3), NEW field
    PROVE  M!FirstNamed(s, some, field) # M!Empty =>
             \E i \in some : s[i][field] = M!FirstNamed(s, some, field)
<1> DEFINE named == {i \in some : s[i][field] # M!Empty}
<1>1. CASE named = {}
  BY <1>1 DEF M!FirstNamed
<1>2. CASE named # {}
  <2>1. named \subseteq 1 .. 3
    OBVIOUS
  <2>2. PICK x \in named : TRUE
    BY <1>2
  <2>3. M!Min(named) \in named
    <3> HIDE DEF named
    <3>1. PICK m \in named : \A i \in named : m <= i
      <4>1. 1 \in named \/ 2 \in named \/ 3 \in named
        BY <2>2, <2>1
      <4> QED BY <2>1, <4>1
    <3> QED BY <3>1 DEF M!Min
  <2>4. M!FirstNamed(s, some, field) = s[M!Min(named)][field]
    BY <1>2 DEF M!FirstNamed
  <2> QED BY <2>3, <2>4
<1> QED BY <1>1, <1>2

\* Whom a call is put down to: a session goes with the agent that named it.
LEMMA AttributionLemma ==
    ASSUME NEW a, NEW b, NEW h, NEW by, by = M!Attribution(<<a, b, h>>), by.session # M!Empty
    PROVE  \E s \in {a, b, h} : s.session = by.session /\ s.agent \in {M!Empty, by.agent}
<1> DEFINE s == <<a, b, h>>
           agent == M!FirstNamed(s, DOMAIN s, "agent")
           theirs == {i \in DOMAIN s : s[i].agent \in {M!Empty, agent}}
           naming == {i \in theirs : s[i].agent = agent /\ \A j \in 1 .. i - 1 : s[j].agent = M!Empty}
           own == M!FirstNamed(s, naming, "session")
           any == M!FirstNamed(s, theirs, "session")
           session == IF own # M!Empty THEN own ELSE any
<1>1. DOMAIN s = 1 .. 3 /\ s[1] = a /\ s[2] = b /\ s[3] = h
  OBVIOUS
<1>2. by = [agent |-> agent, session |-> session,
            workspace |-> M!FirstNamed(s, DOMAIN s, "workspace")]
  BY DEF M!Attribution, M!SessionOf
<1> HIDE DEF s
<1>3. by.agent = agent /\ by.session = session
  <2> HIDE DEF session
  <2> QED BY <1>2
<1>4. theirs \subseteq 1 .. 3 /\ naming \subseteq theirs
  BY <1>1
<1>5. PICK i \in theirs : s[i].session = by.session
  <2>1. (own # M!Empty => \E i \in naming : s[i].session = own) /\ (any # M!Empty => \E i \in theirs : s[i].session = any)
    <3> HIDE DEF theirs, naming
    <3> QED BY <1>4, FirstNamedLemma
  <2> HIDE DEF theirs, naming, own, any
  <2> QED BY <1>3, <1>4, <2>1
<1>6. i \in 1 .. 3 /\ s[i].agent \in {M!Empty, by.agent}
  BY <1>1, <1>3
<1>7. s[i] \in {a, b, h}
  BY <1>1, <1>6
<1> QED BY <1>5, <1>6, <1>7

\* An answer is the last of the answers, to the last of the messages.
LEMMA AnsweredLemma ==
    ASSUME McpOrder, post.open, NEW c \in Calls \union {M!NoCall}, NEW what \in Outcomes,
           post' = M!Answered(c, what)
    PROVE  /\ post' \in Posts /\ post'.open
           /\ post'.ids = Append(post.ids, TRUE) /\ post'.last = c
           /\ post'.out = Append(post.out, [id |-> Len(post.ids) + 1, what |-> what])
           /\ post'.readonly = post.readonly /\ post'.may = post.may /\ post'.headers = post.headers
           /\ post'.doing = M!NotDoing /\ post'.changed = post.changed
<1>1. post \in Posts /\ post.ids \in Seq(BOOLEAN) /\ Len(post.ids) \in Nat /\ post.out \in Seq(Answers)
  BY DEF McpOrder, Posts
<1> DEFINE ids == Append(post.ids, TRUE)
           answer == [id |-> Len(post.ids) + 1, what |-> what]
           out == Append(post.out, answer)
<1>2. answer \in Answers
  BY <1>1 DEF Answers
<1>3. ids \in Seq(BOOLEAN) /\ out \in Seq(Answers)
  <2> HIDE DEF answer
  <2> QED BY <1>1, <1>2
<1>4. post' = [post EXCEPT !.ids = ids, !.last = c, !.out = out, !.doing = M!NotDoing]
  BY DEF M!Answered, M!Number
<1> HIDE DEF ids, out
<1>5. post' = [open |-> post.open, readonly |-> post.readonly, may |-> post.may, headers |-> post.headers,
               ids |-> ids, last |-> c, out |-> out, doing |-> M!NotDoing, changed |-> post.changed]
  BY <1>1, <1>4 DEF Posts
<1>6. post' \in Posts
  BY <1>1, <1>3, <1>5 DEF Posts
<1>7. /\ post'.open = post.open /\ post'.ids = ids /\ post'.last = c /\ post'.out = out
      /\ post'.readonly = post.readonly /\ post'.may = post.may /\ post'.headers = post.headers
      /\ post'.doing = M!NotDoing /\ post'.changed = post.changed
  BY <1>5
<1> QED BY <1>6, <1>7 DEF ids, out

\* With an answer the answers stay in order and complete, and it alone is the
\* answer to its message.
LEMMA AnswerOrder ==
    ASSUME McpInv, post.open, NEW c \in Calls \union {M!NoCall}, NEW what \in Outcomes,
           post' = M!Answered(c, what)
    PROVE  /\ Len(post'.ids) = Len(post.ids) + 1
           /\ post'.out # <<>> /\ M!Last(post'.out) = [id |-> Len(post'.ids), what |-> what]
           /\ {post'.out[i].id : i \in DOMAIN post'.out} = {i \in DOMAIN post'.ids : post'.ids[i]}
           /\ \A i \in 1 .. Len(post'.out) - 1 : post'.out[i].id < post'.out[i + 1].id
           /\ \A i \in DOMAIN post'.out : post'.out[i].id <= Len(post'.ids)
           /\ \A i \in DOMAIN post'.out : post'.out[i].id = Len(post'.ids) => post'.out[i].what = what
<1> DEFINE ids == post.ids
           out == post.out
           n == Len(ids)
           m == Len(out)
           new == [id |-> n + 1, what |-> what]
           idsN == post'.ids
           outN == post'.out
<1>1. ids \in Seq(BOOLEAN) /\ out \in Seq(Answers) /\ n \in Nat /\ m \in Nat
  BY DEF McpInv, McpOrder, Posts
<1>2. DOMAIN ids = 1 .. n /\ DOMAIN out = 1 .. m /\ \A i \in 1 .. m : out[i].id \in Nat
  <2> HIDE DEF ids, out
  <2>1. \A i \in 1 .. m : out[i] \in Answers
    BY <1>1
  <2> QED BY <1>1, <2>1 DEF Answers
<1>3. idsN = Append(ids, TRUE) /\ outN = Append(out, new)
  BY AnsweredLemma DEF McpInv
<1>4. /\ {out[i].id : i \in DOMAIN out} = {i \in DOMAIN ids : ids[i]}
      /\ \A i \in 1 .. m - 1 : out[i].id < out[i + 1].id
  BY DEF McpInv, M!ToolsAnswer, M!AnsweredAndLogged
<1>5. \A i \in 1 .. m : out[i].id <= n
  BY <1>2 DEF McpInv, McpOrder
<1>6. new.id = n + 1 /\ new.what = what
  OBVIOUS
<1> HIDE DEF ids, out, n, m, new
<1>7. /\ DOMAIN idsN = 1 .. n + 1 /\ Len(idsN) = n + 1 /\ idsN[n + 1] = TRUE
      /\ \A i \in 1 .. n : idsN[i] = ids[i]
  BY <1>1, <1>3 DEF n
<1>8. /\ DOMAIN outN = 1 .. m + 1 /\ Len(outN) = m + 1 /\ outN[m + 1] = new
      /\ \A i \in 1 .. m : outN[i] = out[i]
  BY <1>1, <1>3 DEF m
<1> HIDE DEF idsN, outN
<1>9. {outN[i].id : i \in DOMAIN outN} = {i \in DOMAIN idsN : idsN[i]}
  <2>1. ASSUME NEW x \in {outN[i].id : i \in DOMAIN outN}
        PROVE  x \in {i \in DOMAIN idsN : idsN[i]}
    <3>1. PICK i \in 1 .. m + 1 : x = outN[i].id
      BY <1>8
    <3>2. CASE i = m + 1
      BY <1>1, <1>6, <1>7, <1>8, <3>1, <3>2
    <3>3. CASE i # m + 1
      <4>1. i \in 1 .. m
        BY <1>1, <3>3
      <4>2. x = out[i].id
        BY <1>8, <3>1, <4>1
      <4>3. x \in {j \in DOMAIN ids : ids[j]}
        BY <1>2, <1>4, <4>1, <4>2
      <4> QED BY <1>1, <1>2, <1>7, <4>3
    <3> QED BY <3>2, <3>3
  <2>2. ASSUME NEW x \in {i \in DOMAIN idsN : idsN[i]}
        PROVE  x \in {outN[i].id : i \in DOMAIN outN}
    <3>1. CASE x = n + 1
      BY <1>1, <1>6, <1>8, <3>1
    <3>2. CASE x # n + 1
      <4>1. x \in 1 .. n /\ ids[x]
        BY <1>1, <1>7, <3>2
      <4>2. x \in {out[i].id : i \in DOMAIN out}
        BY <1>2, <1>4, <4>1
      <4>3. PICK i \in 1 .. m : x = out[i].id
        BY <1>2, <4>2
      <4>4. i \in 1 .. m + 1 /\ x = outN[i].id
        BY <1>1, <1>8, <4>3
      <4> QED BY <1>8, <4>4
    <3> QED BY <3>1, <3>2
  <2> QED BY <2>1, <2>2
<1>10. \A i \in 1 .. Len(outN) - 1 : outN[i].id < outN[i + 1].id
  <2> SUFFICES ASSUME NEW i \in 1 .. m PROVE outN[i].id < outN[i + 1].id
    BY <1>1, <1>8
  <2>1. CASE i = m
    BY <1>1, <1>2, <1>5, <1>6, <1>8, <2>1
  <2>2. CASE i # m
    <3>1. i \in 1 .. m - 1 /\ i + 1 \in 1 .. m
      BY <1>1, <2>2
    <3> QED BY <1>4, <1>8, <3>1
  <2> QED BY <2>1, <2>2
<1>11. \A i \in DOMAIN outN : outN[i].id <= n + 1 /\ (outN[i].id = n + 1 => i = m + 1)
  <2> SUFFICES ASSUME NEW i \in 1 .. m + 1 PROVE outN[i].id <= n + 1 /\ (outN[i].id = n + 1 => i = m + 1)
    BY <1>8
  <2>1. CASE i \in 1 .. m
    BY <1>1, <1>2, <1>5, <1>8, <2>1
  <2> QED BY <1>1, <1>6, <1>8, <2>1
<1>12. outN # <<>> /\ M!Last(outN) = new
  BY <1>1, <1>8 DEF M!Last
<1> QED BY <1>1, <1>6, <1>7, <1>8, <1>9, <1>10, <1>11, <1>12 DEF n, new, idsN, outN, ids

-----------------------------------------------------------------------------
(* Every step keeps the answers right *)

\* A request nothing of which has been answered.
Fresh ==
    /\ post \in Posts /\ post.ids = <<>> /\ post.out = <<>> /\ post.last = M!NoCall /\ log = <<>>
    /\ post.doing = M!NotDoing /\ post.changed = {}
    /\ post.open \/ post = M!NoPost

LEMMA FreshAnswers == Fresh => McpInv
<1> SUFFICES ASSUME Fresh PROVE McpInv
  OBVIOUS
<1>1. /\ post.ids = <<>> /\ post.out = <<>> /\ post.last = M!NoCall /\ log = <<>> /\ post \in Posts
      /\ post.doing = M!NotDoing /\ post.changed = {}
  BY DEF Fresh
<1>2. McpOrder
  BY <1>1 DEF McpOrder, DoingSound, Fresh
<1>3. M!AnsweredAndLogged
  BY <1>1 DEF M!AnsweredAndLogged
<1>4. M!ListedToolsWork
  BY <1>1 DEF M!ListedToolsWork
<1> QED BY <1>2, <1>3, <1>4 DEF McpInv, M!ToolsAnswer

LEMMA NoPostTyped == M!NoPost \in Posts /\ M!NoPost.open = FALSE
  /\ M!NoPost.ids = <<>> /\ M!NoPost.out = <<>> /\ M!NoPost.last = M!NoCall
  /\ M!NoPost.doing = M!NotDoing /\ M!NoPost.changed = {}
BY DEF M!NoPost, Posts

LEMMA McpInit == M!Init => McpInv
<1> SUFFICES ASSUME M!Init PROVE McpInv
  OBVIOUS
<1>1. Fresh
  BY NoPostTyped DEF M!Init, Fresh
<1> QED BY <1>1, FreshAnswers

LEMMA PostStep ==
    ASSUME McpInv, NEW d \in Doors, NEW h \in Headers, M!Post(d.readonly, d.may, h)
    PROVE  McpInv'
<1>1. post = M!NoPost /\ log = <<>> /\ log' = log
  BY DEF McpInv, McpOrder, M!Post
<1>2. post' = [M!NoPost EXCEPT !.open = TRUE, !.readonly = d.readonly, !.may = d.may, !.headers = h]
  BY DEF M!Post
<1>3. post' = [open |-> TRUE, readonly |-> d.readonly, may |-> d.may, headers |-> h,
               ids |-> <<>>, last |-> M!NoCall, out |-> <<>>, doing |-> M!NotDoing, changed |-> {}]
  BY <1>2 DEF M!NoPost
<1>4. d.readonly \in BOOLEAN /\ d.may \in {"none", "read", "write"}
  BY RulesAssumption DEF M!McpAssumption
<1>5. post' \in Posts
  BY <1>3, <1>4 DEF Posts
<1>6. /\ post'.ids = <<>> /\ post'.out = <<>> /\ post'.last = M!NoCall /\ post'.open = TRUE
      /\ post'.doing = M!NotDoing /\ post'.changed = {}
  BY <1>3
<1>7. Fresh'
  BY <1>1, <1>5, <1>6 DEF Fresh
<1>8. Fresh' => McpInv'
  BY FreshAnswers, PTL
<1> QED BY <1>7, <1>8

LEMMA ReplyStep == ASSUME McpInv, M!Reply \/ M!HangUp PROVE McpInv'
<1>1. Fresh'
  BY NoPostTyped DEF M!Reply, M!HangUp, Fresh
<1>2. Fresh' => McpInv'
  BY FreshAnswers, PTL
<1> QED BY <1>1, <1>2

\* Nothing that was answered or logged before is about the message to come.
LEMMA LogLemma ==
    ASSUME McpInv
    PROVE  /\ Len(post.ids) \in Nat /\ log \in Seq(Logged) /\ Len(log) \in Nat
           /\ \A i \in 1 .. Len(log) : log[i].n <= Len(post.ids) /\ log[i].n \in Nat
           /\ \A i \in 1 .. Len(log) - 1 : log[i].n < log[i + 1].n
<1>1. Len(post.ids) \in Nat /\ log \in Seq(Logged) /\ Len(log) \in Nat
  BY DEF McpInv, McpOrder, Posts
<1>2. \A i \in 1 .. Len(log) : log[i] \in Logged
  BY <1>1
<1>3. \A i \in 1 .. Len(log) : log[i].n <= Len(post.ids)
  BY <1>1 DEF McpInv, McpOrder
<1>4. \A i \in 1 .. Len(log) - 1 : log[i].n < log[i + 1].n
  BY DEF McpInv, M!ToolsAnswer, M!AnsweredAndLogged
<1> QED BY <1>1, <1>2, <1>3, <1>4 DEF Logged

LEMMA NotifyStep == ASSUME McpInv, M!Notify PROVE McpInv'
<1> DEFINE n == Len(post.ids)
           out == post.out
<1>1. /\ post.open /\ post.doing = M!NotDoing /\ log' = log
      /\ post' = [post EXCEPT !.ids = Append(@, FALSE), !.last = M!NoCall]
  BY DEF M!Notify, M!More
<1>2. post \in Posts /\ post.ids \in Seq(BOOLEAN) /\ n \in Nat /\ out \in Seq(Answers) /\ Len(out) \in Nat
  BY DEF McpInv, McpOrder, Posts
<1>3. Append(post.ids, FALSE) \in Seq(BOOLEAN)
  BY <1>2
<1>4. PICK ids : ids = Append(post.ids, FALSE)
  OBVIOUS
<1>5. post' = [open |-> post.open, readonly |-> post.readonly, may |-> post.may, headers |-> post.headers,
               ids |-> ids, last |-> M!NoCall, out |-> out, doing |-> M!NotDoing, changed |-> post.changed]
  BY <1>1, <1>2, <1>4 DEF Posts
<1>6. post' \in Posts
  BY <1>2, <1>3, <1>4, <1>5 DEF Posts
<1>7. /\ post'.open = post.open /\ post'.ids = ids /\ post'.last = M!NoCall /\ post'.out = out
      /\ post'.doing = M!NotDoing /\ post'.changed = post.changed
  BY <1>5
<1>8. DOMAIN ids = 1 .. n + 1 /\ Len(ids) = n + 1 /\ ids[n + 1] = FALSE /\ \A i \in 1 .. n : ids[i] = post.ids[i]
  <2> DEFINE was == post.ids
  <2>1. was \in Seq(BOOLEAN) /\ ids = Append(was, FALSE)
    BY <1>2, <1>4
  <2> HIDE DEF was
  <2>2. DOMAIN ids = 1 .. Len(was) + 1 /\ Len(ids) = Len(was) + 1 /\ \A i \in 1 .. Len(was) : ids[i] = was[i]
    BY <2>1
  <2>3. ids[Len(was) + 1] = FALSE
    BY <2>1
  <2> QED BY <2>2, <2>3 DEF was
<1>9. DOMAIN post.ids = 1 .. n /\ DOMAIN out = 1 .. Len(out)
  BY <1>2
<1>10. \A i \in 1 .. Len(out) : out[i].id <= n /\ out[i].id \in Nat
  <2>1. \A i \in 1 .. Len(out) : out[i] \in Answers
    BY <1>2
  <2>2. \A i \in 1 .. Len(out) : out[i].id <= n
    BY <1>9 DEF McpInv, McpOrder
  <2> QED BY <2>1, <2>2 DEF Answers
<1>11. /\ {out[i].id : i \in DOMAIN out} = {i \in DOMAIN post.ids : post.ids[i]}
       /\ \A i \in 1 .. Len(out) - 1 : out[i].id < out[i + 1].id
       /\ post.changed \subseteq {log[i].n : i \in DOMAIN log}
  BY <1>1 DEF McpInv, M!ToolsAnswer, M!AnsweredAndLogged
<1>12. {i \in DOMAIN post.ids : post.ids[i]} = {i \in DOMAIN ids : ids[i]}
  BY <1>2, <1>8, <1>9
<1> HIDE DEF out
<1>13. McpOrder'
  <2>1. \A i \in DOMAIN log : log[i].n <= n + 1
    BY <1>2, LogLemma
  <2>2. \A i \in DOMAIN out : out[i].id <= n + 1
    BY <1>2, <1>9, <1>10
  <2>3. DoingSound'
    BY <1>7 DEF DoingSound
  <2> QED BY <1>1, <1>6, <1>7, <1>8, <2>1, <2>2, <2>3, LogLemma DEF McpOrder
<1>14. M!AnsweredAndLogged'
  <2>1. ~(log # <<>> /\ M!Last(log).n = n + 1)
    BY LogLemma DEF M!Last
  <2>2. ~(out # <<>> /\ M!Last(out).id = n + 1)
    BY <1>2, <1>10 DEF M!Last
  <2>3. \A i \in 1 .. Len(log') - 1 : log'[i].n < log'[i + 1].n
    BY <1>1, LogLemma
  <2>4. Len(post'.ids) = n + 1 /\ post'.out = out /\ post'.ids = ids /\ log' = log
    BY <1>1, <1>7, <1>8
  <2>5. post'.changed \subseteq {log'[i].n : i \in DOMAIN log'}
    BY <1>1, <1>7, <1>11
  <2> QED BY <1>11, <1>12, <2>1, <2>2, <2>3, <2>4, <2>5 DEF M!AnsweredAndLogged
<1>15. M!ListedToolsWork'
  BY <1>7 DEF M!ListedToolsWork
<1> QED BY <1>13, <1>14, <1>15 DEF McpInv, M!ToolsAnswer

\* A message that is answered without a request to the API leaves the log.
LEMMA UnloggedStep ==
    ASSUME McpInv, post.open, post.doing = M!NotDoing, NEW c \in Calls \union {M!NoCall},
           NEW what \in Outcomes \ {"ok", "refused", "forbidden"}, post' = M!Answered(c, what), log' = log
    PROVE  McpOrder' /\ M!AnsweredAndLogged'
<1> DEFINE n == Len(post.ids)
<1>1. n \in Nat /\ Len(post'.ids) = n + 1
  BY AnswerOrder, LogLemma
<1>2. post' \in Posts /\ post'.open /\ post'.doing = M!NotDoing /\ post'.changed = post.changed
  BY AnsweredLemma DEF McpInv
<1>3. McpOrder'
  <2>1. \A i \in DOMAIN log : log[i].n <= n + 1
    BY <1>1, LogLemma
  <2>2. \A i \in DOMAIN post'.out : post'.out[i].id <= Len(post'.ids)
    BY AnswerOrder
  <2>3. DoingSound'
    BY <1>2 DEF DoingSound
  <2> QED BY <1>1, <1>2, <2>1, <2>2, <2>3, LogLemma DEF McpOrder
<1>4. M!AnsweredAndLogged'
  <2>1. ~(log # <<>> /\ M!Last(log).n = n + 1)
    BY <1>1, LogLemma DEF M!Last
  <2>2. M!Last(post'.out).what = what
    <3>1. M!Last(post'.out) = [id |-> Len(post'.ids), what |-> what]
      BY AnswerOrder
    <3> QED BY <3>1
  <2>3. M!Last(post'.out).what \notin {"ok", "refused", "forbidden"}
    BY <2>2
  <2>4. /\ {post'.out[i].id : i \in DOMAIN post'.out} = {i \in DOMAIN post'.ids : post'.ids[i]}
        /\ \A i \in 1 .. Len(post'.out) - 1 : post'.out[i].id < post'.out[i + 1].id
    BY AnswerOrder
  <2>5. \A i \in 1 .. Len(log') - 1 : log'[i].n < log'[i + 1].n
    BY LogLemma
  <2>6. ~(log' # <<>> /\ M!Last(log').n = Len(post'.ids))
    BY <1>1, <2>1
  <2>7. post'.changed \subseteq {log'[i].n : i \in DOMAIN log'}
    BY <1>2 DEF McpInv, M!ToolsAnswer, M!AnsweredAndLogged
  <2> QED BY <2>3, <2>4, <2>5, <2>6, <2>7 DEF M!AnsweredAndLogged
<1> QED BY <1>3, <1>4

\* What the answer to a call has to be for the tools to be as listed.
LEMMA ListedLemma ==
    ASSUME McpInv, post.open, NEW c \in Calls \union {M!NoCall}, NEW what \in Outcomes,
           post' = M!Answered(c, what),
           c # M!NoCall =>
             IF c.tool \in M!Listed(post.readonly)
             THEN M!Schemas[c.tool].required \subseteq M!Texts(c.args) \union (IF c.key = M!Null THEN {} ELSE {"key"})
                    => what \notin {"no such tool", "missing argument", "read-only"}
             ELSE what \in {"no such tool", "read-only"}
    PROVE  M!ListedToolsWork'
<1>1. post'.last = c /\ post'.readonly = post.readonly
  BY AnsweredLemma DEF McpInv
<1> DEFINE answers == {post'.out[i].what : i \in {j \in DOMAIN post'.out : post'.out[j].id = Len(post'.ids)}}
<1>2. answers \subseteq {what}
  BY AnswerOrder
<1>3. M!ListedToolsWork' = (c # M!NoCall =>
         IF c.tool \in M!Listed(post.readonly)
         THEN M!Schemas[c.tool].required \subseteq M!Texts(c.args) \union (IF c.key = M!Null THEN {} ELSE {"key"})
                => answers \intersect {"no such tool", "missing argument", "read-only"} = {}
         ELSE answers \subseteq {"no such tool", "read-only"})
  BY <1>1 DEF M!ListedToolsWork
<1> HIDE DEF answers
<1> QED BY <1>2, <1>3

LEMMA SimpleStep ==
    ASSUME McpInv, NEW method \in {"initialize", "ping", "tools/list", "other"}, M!Simple(method)
    PROVE  McpInv'
<1> DEFINE what == IF method = "other" THEN "no such method" ELSE method
<1>1. post.open /\ post.doing = M!NotDoing /\ post' = M!Answered(M!NoCall, what) /\ log' = log
  BY DEF M!Simple, M!More
<1>2. what \in Outcomes \ {"ok", "refused", "forbidden"}
  BY DEF Outcomes
<1> HIDE DEF what
<1>3. McpOrder' /\ M!AnsweredAndLogged'
  BY <1>1, <1>2, UnloggedStep
<1>4. M!ListedToolsWork'
  BY <1>1, <1>2, ListedLemma
<1> QED BY <1>3, <1>4 DEF McpInv, M!ToolsAnswer

\* What is offered is planned as its schema says.
LEMMA UnplannedLemma ==
    ASSUME NEW c \in Calls, NEW readonly \in BOOLEAN, c.tool \in M!Listed(readonly),
           M!Schemas[c.tool].required \subseteq M!Texts(c.args) \union (IF c.key = M!Null THEN {} ELSE {"key"})
    PROVE  M!Unplanned(c) \in {"bad argument", "planned"}
<1>1. c.tool \in DOMAIN M!Schemas
  BY DEF M!Listed
<1>2. M!RouteOf(c.tool) # M!NoRoute /\ M!RouteOf(c.tool).required = M!Schemas[c.tool].required
  BY <1>1, ToolsLemma
<1>3. "key" \notin M!Texts(c.args)
  BY RulesAssumption DEF M!McpAssumption, M!Texts
<1> DEFINE required == M!RouteOf(c.tool).required
<1>4. required \ {"key"} \subseteq M!Texts(c.args) /\ ("key" \in required => c.key # M!Null)
  BY <1>2, <1>3
<1> QED BY <1>2, <1>4 DEF M!Unplanned

LEMMA OutcomeLemma ==
    ASSUME NEW c PROVE M!Unplanned(c) \in {"no such tool", "missing argument", "bad argument", "planned"}
BY DEF M!Unplanned

\* Every call the API is asked to carry out was listed.
LEMMA PlannedLemma ==
    ASSUME NEW c \in Calls, NEW readonly \in BOOLEAN, ~(readonly /\ c.tool \in M!WriteTools), M!Unplanned(c) = "planned"
    PROVE  c.tool \in M!Listed(readonly)
<1>1. M!RouteOf(c.tool) # M!NoRoute
  BY DEF M!Unplanned
<1>2. c.tool \in DOMAIN M!Schemas
  BY <1>1, ToolsLemma
<1> QED BY <1>2 DEF M!Listed

LEMMA ForwardStep ==
    ASSUME McpInv, post.open, post.doing = M!NotDoing, NEW c \in Calls, c.tool \in M!Listed(post.readonly),
           M!Forward(c, M!Attribution(<<c.ctx, c.meta, post.headers>>))
    PROVE  McpInv'
<1> DEFINE n == Len(post.ids)
           r == M!RouteOf(c.tool)
           by == M!Attribution(<<c.ctx, c.meta, post.headers>>)
           code == IF ~M!May(post.may, r.method, r.path) THEN "forbidden"
                   ELSE IF r.method = "POST"
                        THEN IF M!Accepts(r.path, c.key, M!Body(c.tool, c.args)) THEN "ok" ELSE "refused"
                        ELSE IF "key" \in r.required /\ ~M!Exists(c.key) THEN "refused" ELSE "ok"
           whom == IF code = "forbidden" THEN M!Nobody ELSE by
           d == [call |-> c, by |-> whom, code |-> code]
           changed == IF entry' = entry THEN post.changed ELSE post.changed \union {M!Number}
<1>1. code \in {"forbidden", "ok", "refused"}
  OBVIOUS
<1>2. post' = [post EXCEPT !.doing = d, !.changed = changed] /\ log' = log
  BY DEF M!Forward
<1>3. whom \in Who
  <2>1. post.headers \in Headers \union {M!Nobody}
    BY DEF McpInv, McpOrder, Posts
  <2> HIDE DEF code
  <2> QED BY <2>1, SMTT(30) DEF Who
<1>4. Attributed(whom, c, post.headers)
  <2>1. CASE whom = M!Nobody
    BY <2>1 DEF M!Nobody, Attributed
  <2>2. CASE whom = by
    <3> HIDE DEF code
    <3>1. whom.session # M!Empty => \E s \in {c.ctx, c.meta, post.headers} :
             s.session = whom.session /\ s.agent \in {M!Empty, whom.agent}
      BY <2>2, AttributionLemma
    <3> QED BY <3>1 DEF Attributed
  <2> QED BY <2>1, <2>2
<1>5. entry' # entry => r.method = "POST"
  BY DEF M!Forward
<1> HIDE DEF code, whom
<1>6. d \in Doings /\ d.call = c /\ d.by = whom
  BY <1>1, <1>3 DEF Doings
<1>7. /\ n \in Nat /\ M!Number = n + 1 /\ post \in Posts
      /\ \A i \in 1 .. Len(log) : log[i].n <= n
  BY LogLemma DEF M!Number, McpInv, McpOrder
<1>8. post.changed \subseteq {log[i].n : i \in DOMAIN log} /\ DOMAIN log = 1 .. Len(log)
  <2>1. DOMAIN log = 1 .. Len(log)
    BY LogLemma
  <2> QED BY <2>1 DEF McpInv, M!ToolsAnswer, M!AnsweredAndLogged
<1>9. changed \subseteq post.changed \union {n + 1} /\ (n + 1 \in changed => r.method = "POST")
  <2>1. n + 1 \notin post.changed
    BY <1>7, <1>8, LogLemma, SMTT(30)
  <2> QED BY <1>5, <1>7, <2>1
<1> HIDE DEF d, changed, r
<1>10. post' = [open |-> post.open, readonly |-> post.readonly, may |-> post.may, headers |-> post.headers,
                ids |-> post.ids, last |-> post.last, out |-> post.out, doing |-> d, changed |-> changed]
  BY <1>2, <1>7 DEF Posts
<1>11. /\ post'.open = post.open /\ post'.readonly = post.readonly /\ post'.headers = post.headers
       /\ post'.ids = post.ids /\ post'.last = post.last /\ post'.out = post.out
       /\ post'.doing = d /\ post'.changed = changed
  BY <1>10
<1>12. post' \in Posts
  <2>1. changed \in SUBSET Nat
    BY <1>7, <1>9 DEF Posts
  <2> QED BY <1>6, <1>7, <1>10, <2>1 DEF Posts
<1>13. d # M!NotDoing
  <2>1. M!NotDoing.code = ""
    BY DEF M!NotDoing
  <2>2. d.code \in {"forbidden", "ok", "refused"}
    BY <1>6 DEF Doings
  <2> QED BY <2>1, <2>2
<1>14. McpOrder'
  <2>1. DoingSound'
    <3>1. M!Number' = n + 1
      BY <1>11 DEF M!Number
    <3>2. n + 1 \in post'.changed => M!RouteOf(post'.doing.call.tool).method = "POST"
      BY <1>6, <1>9, <1>11 DEF r
    <3>3. Attributed(post'.doing.by, post'.doing.call, post'.headers)
      BY <1>4, <1>6, <1>11
    <3>4. post'.open /\ post'.doing.call.tool \in M!Listed(post'.readonly)
      BY <1>6, <1>11
    <3> QED BY <3>1, <3>2, <3>3, <3>4 DEF DoingSound
  <2> QED BY <1>2, <1>11, <1>12, <2>1 DEF McpInv, McpOrder
<1>15. M!AnsweredAndLogged'
  <2>1. post'.changed \subseteq {log'[i].n : i \in DOMAIN log'} \union {M!Number'}
    <3>1. M!Number' = n + 1
      BY <1>11 DEF M!Number
    <3> QED BY <1>2, <1>8, <1>9, <1>11, <3>1
  <2>2. M!AnsweredAndLogged
    BY DEF McpInv, M!ToolsAnswer
  <2> QED BY <1>2, <1>11, <1>13, <2>1, <2>2 DEF M!AnsweredAndLogged
<1>16. M!ListedToolsWork'
  <2> HIDE DEF n, by
  <2>1. {post'.out[i].what : i \in {j \in DOMAIN post'.out : post'.out[j].id = Len(post'.ids)}} =
        {post.out[i].what : i \in {j \in DOMAIN post.out : post.out[j].id = Len(post.ids)}}
    BY <1>11
  <2>2. M!ListedToolsWork
    BY DEF McpInv, M!ToolsAnswer
  <2>3. post'.last = post.last /\ post'.readonly = post.readonly
    BY <1>11
  <2> QED BY <2>1, <2>2, <2>3 DEF M!ListedToolsWork
<1> QED BY <1>14, <1>15, <1>16 DEF McpInv, M!ToolsAnswer

LEMMA FinishStep == ASSUME McpInv, M!Finish PROVE McpInv'
<1> DEFINE n == Len(post.ids)
           d == post.doing
           c == d.call
           r == M!RouteOf(c.tool)
           line == [n |-> n + 1, by |-> d.by]
           polling == M!IsPolling(r.method, r.path)
<1>1. /\ d \in Doings /\ post.open /\ c.tool \in M!Listed(post.readonly) /\ Attributed(d.by, c, post.headers)
      /\ n + 1 \in post.changed => r.method = "POST"
  BY DEF M!Finish, McpInv, McpOrder, DoingSound, Posts, M!Number
<1>2. post' = M!Answered(c, d.code) /\ log' = IF polling THEN log ELSE Append(log, line)
  BY DEF M!Finish, M!Number
<1>3. PICK code \in {"forbidden", "ok", "refused"} : code = d.code
  BY <1>1 DEF Doings
<1>4. d.by \in Who /\ c \in Calls
  BY <1>1 DEF Doings
<1> HIDE DEF d, polling
<1>5. code \in Outcomes /\ c \in Calls \union {M!NoCall}
  BY <1>3, <1>4 DEF Outcomes
<1>6. post' = M!Answered(c, code)
  BY <1>2, <1>3
<1>7. n \in Nat /\ Len(post'.ids) = n + 1
  BY <1>1, <1>5, <1>6, AnswerOrder, LogLemma
<1>8. line \in Logged /\ line.n = n + 1 /\ line.by = d.by
  BY <1>4, <1>7 DEF Logged
<1>9. log' \in Seq(Logged)
  <2> HIDE DEF line
  <2> QED BY <1>2, <1>8, LogLemma
<1>10. /\ \A i \in 1 .. Len(log') : log'[i].n <= n + 1
       /\ \A i \in 1 .. Len(log') - 1 : log'[i].n < log'[i + 1].n
       /\ ~polling => log' # <<>> /\ M!Last(log') = line
       /\ polling => ~(log' # <<>> /\ M!Last(log').n = n + 1)
       /\ {log[i].n : i \in DOMAIN log} \union (IF polling THEN {} ELSE {n + 1}) \subseteq {log'[i].n : i \in DOMAIN log'}
  <2>1. CASE polling
    <3>1. log' = log
      BY <1>2, <2>1
    <3> QED BY <1>7, <2>1, <3>1, LogLemma DEF M!Last
  <2>2. CASE ~polling
    <3> DEFINE m == Len(log)
    <3>0. m \in Nat
      BY LogLemma
    <3> HIDE DEF line
    <3>1. log' = Append(log, line)
      BY <1>2, <2>2
    <3>2. /\ Len(log') = m + 1 /\ log'[m + 1] = line /\ \A i \in 1 .. m : log'[i] = log[i]
          /\ DOMAIN log = 1 .. m /\ DOMAIN log' = 1 .. m + 1
      BY <3>1, LogLemma
    <3> HIDE DEF m
    <3>3. \A i \in 1 .. m : log[i].n <= n /\ log[i].n \in Nat
      BY LogLemma DEF m
    <3>4. \A i \in 1 .. m - 1 : log[i].n < log[i + 1].n
      BY LogLemma DEF m
    <3>5. \A i \in 1 .. m + 1 : log'[i].n <= n + 1
      <4> SUFFICES ASSUME NEW i \in 1 .. m + 1 PROVE log'[i].n <= n + 1
        OBVIOUS
      <4>1. CASE i \in 1 .. m
        BY <1>7, <3>2, <3>3, <4>1
      <4>2. CASE i = m + 1
        BY <1>7, <1>8, <3>2, <4>2
      <4> QED BY <3>0, <4>1, <4>2
    <3>6. \A i \in 1 .. m : log'[i].n < log'[i + 1].n
      <4> SUFFICES ASSUME NEW i \in 1 .. m PROVE log'[i].n < log'[i + 1].n
        OBVIOUS
      <4>1. CASE i = m
        BY <1>7, <1>8, <3>0, <3>2, <3>3, <4>1
      <4>2. CASE i # m
        <5>1. i \in 1 .. m - 1 /\ i + 1 \in 1 .. m
          BY <3>0, <4>2
        <5> QED BY <3>2, <3>4, <5>1
      <4> QED BY <4>1, <4>2
    <3>7. log' # <<>> /\ M!Last(log') = line
      BY <1>9, <3>0, <3>2 DEF M!Last
    <3>8. {log[i].n : i \in DOMAIN log} \union {n + 1} \subseteq {log'[i].n : i \in DOMAIN log'}
      <4>1. \A i \in 1 .. m : i \in 1 .. m + 1
        BY <3>0
      <4>2. m + 1 \in 1 .. m + 1 /\ log'[m + 1].n = n + 1
        BY <1>8, <3>0, <3>2
      <4> QED BY <3>2, <4>1, <4>2
    <3>9. /\ \A i \in 1 .. Len(log') : log'[i].n <= n + 1
          /\ \A i \in 1 .. Len(log') - 1 : log'[i].n < log'[i + 1].n
      <4>1. Len(log') = m + 1 /\ Len(log') - 1 = m
        BY <3>0, <3>2
      <4>2. \A i \in 1 .. Len(log') : log'[i].n <= n + 1
        BY <3>5, <4>1
      <4>3. \A i \in 1 .. Len(log') - 1 : log'[i].n < log'[i + 1].n
        BY <3>6, <4>1
      <4> QED BY <4>2, <4>3
    <3> QED BY <2>2, <3>7, <3>8, <3>9
  <2> QED BY <2>1, <2>2
<1>11. /\ post' \in Posts /\ post'.open /\ post'.doing = M!NotDoing /\ post'.changed = post.changed
       /\ post'.last = c /\ post'.headers = post.headers
  BY <1>1, <1>5, <1>6, AnsweredLemma DEF McpInv
<1>12. McpOrder'
  <2>1. \A i \in DOMAIN post'.out : post'.out[i].id <= Len(post'.ids)
    BY <1>1, <1>5, <1>6, AnswerOrder
  <2>2. DoingSound'
    BY <1>11 DEF DoingSound
  <2> QED BY <1>7, <1>9, <1>10, <1>11, <2>1, <2>2 DEF McpOrder
<1>13. M!AnsweredAndLogged'
  <2>1. /\ post'.out # <<>> /\ M!Last(post'.out) = [id |-> Len(post'.ids), what |-> code]
        /\ {post'.out[i].id : i \in DOMAIN post'.out} = {i \in DOMAIN post'.ids : post'.ids[i]}
        /\ \A i \in 1 .. Len(post'.out) - 1 : post'.out[i].id < post'.out[i + 1].id
    BY <1>1, <1>5, <1>6, AnswerOrder
  <2>2. M!Last(post'.out).id = Len(post'.ids) /\ M!Last(post'.out).what \in {"ok", "refused", "forbidden"}
    BY <1>3, <2>1
  <2>3. log' # <<>> /\ M!Last(log').n = Len(post'.ids) <=> ~polling
    BY <1>7, <1>8, <1>10
  <2>4. polling <=> M!IsPolling(M!RouteOf(post'.last.tool).method, M!RouteOf(post'.last.tool).path)
    BY <1>11 DEF polling
  <2>5. log' # <<>> /\ M!Last(log').n = Len(post'.ids) => M!Last(log').by = d.by
    BY <1>8, <1>10, <2>3
  <2>6. \A i \in 1 .. Len(log') - 1 : log'[i].n < log'[i + 1].n
    BY <1>10
  <2>7. log' # <<>> /\ M!Last(log').n = Len(post'.ids) /\ M!Last(log').by.session # M!Empty =>
            \E s \in {post'.last.ctx, post'.last.meta, post'.headers} :
              s.session = M!Last(log').by.session /\ s.agent \in {M!Empty, M!Last(log').by.agent}
    BY <1>1, <1>11, <2>5 DEF Attributed
  <2>8. post'.changed \subseteq {log'[i].n : i \in DOMAIN log'}
    <3>1. post.changed \subseteq {log[i].n : i \in DOMAIN log} \union {n + 1}
      BY DEF McpInv, M!ToolsAnswer, M!AnsweredAndLogged, M!Number
    <3>2. polling => n + 1 \notin post.changed
      BY <1>1 DEF polling, M!IsPolling
    <3> QED BY <1>10, <1>11, <3>1, <3>2
  <2> QED BY <2>1, <2>2, <2>3, <2>4, <2>6, <2>7, <2>8 DEF M!AnsweredAndLogged
<1>14. M!ListedToolsWork'
  <2>1. code \notin {"no such tool", "missing argument", "read-only"}
    BY <1>3
  <2> QED BY <1>1, <1>5, <1>6, <2>1, ListedLemma
<1> QED BY <1>12, <1>13, <1>14 DEF McpInv, M!ToolsAnswer

LEMMA CallStep ==
    ASSUME McpInv, NEW c \in Calls, M!Call(c)
    PROVE  McpInv'
<1>1. post.open /\ post.readonly \in BOOLEAN /\ post.doing = M!NotDoing
  BY DEF M!Call, M!More, McpInv, McpOrder, Posts
<1>2. c \in Calls \union {M!NoCall}
  OBVIOUS
<1>3. M!Listed(post.readonly) \subseteq DOMAIN M!Schemas
  BY DEF M!Listed
<1>4. CASE post.readonly /\ c.tool \in M!WriteTools
  <2>1. post' = M!Answered(c, "read-only") /\ log' = log
    BY <1>4 DEF M!Call
  <2>2. PICK what \in Outcomes \ {"ok", "refused", "forbidden"} : what = "read-only"
    BY DEF Outcomes
  <2>3. McpOrder' /\ M!AnsweredAndLogged'
    BY <1>1, <1>2, <2>1, <2>2, UnloggedStep
  <2>4. c.tool \notin M!Listed(post.readonly)
    BY <1>4 DEF M!Listed
  <2>5. M!ListedToolsWork'
    <3>1. what \in Outcomes /\ what \in {"no such tool", "read-only"}
      BY <2>2
    <3> QED BY <1>1, <1>2, <2>1, <2>2, <2>4, <3>1, ListedLemma
  <2> QED BY <2>3, <2>5 DEF McpInv, M!ToolsAnswer
<1>5. CASE ~(post.readonly /\ c.tool \in M!WriteTools) /\ M!Unplanned(c) # "planned"
  <2>1. post' = M!Answered(c, M!Unplanned(c)) /\ log' = log
    BY <1>5 DEF M!Call
  <2>2. PICK what \in Outcomes \ {"ok", "refused", "forbidden"} : what = M!Unplanned(c)
    BY <1>5, OutcomeLemma DEF Outcomes
  <2>3. McpOrder' /\ M!AnsweredAndLogged'
    BY <1>1, <1>2, <2>1, <2>2, UnloggedStep
  <2>4. ASSUME c.tool \in M!Listed(post.readonly),
               M!Schemas[c.tool].required \subseteq M!Texts(c.args) \union (IF c.key = M!Null THEN {} ELSE {"key"})
        PROVE  what \notin {"no such tool", "missing argument", "read-only"}
    BY <1>1, <2>2, <2>4, UnplannedLemma
  <2>5. ASSUME c.tool \notin M!Listed(post.readonly)
        PROVE  what \in {"no such tool", "read-only"}
    <3>1. c.tool \notin DOMAIN M!Schemas
      BY <1>1, <1>5, <2>5 DEF M!Listed
    <3>2. M!RouteOf(c.tool) = M!NoRoute
      BY <3>1, ToolsLemma
    <3> QED BY <2>2, <3>2 DEF M!Unplanned
  <2>6. M!ListedToolsWork'
    <3>1. what \in Outcomes /\ post' = M!Answered(c, what)
      BY <2>1, <2>2
    <3> QED BY <1>1, <1>2, <2>4, <2>5, <3>1, ListedLemma
  <2> QED BY <2>3, <2>6 DEF McpInv, M!ToolsAnswer
<1>6. CASE ~(post.readonly /\ c.tool \in M!WriteTools) /\ M!Unplanned(c) = "planned"
  <2>1. M!Forward(c, M!Attribution(<<c.ctx, c.meta, post.headers>>))
    BY <1>6 DEF M!Call
  <2>2. c.tool \in M!Listed(post.readonly)
    BY <1>1, <1>6, PlannedLemma
  <2> QED BY <1>1, <2>1, <2>2, ForwardStep
<1> QED BY <1>4, <1>5, <1>6

LEMMA McpStep == McpInv /\ [M!Next]_mcpVars => McpInv'
<1> SUFFICES ASSUME McpInv, [M!Next]_mcpVars PROVE McpInv'
  OBVIOUS
<1>1. ASSUME NEW d \in Doors, NEW h \in Headers, M!Post(d.readonly, d.may, h) PROVE McpInv'
  BY <1>1, PostStep
<1>2. CASE M!Notify
  BY <1>2, NotifyStep
<1>3. ASSUME NEW c \in Calls, M!Call(c) PROVE McpInv'
  BY <1>3, CallStep
<1>4. ASSUME NEW method \in {"initialize", "ping", "tools/list", "other"}, M!Simple(method) PROVE McpInv'
  BY <1>4, SimpleStep
<1>5. CASE M!Reply \/ M!HangUp
  BY <1>5, ReplyStep
<1>6. CASE M!Finish
  BY <1>6, FinishStep
<1>7. CASE UNCHANGED mcpVars
  <2>1. post' = post /\ log' = log
    BY <1>7 DEF mcpVars
  <2>2. McpOrder'
    BY <2>1 DEF McpInv, McpOrder, DoingSound, Attributed, M!Number
  <2>3. M!AnsweredAndLogged'
    BY <2>1 DEF McpInv, M!ToolsAnswer, M!AnsweredAndLogged, M!Number
  <2>4. M!ListedToolsWork'
    BY <2>1 DEF McpInv, M!ToolsAnswer, M!ListedToolsWork
  <2> QED BY <2>2, <2>3, <2>4 DEF McpInv, M!ToolsAnswer
<1> QED BY <1>1, <1>2, <1>3, <1>4, <1>5, <1>6, <1>7 DEF M!Next

\* Every message with an id is answered once and in order, every call that
\* reached the API is logged once by the time it is answered, what it changed
\* with it, and put down to who made it, and the tools are as listed (mcp.rs
\* handle_one, call_tool, attribution, tools; audit_mw).
THEOREM ToolsAnswered == RulesSpec => []ToolsAnswer
<1>1. RulesInit => McpInv
  BY McpInit DEF RulesInit
<1>2. McpInv /\ [RulesNext]_rulesVars => McpInv'
  <2> SUFFICES ASSUME McpInv, [RulesNext]_rulesVars PROVE McpInv'
    OBVIOUS
  <2>1. [M!Next]_mcpVars
    BY DEF RulesNext, rulesVars
  <2> QED BY <2>1, McpStep
<1>3. McpInv => ToolsAnswer
  BY DEF McpInv, ToolsAnswer
<1> QED BY <1>1, <1>2, <1>3, PTL DEF RulesSpec

LEMMA EntryStep ==
    ASSUME McpInv, NEW c \in Calls, M!Call(c), entry' # entry
    PROVE  /\ ~(post.readonly /\ c.tool \in M!WriteTools) /\ M!Unplanned(c) = "planned"
           /\ M!RouteOf(c.tool).method = "POST" /\ M!May(post.may, "POST", M!RouteOf(c.tool).path)
           /\ M!Accepts(M!RouteOf(c.tool).path, c.key, M!Body(c.tool, c.args))
           /\ entry' = [entry EXCEPT ![c.key] = M!Written(c.key, M!Body(c.tool, c.args))]
           /\ post'.doing.call = c /\ post'.doing.code = "ok"
<1>1. ~(post.readonly /\ c.tool \in M!WriteTools) /\ M!Unplanned(c) = "planned" /\ post.open
  BY DEF M!Call, M!More
<1>2. M!Forward(c, M!Attribution(<<c.ctx, c.meta, post.headers>>))
  BY <1>1 DEF M!Call
<1> DEFINE r == M!RouteOf(c.tool)
<1>3. r.method = "POST" /\ M!May(post.may, r.method, r.path) /\ M!Accepts(r.path, c.key, M!Body(c.tool, c.args))
  BY <1>2 DEF M!Forward
<1>4. entry' = [entry EXCEPT ![c.key] = M!Written(c.key, M!Body(c.tool, c.args))]
  BY <1>2, <1>3 DEF M!Forward
<1>5. PICK by, changed : post' = [post EXCEPT !.doing = [call |-> c, by |-> by, code |-> "ok"], !.changed = changed]
  BY <1>2, <1>3 DEF M!Forward
<1>6. post'.doing = [call |-> c, by |-> by, code |-> "ok"]
  <2>1. post \in Posts
    BY DEF McpInv, McpOrder
  <2> QED BY <1>5, <2>1 DEF Posts
<1> QED BY <1>1, <1>3, <1>4, <1>6

LEMMA EntryFrame ==
    ASSUME [M!Next]_mcpVars, entry' # entry
    PROVE  \E c \in Calls : M!Call(c)
BY DEF M!Next, mcpVars, M!Post, M!Notify, M!Simple, M!Finish, M!Reply, M!HangUp

\* Every tool that writes names the key it writes.
LEMMA PostNamesKey ==
    ASSUME NEW c \in Calls, M!Unplanned(c) = "planned", M!RouteOf(c.tool).method = "POST"
    PROVE  c.key \in McpKeys
<1>1. c.tool \in M!WriteTools
  BY ToolsLemma
<1>2. "key" \in M!RouteOf(c.tool).required
  BY <1>1 DEF M!WriteTools, M!RouteOf, M!Route
<1>3. c.key # M!Null
  BY <1>2 DEF M!Unplanned
<1> QED BY <1>3, RulesAssumption DEF M!McpAssumption

\* A call changes one entry at most, for a caller who may write and is not
\* read-only, and of it what the call names (mcp.rs plan; main.rs need).
THEOREM ChangesNamed == RulesSpec => ChangesAreNamed
<1> DEFINE Entered == entry = [k \in McpKeys |-> entry[k]]
           Inv == McpInv /\ Entered
<1>1. RulesInit => Inv
  BY McpInit DEF RulesInit, M!Init
<1>2. Inv /\ [RulesNext]_rulesVars => Inv'
  <2> SUFFICES ASSUME Inv, [RulesNext]_rulesVars PROVE Inv'
    OBVIOUS
  <2>1. [M!Next]_mcpVars
    BY DEF RulesNext, rulesVars
  <2>2. CASE entry' = entry
    BY <2>1, <2>2, McpStep
  <2>3. CASE entry' # entry
    <3>1. PICK c \in Calls : M!Call(c)
      BY <2>1, <2>3, EntryFrame
    <3>2. entry' = [entry EXCEPT ![c.key] = M!Written(c.key, M!Body(c.tool, c.args))]
      BY <2>3, <3>1, EntryStep
    <3>3. Entered'
      BY <3>2
    <3> QED BY <2>1, <3>3, McpStep
  <2> QED BY <2>2, <2>3
<1>3. ASSUME Inv, [RulesNext]_rulesVars, entry' # entry
      PROVE  LET c == post'.doing.call
                 k == c.key
             IN /\ ~post.readonly /\ post.may = "write"
                /\ post'.doing.code = "ok"
                /\ \A j \in McpKeys \ {k} : entry'[j] = entry[j]
                /\ \A f \in {"tags", "due", "assignee"} :
                     entry'[k][f] # M!StoredOf(k)[f] =>
                       \/ f \in DOMAIN c.args /\ c.args[f] # M!Null
                       \/ f = "tags" /\ M!KindOf(k) = "knowledge"
                       \/ f = "assignee" /\ c.tool = "kyb_task"
  <2>1. [M!Next]_mcpVars
    BY <1>3 DEF RulesNext, rulesVars
  <2>2. PICK c \in Calls : M!Call(c)
    BY <1>3, <2>1, EntryFrame
  <2> DEFINE r == M!RouteOf(c.tool)
             body == M!Body(c.tool, c.args)
             k == c.key
  <2>3. /\ ~(post.readonly /\ c.tool \in M!WriteTools) /\ M!Unplanned(c) = "planned"
        /\ r.method = "POST" /\ M!May(post.may, "POST", r.path)
        /\ M!Accepts(r.path, k, body)
        /\ entry' = [entry EXCEPT ![k] = M!Written(k, body)]
        /\ post'.doing.call = c /\ post'.doing.code = "ok"
    BY <1>3, <2>2, EntryStep
  <2>4. k \in McpKeys /\ k \in DOMAIN entry
    BY <1>3, <2>3, PostNamesKey
  <2>5. c.tool \in M!WriteTools /\ ~post.readonly
    BY <2>3, ToolsLemma
  <2>6. post.may = "write"
    <3>1. r.path # "/healthz"
      BY <2>5 DEF M!WriteTools, M!RouteOf, M!Route
    <3> QED BY <2>3, <3>1 DEF M!May
  <2>8. \A j \in McpKeys \ {k} : entry'[j] = entry[j]
    BY <1>3, <2>3
  <2>9. ASSUME NEW f \in {"tags", "due", "assignee"}, entry'[k][f] # M!StoredOf(k)[f]
        PROVE  \/ f \in DOMAIN c.args /\ c.args[f] # M!Null
               \/ f = "tags" /\ M!KindOf(k) = "knowledge"
               \/ f = "assignee" /\ c.tool = "kyb_task"
    <3>1. M!Written(k, body)[f] # M!StoredOf(k)[f]
      BY <2>3, <2>4, <2>9
    <3> QED BY <2>3, <2>4, <3>1, BodyLemma
  <2> QED BY <2>3, <2>5, <2>6, <2>8, <2>9
<1> QED BY <1>1, <1>2, <1>3, PTL DEF RulesSpec, ChangesAreNamed, M!ChangesAreNamed

-----------------------------------------------------------------------------
\* A behaviour of the composition is one of Reads, whose theorems hold of it.
LEMMA RulesAreReads == RulesSpec => Spec
<1>1. RulesInit => Init
  BY DEF RulesInit
<1>2. [RulesNext]_rulesVars => [Next]_vars
  BY DEF RulesNext, rulesVars
<1> QED BY <1>1, <1>2, PTL DEF RulesSpec, Spec
=============================================================================
