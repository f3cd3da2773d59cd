-------------------------- MODULE LinkCache_proofs --------------------------
(* Theorems about LinkCache, for any set of keys and any number of requests: *)
(* the kept index is exact for the working tree, always; for the archive too, *)
(* and so are the answers made of it, until an older answer has replaced a    *)
(* newer one (the run links_race shows what follows then).                    *)
EXTENDS LinkCache, TLAPS

\* The locals that hold what links() read.
Prev == [Keys -> Nat] \union {NoCache}
Local == [gen : Nat, prev : Prev, noted : SUBSET [n : Nat, key : Keys],
          scanned : SUBSET Keys, head : [Keys -> Nat], alive : SUBSET Keys,
          archived : [Keys -> Nat]]
\* Where a builder and the write may be.
BuildSteps == {"idle", "read_cache", "read_notes", "list_head", "list_alive",
               "walk_history", "extend", "check", "install", "settle", "answer"}
WriteSteps == {"idle", "write_file", "fill_file", "commit_file", "remove_file",
               "commit_removal", "note", "invalidate", "forget"}

Kept == [gen : Nat, index : [Keys -> Nat], archived : [Keys -> Nat]]

Types ==
    /\ tree \in [Keys -> Nat] /\ hist \in [Keys -> Nat] /\ staged \in [Keys -> Nat]
    /\ torn \subseteq Keys /\ lost \subseteq Keys
    /\ gen \in Nat /\ writes \in Nat /\ noteSeq \in Nat
    /\ notes \subseteq [n : Nat, key : Keys]
    /\ kept \in Kept \union {NoCache}
    /\ wkeys \subseteq Keys /\ hungUp \subseteq Keys
    /\ b \in [Builders -> Local]
    /\ pc \in [Builders -> BuildSteps]

\* A key is being written while there is a write; a dropped DELETE is between
\* two writes.
WriteInv ==
    /\ wpc = "idle" => wkeys = {}
    /\ wpc # "idle" => hungUp = {}

\* The keys no write in progress or dropped half way can be changing.
Settled == Keys \ (wkeys \union hungUp)

\* Nothing carries a generation that is not reached yet.
GenInv ==
    /\ \A x \in Builders : b[x].gen <= gen
    /\ kept # NoCache => kept.gen <= gen

\* Retracted knowledge is never noted, and never in the archive.
KnowledgeInv ==
    /\ wclosed => wkeys \intersect Knowledge = {}
    /\ wpc = "note" => wclosed
    /\ \A n \in notes : n.key \notin Knowledge
    /\ \A x \in Builders :
         /\ \A n \in b[x].noted : n.key \notin Knowledge
         /\ \A k \in Knowledge :
              /\ b[x].prev # NoCache => b[x].prev[k] = 0
              /\ b[x].archived[k] = 0
    /\ kept # NoCache => \A k \in Knowledge : kept.archived[k] = 0

\* A build of this generation has read what is there, the key of the write in
\* progress excepted.
Building == {"list_head", "list_alive", "walk_history", "extend", "check", "install"}
ScanInv ==
    \A x \in Builders :
        /\ pc[x] \in {"idle", "read_cache", "read_notes"} => b[x].scanned = {}
        /\ pc[x] \in Building \ {"list_head"} => b[x].scanned = Keys
        /\ pc[x] = "extend" => b[x].prev # NoCache
        /\ pc[x] \in Building /\ b[x].gen = gen =>
             \A k \in b[x].scanned \intersect Settled : b[x].head[k] = tree[k]

\* An index kept for this generation shows it.
KeptInv ==
    KeptFor(gen) =>
        \A k \in Settled : tree[k] # 0 \/ k \in Knowledge => kept.index[k] = tree[k]

LinkInv == Types /\ WriteInv /\ GenInv /\ KnowledgeInv /\ ScanInv /\ KeptInv

-----------------------------------------------------------------------------
LEMMA LinkInit == Init => LinkInv
BY LinkCacheAssumption
   DEF Init, LinkInv, Types, WriteInv, GenInv, KnowledgeInv, ScanInv, KeptInv, KeptFor, Unread, Empty, Local, Prev, BuildSteps, Building

\* A write begins: every build and every kept index is of an older generation.
LEMMA BeginWriteLink ==
    ASSUME LinkInv, NEW k \in Keys, BeginUpsert(k) \/ BeginRemove(k)
    PROVE  LinkInv'
<1>1. PICK step \in {"write_file", "remove_file"}, closes \in BOOLEAN :
        BeginWrite(k, step, closes) /\ (closes => k \notin Knowledge)
  BY DEF BeginUpsert, BeginRemove
<1>2. /\ wpc' = step /\ wkeys' = {k} /\ wclosed' = closes /\ gen' = gen + 1
      /\ writes' = writes + 1 /\ hungUp' = {}
      /\ UNCHANGED <<tree, hist, staged, torn, lost, notes, noteSeq, kept, pc, b>>
  BY <1>1 DEF BeginWrite, NoteWrite, repoVars, noteVars
<1>3. Types' /\ WriteInv' /\ GenInv' /\ KnowledgeInv'
  BY <1>1, <1>2 DEF LinkInv, Types, WriteInv, GenInv, KnowledgeInv, Kept, Local
<1>4. /\ \A x \in Builders : b'[x].gen # gen'
      /\ kept # NoCache => kept'.gen # gen'
  BY <1>2 DEF LinkInv, GenInv, Types, Local, Kept
<1>5. ScanInv' /\ KeptInv'
  BY <1>2, <1>4 DEF LinkInv, ScanInv, KeptInv, KeptFor
<1> QED BY <1>3, <1>5 DEF LinkInv

\* The steps of a write that touch the repository change nothing about any
\* other key.
LEMMA WriteLink ==
    ASSUME LinkInv,
           \/ Refuse \/ Unchanged \/ TruncateFile \/ WriteFile \/ WriteFails \/ CommitFile
           \/ KeepFile \/ RemoveFile \/ CommitRemoval \/ RemovalFails \/ NoteArchived \/ Invalidated
    PROVE  LinkInv'
<1> USE DEF Refuse, Unchanged, TruncateFile, WriteFile, WriteFails, CommitFile, KeepFile,
            RemoveFile, CommitRemoval, RemovalFails, NoteArchived, Invalidated
<1>1. /\ UNCHANGED <<gen, kept, wkeys, wclosed, pc, b, writes, hungUp>>
      /\ wpc' \in WriteSteps \ {"idle"} /\ wpc # "idle"
      /\ wpc' = "note" => wclosed
  BY DEF CommitFails, noteVars, repoVars, countVars, histVars, WriteSteps
<1>2. /\ tree' \in [Keys -> Nat] /\ hist' \in [Keys -> Nat] /\ staged' \in [Keys -> Nat]
      /\ torn' \subseteq Keys /\ lost' \subseteq Keys
      /\ noteSeq' \in Nat /\ notes' \subseteq [n : Nat, key : Keys]
      /\ \A k \in Settled : tree'[k] = tree[k]
  BY DEF LinkInv, Types, Set, Commit, CommitFails, Empty, Settled, repoVars, noteVars
<1>3. \A n \in notes' : n.key \notin Knowledge
  BY DEF LinkInv, KnowledgeInv, noteVars
<1> HIDE DEF Refuse, Unchanged, TruncateFile, WriteFile, WriteFails, CommitFile, KeepFile,
             RemoveFile, CommitRemoval, RemovalFails, NoteArchived, Invalidated
<1>4. Types' /\ WriteInv' /\ GenInv' /\ KnowledgeInv'
  BY <1>1, <1>2, <1>3 DEF LinkInv, Types, WriteInv, GenInv, KnowledgeInv
<1>5. Settled' = Settled
  BY <1>1 DEF Settled
<1>6. ScanInv' /\ KeptInv'
  BY <1>1, <1>2, <1>5 DEF LinkInv, ScanInv, KeptInv, KeptFor
<1> QED BY <1>4, <1>6 DEF LinkInv

\* The write ends in a generation nobody has read yet, or is dropped and
\* leaves its key unsettled.
LEMMA EndWriteLink ==
    ASSUME LinkInv, EndWrite \/ DropRemove
    PROVE  LinkInv'
<1>1. /\ wpc' = "idle" /\ wkeys' = {} /\ wclosed' = FALSE
      /\ UNCHANGED <<tree, hist, staged, torn, lost, notes, noteSeq, kept, pc, b, writes>>
      /\ \/ gen' = gen + 1 /\ hungUp' = hungUp
         \/ gen' = gen /\ hungUp' = wkeys /\ wpc # "idle"
  BY DEF DropRemove, EndWrite, NoteWrite, Released, repoVars, noteVars, histVars, countVars
<1>2. Types' /\ WriteInv' /\ GenInv' /\ KnowledgeInv'
  BY <1>1 DEF LinkInv, Types, WriteInv, GenInv, KnowledgeInv, Kept, Local
<1>3. CASE gen' = gen + 1
  <2>1. /\ \A x \in Builders : b'[x].gen # gen'
        /\ kept # NoCache => kept'.gen # gen'
    BY <1>1, <1>3 DEF LinkInv, GenInv, Types, Local, Kept
  <2> QED BY <1>1, <1>2, <2>1 DEF LinkInv, ScanInv, KeptInv, KeptFor
<1>4. CASE gen' = gen /\ hungUp' = wkeys /\ wpc # "idle"
  <2>1. Settled' = Settled
    BY <1>1, <1>4 DEF Settled, LinkInv, WriteInv
  <2> QED BY <1>1, <1>2, <1>4, <2>1 DEF LinkInv, ScanInv, KeptInv, KeptFor
<1> QED BY <1>1, <1>2, <1>3, <1>4 DEF LinkInv

-----------------------------------------------------------------------------
\* What the invariant asks of the locals l of a build that is at step.
LocalOK(l, step) ==
    /\ l \in Local /\ l.gen <= gen
    /\ \A n \in l.noted : n.key \notin Knowledge
    /\ \A k \in Knowledge : (l.prev # NoCache => l.prev[k] = 0) /\ l.archived[k] = 0
    /\ step \in {"idle", "read_cache", "read_notes"} => l.scanned = {}
    /\ step \in Building \ {"list_head"} => l.scanned = Keys
    /\ step = "extend" => l.prev # NoCache
    /\ step \in Building /\ l.gen = gen =>
         \A k \in l.scanned \intersect Settled : l.head[k] = tree[k]

\* A step of one build that changes only its locals, and notes at most by
\* settling some, keeps the invariant if the new locals are as it asks.
LEMMA LocalLemma ==
    ASSUME LinkInv, NEW x \in Builders, NEW l, NEW step \in BuildSteps,
           b' = [b EXCEPT ![x] = l], pc' = [pc EXCEPT ![x] = step],
           UNCHANGED <<tree, hist, staged, torn, lost, gen, noteSeq, kept, wpc, wkeys, wclosed, hungUp, writes>>,
           notes' \subseteq notes,
           LocalOK(l, step)
    PROVE  LinkInv'
<1> USE DEF LinkInv, LocalOK
<1>1. Types' /\ WriteInv'
  BY DEF Types, WriteInv
<1>2. GenInv'
  BY DEF GenInv, Types
<1>3. KnowledgeInv'
  BY DEF KnowledgeInv, Types
<1>4. ScanInv'
  BY DEF ScanInv, Types, Settled
<1>5. KeptInv'
  BY DEF KeptInv, KeptFor, Settled
<1> QED BY <1>1, <1>2, <1>3, <1>4, <1>5

\* The steps of links() up to the installation change nothing but the locals.
LEMMA ReadLink ==
    ASSUME LinkInv, NEW x \in Builders,
           \/ LoadGen(x) \/ CacheHit(x) \/ CacheMiss(x) \/ ReadNotes(x)
           \/ (\E k \in Keys : ScanFile(x, k)) \/ ListAlive(x) \/ WalkHistory(x)
           \/ ExtendArchive(x) \/ CheckGen(x) \/ SettleNotes(x) \/ Reply(x) \/ BuildFails(x)
    PROVE  LinkInv'
<1> DEFINE l == b'[x]
           step == pc'[x]
<1>1. /\ UNCHANGED <<tree, hist, staged, torn, lost, gen, noteSeq, kept, wpc, wkeys, wclosed, hungUp, writes>>
      /\ notes' \subseteq notes
      /\ b' = [b EXCEPT ![x] = l] /\ pc' = [pc EXCEPT ![x] = step]
      /\ step \in BuildSteps
  BY ZenonT(60) DEF LoadGen, CacheHit, CacheMiss, ReadNotes, ScanFile, ListAlive, WalkHistory,
         ExtendArchive, CheckGen, SettleNotes, Reply, BuildFails, Done, Goto, LinkInv, Types, BuildSteps,
         repoVars, noteVars, writerVars, histVars, countVars
<1>2. LocalOK(b[x], pc[x])
  BY DEF LocalOK, LinkInv, Types, GenInv, KnowledgeInv, ScanInv
<1> SUFFICES LocalOK(l, step)
  BY <1>1, LocalLemma
<1>3. CASE LoadGen(x)
  <2>1. l = [b[x] EXCEPT !.gen = gen] /\ step = "read_cache" /\ pc[x] = "idle"
    BY <1>3 DEF LoadGen, Goto, LinkInv, Types
  <2>2. gen \in Nat /\ b[x].scanned = {}
    BY <1>2, <2>1 DEF LinkInv, Types, LocalOK
  <2> HIDE DEF l, step
  <2>3. /\ l \in Local /\ l.gen = gen /\ l.noted = b[x].noted /\ l.prev = b[x].prev
        /\ l.archived = b[x].archived /\ l.scanned = {}
    BY <1>2, <2>1, <2>2 DEF LocalOK, Local
  <2> QED BY <1>2, <2>1, <2>2, <2>3 DEF LocalOK, Building
<1>4. CASE CacheHit(x)
  <2>1. /\ l = [b[x] EXCEPT !.head = kept.index, !.archived = kept.archived]
        /\ step = "answer" /\ kept # NoCache
    BY <1>4 DEF CacheHit, KeptFor, Goto, LinkInv, Types
  <2>2. kept \in Kept /\ \A k \in Knowledge : kept.archived[k] = 0
    BY <2>1 DEF LinkInv, Types, KnowledgeInv
  <2> HIDE DEF l, step
  <2> QED BY <1>2, <2>1, <2>2 DEF LocalOK, Local, Building, Kept
<1>5. CASE CacheMiss(x)
  <2>1. /\ l = [b[x] EXCEPT !.prev = IF kept = NoCache THEN NoCache ELSE kept.archived]
        /\ step = "read_notes" /\ pc[x] = "read_cache"
    BY <1>5 DEF CacheMiss, Goto, LinkInv, Types
  <2> HIDE DEF l, step
  <2> DEFINE from == IF kept = NoCache THEN NoCache ELSE kept.archived
  <2>2. from \in Prev /\ \A k \in Knowledge : from # NoCache => from[k] = 0
    BY DEF LinkInv, Types, KnowledgeInv, Prev, Kept
  <2>3. l = [b[x] EXCEPT !.prev = from]
    BY <2>1
  <2> HIDE DEF from
  <2> QED BY <1>2, <2>1, <2>2, <2>3 DEF LocalOK, Local, Building
<1>6. CASE ReadNotes(x)
  <2>1. /\ l = [b[x] EXCEPT !.noted = notes]
        /\ step = "list_head" /\ pc[x] = "read_notes"
    BY <1>6 DEF ReadNotes, Goto, LinkInv, Types
  <2>2. /\ notes \subseteq [n : Nat, key : Keys]
        /\ \A n \in notes : n.key \notin Knowledge
    BY DEF LinkInv, Types, KnowledgeInv
  <2> HIDE DEF l, step
  <2> QED BY <1>2, <2>1, <2>2 DEF LocalOK, Local, Building
<1>7. ASSUME NEW k \in Keys, ScanFile(x, k) PROVE LocalOK(l, step)
  <2>1. /\ l = [b[x] EXCEPT !.head[k] = tree[k], !.scanned = @ \union {k}]
        /\ pc[x] = "list_head"
        /\ step = "list_head" \/ (b[x].scanned \union {k} = Keys
                                    /\ step \in {"list_alive", "extend"})
        /\ step = "extend" => b[x].prev # NoCache
    BY <1>7 DEF ScanFile, Goto, LinkInv, Types, Local
  <2>2. tree \in [Keys -> Nat]
    BY DEF LinkInv, Types
  <2> HIDE DEF l, step
  <2>3. /\ l \in Local /\ l.gen = b[x].gen /\ l.noted = b[x].noted
        /\ l.prev = b[x].prev /\ l.archived = b[x].archived
        /\ l.head = [b[x].head EXCEPT ![k] = tree[k]]
        /\ l.scanned = b[x].scanned \union {k}
    BY <1>2, <2>1, <2>2 DEF LocalOK, Local
  <2>4. b[x] \in Local
    BY <1>2 DEF LocalOK
  <2> QED BY <1>2, <2>1, <2>2, <2>3, <2>4 DEF LocalOK, Local, Building
<1>8. CASE ListAlive(x)
  <2>1. /\ l = [b[x] EXCEPT !.alive = {k \in Keys : tree[k] # 0}]
        /\ step = "walk_history" /\ pc[x] = "list_alive"
    BY <1>8 DEF ListAlive, Goto, LinkInv, Types
  <2> HIDE DEF l, step
  <2> QED BY <1>2, <2>1 DEF LocalOK, Local, Building
<1>9. CASE WalkHistory(x) \/ ExtendArchive(x)
  <2>1. PICK arch :
          /\ b' = [b EXCEPT ![x].archived = arch]
          /\ arch \in [Keys -> Nat] /\ \A k \in Knowledge : arch[k] = 0
    <3>1. CASE WalkHistory(x)
      <4> DEFINE walked == [k \in Keys |->
                              IF k \in b[x].alive \union Knowledge THEN 0 ELSE hist[k]]
      <4>1. walked \in [Keys -> Nat] /\ \A k \in Knowledge : walked[k] = 0
        BY LinkCacheAssumption DEF LinkInv, Types
      <4>2. b' = [b EXCEPT ![x].archived = walked]
        BY <3>1 DEF WalkHistory
      <4> HIDE DEF walked
      <4> QED BY <4>1, <4>2
    <3>2. CASE ExtendArchive(x)
      <4>1. b[x].prev \in [Keys -> Nat] /\ b[x].prev # NoCache
        BY <3>2, <1>2 DEF ExtendArchive, LocalOK, Local, Prev
      <4>2. Extended(x) \in [Keys -> Nat]
        BY <4>1 DEF Extended, LinkInv, Types
      <4>3. \A k \in Knowledge : Extended(x)[k] = 0
        BY <1>2, <4>1, LinkCacheAssumption DEF Extended, LocalOK
      <4> QED BY <3>2, <4>2, <4>3 DEF ExtendArchive
    <3> QED BY <1>9, <3>1, <3>2
  <2>2. step = "check" /\ pc[x] \in {"walk_history", "extend"}
    BY <1>9 DEF WalkHistory, ExtendArchive, Goto, LinkInv, Types
  <2>3. l = [b[x] EXCEPT !.archived = arch]
    BY <2>1 DEF LinkInv, Types
  <2> HIDE DEF l, step
  <2> QED BY <1>2, <2>1, <2>2, <2>3 DEF LocalOK, Local, Building
<1>10. CASE CheckGen(x) \/ SettleNotes(x)
  <2>1. /\ l = b[x]
        /\ (pc[x] = "check" /\ step = "install") \/ step = "answer"
    BY <1>10 DEF CheckGen, SettleNotes, Goto, LinkInv, Types
  <2> HIDE DEF l, step
  <2> QED BY <1>2, <2>1 DEF LocalOK, Building
<1>11. CASE Reply(x) \/ BuildFails(x)
  <2>1. l = Unread /\ step = "idle"
    BY <1>11 DEF Reply, BuildFails, Done, Goto, LinkInv, Types
  <2>2. /\ Unread \in Local /\ Unread.prev = NoCache /\ Unread.noted = {}
        /\ Unread.gen = 0 /\ Unread.scanned = {}
        /\ \A k \in Keys : Unread.archived[k] = 0
    BY DEF Unread, Local, Prev, Empty
  <2> HIDE DEF l, step
  <2> QED BY <2>1, <2>2, LinkCacheAssumption DEF LocalOK, Building, LinkInv, Types
<1> QED
  BY <1>3, <1>4, <1>5, <1>6, <1>7, <1>8, <1>9, <1>10, <1>11

\* What is kept was read in the generation it is kept for.
LEMMA InstallLink ==
    ASSUME LinkInv, NEW x \in Builders, Install(x)
    PROVE  LinkInv'
<1> USE DEF LinkInv
<1>1. /\ UNCHANGED <<tree, hist, staged, torn, lost, gen, notes, noteSeq, wpc, wkeys, wclosed, writes,
                     hungUp, b>>
      /\ kept' = [gen |-> b[x].gen, index |-> Answer(x), archived |-> b[x].archived]
      /\ pc[x] = "install" /\ pc' = [pc EXCEPT ![x] = "settle"]
  BY DEF Install, Goto, repoVars, noteVars, writerVars, countVars
<1>2. b[x] \in Local /\ b[x].scanned = Keys
  BY <1>1 DEF Types, ScanInv, Building
<1>3. Answer(x) \in [Keys -> Nat]
  BY <1>2 DEF Answer, Index, Local
<1>4. kept' \in Kept
  BY <1>1, <1>2, <1>3 DEF Kept, Local
<1>5. Types' /\ WriteInv' /\ GenInv' /\ KnowledgeInv'
  BY <1>1, <1>2, <1>4 DEF Types, WriteInv, GenInv, KnowledgeInv, BuildSteps, Local
<1>6. ScanInv'
  BY <1>1 DEF ScanInv, Types, Building, Settled
<1>7. KeptInv'
  <2> SUFFICES ASSUME KeptFor(gen)', NEW k \in Settled, tree[k] # 0 \/ k \in Knowledge
               PROVE  kept'.index[k] = tree[k]
    BY <1>1 DEF KeptInv, Settled
  <2>1. b[x].gen = gen
    BY <1>1 DEF KeptFor
  <2>2. b[x].head[k] = tree[k] /\ k \in Keys
    BY <1>1, <1>2, <2>1 DEF ScanInv, Building, Settled
  <2>3. k \in Knowledge => b[x].archived[k] = 0
    BY DEF KnowledgeInv
  <2> QED BY <1>1, <2>2, <2>3 DEF Answer, Index
<1> QED BY <1>5, <1>6, <1>7

LEMMA LinkStep == LinkInv /\ [Next]_vars => LinkInv'
<1> SUFFICES ASSUME LinkInv, [Next]_vars PROVE LinkInv'
  OBVIOUS
<1>1. CASE Write
  BY <1>1, BeginWriteLink, WriteLink, EndWriteLink DEF Write
<1>2. ASSUME NEW x \in Builders, Build(x) PROVE LinkInv'
  BY <1>2, ReadLink, InstallLink DEF Build
<1>3. CASE UNCHANGED vars
  BY <1>3 DEF vars, LinkInv, Types, WriteInv, GenInv, KnowledgeInv, ScanInv, KeptInv,
              KeptFor, Settled
<1> QED BY <1>1, <1>2, <1>3 DEF Next, Served

\* However many builds overlap with however many writes, a kept index handed
\* out while no write is in progress shows every live entry in its newest
\* version and no retracted knowledge (main.rs AppState::links, note_write),
\* except that of a DELETE dropped half way since the last write.
THEOREM KeptTreeStaysExact == Spec => []KeptTreeExact
<1>1. LinkInv /\ [Next]_vars => LinkInv'
  BY LinkStep
<1>2. LinkInv => KeptTreeExact
  BY DEF LinkInv, WriteInv, KeptInv, Settled, KeptTreeExact, KeptIsCurrent
<1> QED BY <1>1, <1>2, LinkInit, PTL DEF Spec

-----------------------------------------------------------------------------
(* The archive.  What a build finds there it puts together from four readings *)
(* taken at four times, of which another build may meanwhile settle one.      *)

\* Past the notes, before the answer is kept.
Reading == {"list_head", "list_alive", "walk_history", "extend"}

\* What touched says: every key that was not settled at some time since x started.
TouchInv ==
    /\ touched \in [Builders -> SUBSET Keys]
    /\ \A x \in Builders : pc[x] # "idle" =>
         /\ wkeys \union hungUp \subseteq touched[x]
         /\ b[x].gen = gen => touched[x] = wkeys \union hungUp
    /\ \A x, y \in Builders :
         pc[x] # "idle" /\ pc[y] # "idle" /\ b[x].gen = b[y].gen => touched[x] = touched[y]

\* Where a write stands, the files agree.
FileInv ==
    /\ wpc # "idle" => writes > 0
    /\ wpc = "commit_file" => \A k \in wkeys : tree[k] # 0
    /\ wpc \in {"remove_file", "commit_removal", "invalidate"} /\ ~wclosed => wkeys \subseteq Knowledge
    /\ wpc = "note" => staged = Empty
    /\ \A k \in Keys : staged[k] # 0 =>
         \/ tree[k] # 0 \/ k \in lost \union Knowledge
         \/ k \in wkeys /\ wpc \in {"fill_file", "commit_removal"}
    /\ \A k \in Keys : hist[k] = 0 =>
         /\ kept # NoCache => kept.archived[k] = 0
         /\ \A x \in Builders : b[x].archived[k] = 0 /\ (b[x].prev # NoCache => b[x].prev[k] = 0)

\* Notes are numbered in turn.
NumberInv ==
    /\ \A n \in notes : n.n < noteSeq
    /\ \A x \in Builders : \A n \in b[x].noted : n.n < noteSeq

\* The file of k is not there yet, or its note is still to be pushed.
Pending(k) == wpc \in {"fill_file", "commit_removal", "note"} /\ k \in wkeys
\* Archived, as a build may be expected to know.
Known(k) == Archived(k) # 0 /\ ~Pending(k) /\ k \notin lost
\* A build that read the notes N does not have the note of k.
NotedSince(k, N) == \E n \in notes \ N : n.key = k

\* The notes a build about to settle will take.
Settling == UNION {b[x].noted : x \in {y \in Builders : pc[y] = "settle"}}

\* The keys an answer must be exact for, when those of touch were written to.
Due(touch) == Keys \ (touch \union lost)

PrevOfKept == IF kept = NoCache THEN NoCache ELSE kept.archived

ArchiveInv ==
    /\ kept # NoCache => \A k \in Keys :
         /\ kept.index[k] = 0 => kept.archived[k] = 0
         /\ Known(k) => kept.archived[k] = Archived(k) \/ NotedSince(k, Settling)

\* What a build that is not behind knows.
BuilderInv(x) ==
    /\ pc[x] \in Reading \union {"read_notes"} => b[x].prev = PrevOfKept
    /\ pc[x] \in {"list_alive", "walk_history"} => b[x].prev = NoCache
    /\ pc[x] \in Building =>
         /\ notes \intersect Settling \subseteq b[x].noted
         /\ \A n \in notes \ b[x].noted : n.key \in touched[x]
         /\ \A k \in b[x].scanned \ touched[x] : b[x].head[k] = tree[k]
    /\ pc[x] = "extend" => \A k \in Keys : b[x].head[k] # 0 /\ Known(k) => NotedSince(k, b[x].noted)
    /\ pc[x] = "list_head" => \A k \in b[x].scanned : b[x].head[k] # 0 /\ Known(k) => NotedSince(k, b[x].noted)
    /\ pc[x] = "walk_history" => \A k \in b[x].alive : Known(k) => NotedSince(k, b[x].noted)
    /\ pc[x] \in {"check", "install"} => \A k \in Keys :
         Known(k) => b[x].archived[k] = Archived(k) \/ NotedSince(k, b[x].noted)
    /\ pc[x] \in {"check", "install", "settle", "answer"} =>
         \A k \in Due(touched[x]) : Answer(x)[k] = Truth[k]

\* What is kept is exact for what was not touched in its generation.
GenerationInv ==
    /\ KeptFor(gen) => \A k \in Due(wkeys \union hungUp) : kept.index[k] = Truth[k]
    /\ \A x \in Builders : pc[x] = "read_cache" /\ KeptFor(b[x].gen) =>
         \A k \in Due(touched[x]) : kept.index[k] = Truth[k]

ArchInv ==
    /\ TouchInv /\ FileInv /\ NumberInv
    /\ ~overtaken => ArchiveInv /\ GenerationInv /\ \A x \in Builders \ behind : BuilderInv(x)

LEMMA ArchInit == Init => ArchInv
<1> SUFFICES ASSUME Init PROVE ArchInv
  OBVIOUS
<1>1. /\ \A x \in Builders : pc[x] = "idle" /\ b[x] = Unread
      /\ kept = NoCache /\ wpc = "idle" /\ notes = {} /\ hist = Empty
      /\ touched = [x \in Builders |-> {}]
  BY DEF Init
<1>2. /\ Unread.noted = {} /\ Unread.prev = NoCache
      /\ \A k \in Keys : Unread.archived[k] = 0
  BY DEF Unread, Empty
<1>3. TouchInv /\ FileInv /\ NumberInv
  BY <1>1, <1>2 DEF Init, TouchInv, FileInv, NumberInv, Empty
<1>4. ArchiveInv /\ GenerationInv /\ \A x \in Builders : BuilderInv(x)
  BY <1>1 DEF ArchiveInv, GenerationInv, KeptFor, BuilderInv, Reading, Building
<1> QED BY <1>3, <1>4 DEF ArchInv

\* A step of a write notes at most its own key, and changes the files of no
\* other, and of no other the last version unless it is live or lost; what
\* becomes known of the archive by it is noted by it.
FileEffect ==
    /\ notes \subseteq notes' /\ noteSeq' >= noteSeq
    /\ \A n \in notes' \ notes : n.n = noteSeq /\ n.n < noteSeq' /\ n.key \in wkeys
    /\ \A k \in Keys \ wkeys :
         /\ tree'[k] = tree[k] /\ (k \in lost' <=> k \in lost)
         /\ k \notin lost => Archived(k)' = Archived(k)
    /\ \A k \in Keys : Known(k)' =>
         \/ Known(k) /\ Archived(k)' = Archived(k)
         \/ \E n \in notes' \ notes : n.key = k

\* A generation ends with the set of keys that are unsettled in it, or both stay.
TouchEffect ==
    \/ /\ gen' = gen + 1 /\ UNCHANGED <<tree, hist, lost>>
       /\ \/ touched' = touched /\ wkeys' \union hungUp' = {}
          \/ touched' = [x \in Builders |->
                           IF pc[x] = "idle" THEN {} ELSE touched[x] \union wkeys' \union hungUp']
    \/ UNCHANGED <<gen, touched>> /\ wkeys' \union hungUp' = wkeys \union hungUp

LEMMA WriteEffect ==
    ASSUME LinkInv, FileInv, NumberInv, Write
    PROVE  /\ UNCHANGED <<kept, pc, b, behind, overtaken>>
           /\ FileInv' /\ FileEffect /\ TouchEffect
<1> USE DEF repoVars, noteVars, countVars, histVars
<1>1. ASSUME NEW k \in Keys, BeginUpsert(k) \/ BeginRemove(k)
      PROVE  /\ UNCHANGED <<tree, hist, staged, torn, lost, notes, noteSeq, kept, pc, b, behind, overtaken>>
             /\ FileInv' /\ FileEffect /\ TouchEffect
  <2>1. /\ UNCHANGED <<tree, hist, staged, torn, lost, notes, noteSeq, kept, pc, b, behind, overtaken>>
        /\ wkeys' = {k} /\ hungUp' = {} /\ gen' = gen + 1 /\ writes' = writes + 1
        /\ wpc = "idle" /\ wpc' \in {"write_file", "remove_file"}
        /\ wpc' = "remove_file" /\ ~wclosed' => k \in Knowledge
        /\ touched' = [x \in Builders |-> IF pc[x] = "idle" THEN {} ELSE touched[x] \union {k}]
    BY <1>1 DEF BeginUpsert, BeginRemove, BeginWrite, NoteWrite
  <2>2. FileInv'
    BY <2>1 DEF LinkInv, Types, FileInv
  <2>3. FileEffect
    BY <2>1 DEF FileEffect, Known, Pending, Archived, LinkInv, Types
  <2>4. TouchEffect
    BY <2>1 DEF TouchEffect
  <2> QED BY <2>1, <2>2, <2>3, <2>4
<1>2. ASSUME \/ Refuse \/ Unchanged \/ TruncateFile \/ WriteFile \/ WriteFails \/ CommitFile
             \/ KeepFile \/ RemoveFile \/ CommitRemoval \/ RemovalFails
      PROVE  /\ UNCHANGED <<kept, pc, b, behind, overtaken>>
             /\ FileInv' /\ FileEffect /\ TouchEffect
  <2> USE DEF Refuse, Unchanged, TruncateFile, WriteFile, WriteFails, CommitFile, KeepFile,
              RemoveFile, CommitRemoval, RemovalFails
  <2>1. /\ UNCHANGED <<gen, notes, noteSeq, kept, wkeys, hungUp, touched, pc, b, behind, overtaken, wclosed, writes>>
        /\ wpc # "idle" /\ wpc # "note" /\ wpc' # "idle"
    BY <1>2 DEF CommitFails
  <2>2. /\ tree' = tree \/ tree' = Set(tree, 0) \/ tree' = Set(tree, writes)
        /\ \/ UNCHANGED <<hist, staged>>
           \/ /\ wpc = "commit_file" /\ wpc' \in {"forget", "remove_file"} /\ UNCHANGED <<tree, lost>>
              /\ \/ Commit(writes)
                 \/ staged' = Set(staged, writes) /\ UNCHANGED hist
           \/ /\ wpc = "commit_removal" /\ UNCHANGED tree
              /\ \/ Commit(0)
                 \/ staged' = Set(staged, 0) /\ UNCHANGED hist
              /\ \/ wpc' = "forget" /\ lost' = lost \union (wkeys \ Knowledge)
                 \/ /\ wpc' = IF wclosed THEN "note" ELSE "invalidate"
                    /\ UNCHANGED lost /\ staged' = Empty
    BY <1>2 DEF CommitFails, Commit
  <2>3. /\ writes \in Nat \ {0} /\ tree \in [Keys -> Nat] /\ hist \in [Keys -> Nat]
        /\ staged \in [Keys -> Nat] /\ wkeys \subseteq Keys
    BY <2>1 DEF LinkInv, Types, FileInv
  <2>4. \A k \in Keys :
          /\ hist[k] # 0 => hist'[k] # 0
          /\ staged'[k] # 0 => staged[k] # 0 \/ (k \in wkeys /\ wpc = "commit_file")
          /\ k \notin wkeys => tree'[k] = tree[k] /\ (hist'[k] # hist[k] => staged[k] # 0)
    BY <2>2, <2>3 DEF Set, Commit, Empty
  <2>5. \A k \in Keys \ wkeys : k \in lost' <=> k \in lost
    BY <1>2 DEF CommitFails
  <2>6. \A k \in Keys \ wkeys : k \notin lost => Archived(k)' = Archived(k)
    BY <2>1, <2>4 DEF FileInv, Archived
  <2>7. \A k \in wkeys : Archived(k)' # 0 =>
          \/ Pending(k)' \/ k \in lost'
          \/ Archived(k)' = Archived(k) /\ ~Pending(k) /\ k \notin lost
    <3> SUFFICES ASSUME NEW k \in wkeys, Archived(k)' # 0, ~Pending(k)', k \notin lost'
                 PROVE  Archived(k)' = Archived(k) /\ ~Pending(k) /\ k \notin lost
      OBVIOUS
    <3>1. k \notin Knowledge /\ tree'[k] = 0 /\ wpc' \notin {"fill_file", "commit_removal", "note"}
      BY <2>1 DEF Archived, Pending
    <3>2. CASE Refuse \/ Unchanged \/ KeepFile
      BY <3>2 DEF Archived, Pending
    <3>3. CASE WriteFile \/ CommitFile
      BY <2>3, <3>1, <3>3 DEF Set, CommitFails, FileInv
    <3>4. CASE WriteFails \/ RemovalFails \/ CommitRemoval
      BY <3>1, <3>4 DEF FileInv
    <3>5. CASE TruncateFile \/ RemoveFile
      BY <3>1, <3>5
    <3> QED BY <1>2, <3>2, <3>3, <3>4, <3>5
  <2>8. FileInv'
    <3>1. wpc' = "commit_file" => \A k \in wkeys' : tree'[k] # 0
      BY <1>2, <2>1, <2>3 DEF Set, CommitFails
    <3>2. wpc' \in {"remove_file", "commit_removal", "invalidate"} /\ ~wclosed' => wkeys' \subseteq Knowledge
      BY <1>2, <2>1 DEF FileInv, CommitFails
    <3>3. wpc' = "note" => staged' = Empty
      BY <1>2, <2>1 DEF CommitFails, Commit
    <3>4. ASSUME NEW k \in Keys, staged'[k] # 0
          PROVE  \/ tree'[k] # 0 \/ k \in lost' \union Knowledge
                 \/ k \in wkeys' /\ wpc' \in {"fill_file", "commit_removal"}
      <4>1. CASE k \notin wkeys
        BY <2>1, <2>4, <2>5, <3>4, <4>1 DEF FileInv
      <4>2. CASE k \in wkeys
        <5>1. CASE Refuse \/ Unchanged \/ KeepFile
          BY <3>4, <5>1 DEF FileInv
        <5>2. CASE WriteFile \/ CommitFile
          BY <2>1, <2>3, <3>1, <4>2, <5>2 DEF Set, FileInv
        <5>3. CASE CommitRemoval
          BY <3>4, <5>3 DEF Commit, Empty
        <5>4. CASE WriteFails \/ RemovalFails \/ TruncateFile \/ RemoveFile
          BY <2>1, <4>2, <5>4
        <5> QED BY <1>2, <5>1, <5>2, <5>3, <5>4
      <4> QED BY <4>1, <4>2
    <3>5. \A k \in Keys : hist'[k] = 0 => hist[k] = 0
      BY <2>4
    <3> QED BY <2>1, <3>1, <3>2, <3>3, <3>4, <3>5 DEF FileInv
  <2>9. FileEffect
    BY <2>1, <2>4, <2>5, <2>6, <2>7 DEF FileEffect, Known, Pending, LinkInv, Types
  <2> QED BY <2>1, <2>8, <2>9 DEF TouchEffect
<1>3. CASE NoteArchived
  <2>1. /\ UNCHANGED <<tree, hist, staged, gen, kept, wkeys, hungUp, touched, pc, b, behind, overtaken, wclosed, writes>>
        /\ lost' = lost \ wkeys
        /\ wpc = "note" /\ wpc' = "forget" /\ noteSeq' = noteSeq + 1
        /\ notes' = notes \union {[n |-> noteSeq, key |-> k] : k \in wkeys}
    BY <1>3 DEF NoteArchived
  <2>2. FileInv'
    BY <2>1 DEF FileInv, Empty
  <2>3. ASSUME NEW k \in wkeys PROVE \E n \in notes' : n.key = k /\ n.n = noteSeq
    <3> DEFINE n == [n |-> noteSeq, key |-> k]
    <3>1. n \in notes'
      BY <2>1
    <3> QED BY <3>1
  <2>4. \A k \in Keys : Archived(k)' = Archived(k)
    BY <2>1 DEF Archived
  <2>5. FileEffect
    <3>1. noteSeq \in Nat
      BY DEF LinkInv, Types
    <3>2. ASSUME NEW k \in Keys, Known(k)' PROVE Known(k) \/ \E n \in notes' \ notes : n.key = k
      <4>1. CASE k \in wkeys
        <5>1. PICK n \in notes' : n.key = k /\ n.n = noteSeq
          BY <4>1, <2>3
        <5>2. CASE n \in notes
          BY <3>1, <5>1, <5>2 DEF NumberInv
        <5> QED BY <5>1, <5>2
      <4>2. CASE k \notin wkeys
        BY <3>2, <4>2, <2>1, <2>4 DEF Known, Pending
      <4> QED BY <4>1, <4>2
    <3> QED BY <2>1, <2>4, <3>1, <3>2 DEF FileEffect
  <2> QED BY <2>1, <2>2, <2>5 DEF TouchEffect
<1>4. CASE Invalidated \/ EndWrite \/ DropRemove
  <2>1. /\ UNCHANGED <<tree, hist, staged, torn, lost, notes, noteSeq, kept, touched, pc, b, behind, overtaken, writes>>
        /\ wpc \in {"invalidate", "forget"} /\ wpc' \in {"idle", "forget"}
    BY <1>4 DEF Invalidated, EndWrite, DropRemove, Released
  <2>2. FileInv'
    BY <2>1 DEF FileInv
  <2>3. FileEffect
    BY <2>1 DEF FileEffect, Known, Pending, Archived, LinkInv, Types
  <2>4. TouchEffect
    BY <1>4 DEF Invalidated, EndWrite, DropRemove, Released, NoteWrite, TouchEffect, LinkInv, WriteInv
  <2> QED BY <2>1, <2>2, <2>3, <2>4
<1> QED BY <1>1, <1>2, <1>3, <1>4 DEF Write

\* Truth is Archived or the live version.
LEMMA TruthLemma ==
    ASSUME NEW k \in Keys
    PROVE  Truth[k] = IF tree[k] # 0 THEN tree[k] ELSE Archived(k)
BY DEF Truth, Index, Archived

\* A write keeps what the builds and the kept index know.
LEMMA WriteArch ==
    ASSUME LinkInv, ArchInv, Write
    PROVE  ArchInv'
<1> USE DEF ArchInv
<1>1. /\ UNCHANGED <<kept, pc, b, behind, overtaken>>
      /\ FileInv' /\ FileEffect /\ TouchEffect
  BY WriteEffect
<1>2. NumberInv'
  <2>1. noteSeq \in Nat /\ noteSeq' >= noteSeq /\ noteSeq' \in Nat
    BY <1>1, WriteLink, BeginWriteLink, EndWriteLink DEF FileEffect, LinkInv, Types, Write
  <2>2. \A n \in notes : n.n \in Nat
    BY DEF LinkInv, Types
  <2>3. \A n \in notes' : n.n < noteSeq'
    BY <1>1, <2>1, <2>2 DEF NumberInv, FileEffect
  <2>4. ASSUME NEW x \in Builders, NEW n \in b[x].noted PROVE n.n < noteSeq'
    <3>1. n.n \in Nat
      BY DEF LinkInv, Types, Local
    <3> QED BY <2>1, <3>1 DEF NumberInv
  <2> QED BY <1>1, <2>3, <2>4 DEF NumberInv
<1>3. ASSUME NEW x \in Builders, pc[x] # "idle"
      PROVE  /\ touched[x] \subseteq touched'[x]
             /\ wkeys' \union hungUp' \subseteq touched'[x]
             /\ b'[x].gen = gen' => gen' = gen /\ touched'[x] = wkeys' \union hungUp'
  BY <1>1, <1>3 DEF TouchEffect, TouchInv, LinkInv, Types, GenInv, Local
<1>4. TouchInv'
  <2>1. ASSUME NEW x \in Builders, NEW y \in Builders, pc[x] # "idle", pc[y] # "idle",
               b[x].gen = b[y].gen
        PROVE  touched'[x] = touched'[y]
    BY <1>1, <2>1, ZenonT(60) DEF TouchEffect, TouchInv
  <2>2. wkeys' \subseteq Keys /\ hungUp' \subseteq Keys
    BY WriteLink, BeginWriteLink, EndWriteLink DEF LinkInv, Types, Write
  <2>3. touched' \in [Builders -> SUBSET Keys]
    BY <1>1, <2>2 DEF TouchEffect, TouchInv
  <2> QED BY <1>1, <1>3, <2>1, <2>3 DEF TouchInv
<1>5. ASSUME NEW k \in Keys \ wkeys, k \notin lost' PROVE k \notin lost /\ Truth[k]' = Truth[k]
  <2>1. k \notin lost /\ tree'[k] = tree[k] /\ Archived(k)' = Archived(k)
    BY <1>1, <1>5 DEF FileEffect
  <2>2. Truth[k]' = IF tree'[k] # 0 THEN tree'[k] ELSE Archived(k)'
    BY DEF Truth, Index, Archived
  <2> QED BY <2>1, <2>2, TruthLemma
<1>6. ASSUME NEW k \in Keys, NEW N, \A n \in N : n.n < noteSeq, Known(k)'
      PROVE  \/ Known(k) /\ Archived(k)' = Archived(k) /\ (NotedSince(k, N) => NotedSince(k, N)')
             \/ NotedSince(k, N)'
  BY <1>1, <1>6 DEF FileEffect, NotedSince, LinkInv, Types
<1>7. ASSUME ~overtaken PROVE ArchiveInv'
  <2>1. Settling' = Settling /\ \A n \in Settling : n.n < noteSeq
    BY <1>1 DEF Settling, NumberInv
  <2> QED BY <1>1, <1>6, <1>7, <2>1 DEF ArchiveInv
<1>8. ASSUME ~overtaken PROVE GenerationInv'
  <2>1. ASSUME wkeys' \union hungUp' = wkeys \union hungUp, NEW k \in Due(wkeys \union hungUp)'
        PROVE  k \in Due(wkeys \union hungUp) /\ Truth[k]' = Truth[k]
    BY <1>5, <2>1 DEF Due
  <2>2. ASSUME KeptFor(gen)'
        PROVE  KeptFor(gen) /\ wkeys' \union hungUp' = wkeys \union hungUp
    BY <1>1, <2>2 DEF KeptFor, TouchEffect, LinkInv, GenInv, Types, Kept
  <2>3. ASSUME NEW x \in Builders, pc[x] # "idle", NEW k \in Due(touched[x])'
        PROVE  k \in Due(touched[x]) /\ Truth[k]' = Truth[k]
    BY <1>3, <1>5, <2>3 DEF TouchInv, Due
  <2> QED BY <1>1, <1>8, <2>1, <2>2, <2>3 DEF GenerationInv, KeptFor
<1>9. ASSUME ~overtaken, NEW x \in Builders \ behind PROVE BuilderInv(x)'
  <2>1. BuilderInv(x) /\ b'[x] = b[x] /\ pc'[x] = pc[x] /\ PrevOfKept' = PrevOfKept
    BY <1>1, <1>9 DEF PrevOfKept
  <2>2. \A n \in b[x].noted : n.n < noteSeq
    BY DEF NumberInv
  <2>3. ASSUME pc[x] # "idle", NEW k \in Keys \ touched'[x]
        PROVE  k \in Keys \ touched[x] /\ k \notin wkeys
    BY <1>3, <2>3 DEF TouchInv
  <2>4. pc[x] \in Building =>
          /\ notes' \intersect Settling' \subseteq b[x].noted
          /\ \A n \in notes' \ b[x].noted : n.key \in touched'[x]
          /\ \A k \in b[x].scanned \ touched'[x] : b[x].head[k] = tree'[k]
    <3> SUFFICES ASSUME pc[x] \in Building
                 PROVE  /\ notes' \intersect Settling' \subseteq b[x].noted
                        /\ \A n \in notes' \ b[x].noted : n.key \in touched'[x]
                        /\ \A k \in b[x].scanned \ touched'[x] : b[x].head[k] = tree'[k]
      OBVIOUS
    <3>1. pc[x] # "idle"
      BY DEF Building
    <3>2. Settling' = Settling /\ \A n \in Settling : n.n < noteSeq
      BY <1>1 DEF Settling, NumberInv
    <3>3. notes' \intersect Settling' \subseteq notes \intersect Settling
      BY <1>1, <3>2 DEF FileEffect, LinkInv, Types
    <3>4. \A n \in notes' \ notes : n.key \in touched'[x]
      BY <1>1, <1>3, <3>1 DEF FileEffect, TouchInv
    <3>5. \A k \in b[x].scanned : k \in Keys
      BY DEF LinkInv, Types, Local
    <3> QED BY <1>1, <1>3, <2>1, <2>3, <3>1, <3>3, <3>4, <3>5 DEF BuilderInv, FileEffect
  <2>0. PICK N : N = b[x].noted
    OBVIOUS
  <2>5. \A k \in Keys : Known(k)' =>
          \/ Known(k) /\ Archived(k)' = Archived(k) /\ (NotedSince(k, N) => NotedSince(k, N)')
          \/ NotedSince(k, N)'
    BY <1>6, <2>0, <2>2
  <2>6. /\ \A k \in b[x].scanned : k \in Keys
        /\ \A k \in b[x].alive : k \in Keys
    BY DEF LinkInv, Types, Local
  <2>8. Answer(x)' = Answer(x)
    BY <2>1 DEF Answer, Index
  <2>9. pc[x] \in {"check", "install", "settle", "answer"} =>
          \A k \in Due(touched[x])' : Answer(x)'[k] = Truth[k]'
    BY <1>5, <2>1, <2>3, <2>8 DEF BuilderInv, Due
  <2> QED BY <2>0, <2>1, <2>4, <2>5, <2>6, <2>9 DEF BuilderInv
<1> QED BY <1>1, <1>2, <1>4, <1>7, <1>8, <1>9

\* What the invariant asks of touched[x], once x has read the generation.
TouchOK(x) ==
    pc[x] # "idle" =>
        /\ wkeys \union hungUp \subseteq touched[x]
        /\ b[x].gen = gen => touched[x] = wkeys \union hungUp
        /\ \A y \in Builders : pc[y] # "idle" /\ b[x].gen = b[y].gen => touched[x] = touched[y]

\* What it asks of the locals of x, of any builder.
ReadOK(x) ==
    /\ \A n \in b[x].noted : n.n < noteSeq
    /\ \A k \in Keys : hist[k] = 0 =>
         b[x].archived[k] = 0 /\ (b[x].prev # NoCache => b[x].prev[k] = 0)
    /\ ~overtaken /\ pc[x] = "read_cache" /\ KeptFor(b[x].gen) =>
         \A k \in Due(touched[x]) : kept.index[k] = Truth[k]

\* A step of one build that neither installs nor settles other notes than those
\* it took is unseen by the others.
LEMMA OthersArch ==
    ASSUME LinkInv, ArchInv, NEW x \in Builders,
           UNCHANGED <<tree, hist, staged, torn, lost, gen, noteSeq, kept, wpc, wkeys, wclosed, hungUp, overtaken, writes>>,
           \A y \in Builders \ {x} :
               b'[y] = b[y] /\ pc'[y] = pc[y] /\ touched'[y] = touched[y] /\ (y \in behind' <=> y \in behind),
           pc'[x] # "settle",
           \/ UNCHANGED notes
           \/ pc[x] = "settle" /\ notes' = notes \ b[x].noted,
           touched' \in [Builders -> SUBSET Keys], TouchOK(x)', ReadOK(x)',
           ~overtaken /\ x \notin behind' => BuilderInv(x)'
    PROVE  ArchInv'
<1> USE DEF ArchInv
<1>1. TouchInv'
  BY DEF TouchInv, TouchOK
<1>2. notes' \subseteq notes /\ notes \ notes' \subseteq Settling
  BY DEF Settling
<1>3. FileInv' /\ NumberInv'
  BY <1>2 DEF FileInv, NumberInv, ReadOK
<1>4. Settling' \subseteq Settling
  BY DEF Settling
<1>5. \A k \in Keys : Truth[k]' = Truth[k] /\ Archived(k)' = Archived(k) /\ (Known(k)' <=> Known(k))
  BY DEF Truth, Index, Archived, Known, Pending
<1>6. ASSUME ~overtaken PROVE ArchiveInv'
  <2>1. \A k : NotedSince(k, Settling) => NotedSince(k, Settling)'
    BY <1>2, <1>4 DEF NotedSince
  <2> QED BY <1>5, <1>6, <2>1 DEF ArchiveInv
<1>7. ASSUME ~overtaken PROVE GenerationInv'
  <2>1. KeptFor(gen)' <=> KeptFor(gen)
    BY DEF KeptFor
  <2>2. ASSUME NEW y \in Builders \ {x}, (pc[y] = "read_cache" /\ KeptFor(b[y].gen))',
               NEW k \in Due(touched[y])'
        PROVE  kept'.index[k] = Truth[k]'
    <3>1. pc[y] = "read_cache" /\ KeptFor(b[y].gen) /\ k \in Due(touched[y])
      BY <2>2 DEF KeptFor, Due
    <3>2. k \in Keys
      BY <3>1 DEF Due
    <3> QED BY <1>5, <1>7, <3>1, <3>2 DEF GenerationInv
  <2>3. KeptFor(gen)' => \A k \in Due(wkeys \union hungUp)' : kept'.index[k] = Truth[k]'
    <3>1. Due(wkeys \union hungUp)' = Due(wkeys \union hungUp)
      BY DEF Due
    <3>2. \A k \in Due(wkeys \union hungUp) : k \in Keys
      BY DEF Due
    <3> QED BY <1>5, <1>7, <2>1, <3>1, <3>2 DEF GenerationInv
  <2>4. ASSUME (pc[x] = "read_cache" /\ KeptFor(b[x].gen))', NEW k \in Due(touched[x])'
        PROVE  kept'.index[k] = Truth[k]'
    BY <1>7, <2>4 DEF ReadOK
  <2> QED BY <2>2, <2>3, <2>4 DEF GenerationInv
<1>8. ASSUME ~overtaken, NEW y \in Builders \ behind', y # x PROVE BuilderInv(y)'
  <2>1. /\ BuilderInv(y) /\ b'[y] = b[y] /\ pc'[y] = pc[y] /\ touched'[y] = touched[y]
        /\ PrevOfKept' = PrevOfKept
    BY <1>8 DEF PrevOfKept
  <2>2. PICK N : N = b[y].noted
    OBVIOUS
  <2>3. pc[y] \in Building => notes \intersect Settling \subseteq N
    BY <2>1, <2>2 DEF BuilderInv
  <2>4. pc[y] \in Building => \A k : NotedSince(k, N) => NotedSince(k, N)'
    BY <1>2, <2>3 DEF NotedSince
  <2>5. Answer(y)' = Answer(y)
    BY <2>1 DEF Answer, Index
  <2>6. pc[y] \in Building =>
          /\ notes' \intersect Settling' \subseteq b'[y].noted
          /\ \A n \in notes' \ b'[y].noted : n.key \in touched'[y]
          /\ \A k \in b'[y].scanned \ touched'[y] : b'[y].head[k] = tree'[k]
    BY <1>2, <1>4, <2>1 DEF BuilderInv
  <2>7. /\ pc[y] = "extend" =>
             \A k \in Keys : b'[y].head[k] # 0 /\ Known(k)' => NotedSince(k, N)'
        /\ pc[y] = "list_head" =>
             \A k \in b'[y].scanned : b'[y].head[k] # 0 /\ Known(k)' => NotedSince(k, N)'
        /\ pc[y] = "walk_history" => \A k \in b'[y].alive : Known(k)' => NotedSince(k, N)'
        /\ pc[y] \in {"check", "install"} => \A k \in Keys :
             Known(k)' => b'[y].archived[k] = Archived(k)' \/ NotedSince(k, N)'
    <3>1. b[y].scanned \subseteq Keys /\ b[y].alive \subseteq Keys
      BY DEF LinkInv, Types, Local
    <3> QED BY <1>5, <2>1, <2>2, <2>4, <3>1 DEF BuilderInv, Building
  <2>8. pc[y] \in {"check", "install", "settle", "answer"} =>
          \A k \in Due(touched[y])' : Answer(y)'[k] = Truth[k]'
    BY <1>5, <2>1, <2>5 DEF BuilderInv, Due
  <2> QED BY <2>1, <2>2, <2>6, <2>7, <2>8 DEF BuilderInv
<1> QED BY <1>1, <1>3, <1>6, <1>7, <1>8

\* A build that has read all files of untouched keys as they are, and of every
\* archived key either the version or nothing, the key noted since, has the
\* answer.
LEMMA AnswerLemma ==
    ASSUME LinkInv, NEW l \in Local, NEW touch, wkeys \subseteq touch, lost \subseteq touch,
           \A k \in Keys \ touch : l.head[k] = tree[k],
           \A k \in Knowledge : l.archived[k] = 0,
           \A k \in Keys : hist[k] = 0 => l.archived[k] = 0,
           \A n \in notes \ l.noted : n.key \in touch,
           \A k \in Keys : Known(k) => l.archived[k] = Archived(k) \/ NotedSince(k, l.noted),
           NEW k \in Keys \ touch
    PROVE  Index(l.head, l.archived)[k] = Truth[k]
<1>1. Index(l.head, l.archived)[k] = IF tree[k] # 0 THEN tree[k] ELSE l.archived[k]
  BY DEF Index
<1>2. Truth[k] = IF tree[k] # 0 THEN tree[k] ELSE Archived(k)
  BY TruthLemma
<1>3. ASSUME tree[k] = 0 PROVE l.archived[k] = Archived(k)
  <2>1. CASE Archived(k) = 0
    BY <1>3, <2>1 DEF Archived
  <2>2. CASE Archived(k) # 0
    BY <2>2 DEF Known, Pending, NotedSince
  <2> QED BY <2>1, <2>2
<1> QED BY <1>1, <1>2, <1>3

\* The steps of links() but the installation.
LEMMA ReadArch ==
    ASSUME LinkInv, ArchInv, NEW x \in Builders,
           \/ LoadGen(x) \/ CacheHit(x) \/ CacheMiss(x) \/ ReadNotes(x)
           \/ (\E k \in Keys : ScanFile(x, k)) \/ ListAlive(x) \/ WalkHistory(x)
           \/ ExtendArchive(x) \/ CheckGen(x) \/ SettleNotes(x) \/ Reply(x) \/ BuildFails(x)
    PROVE  ArchInv'
<1>1. /\ UNCHANGED <<tree, hist, staged, torn, lost, gen, noteSeq, kept, wpc, wkeys, wclosed, hungUp, overtaken, writes>>
      /\ \A y \in Builders \ {x} :
           b'[y] = b[y] /\ pc'[y] = pc[y] /\ touched'[y] = touched[y] /\ (y \in behind' <=> y \in behind)
      /\ pc'[x] # "settle"
      /\ x \notin behind' => x \notin behind \/ pc'[x] = "idle"
      /\ touched' \in [Builders -> SUBSET Keys]
  <2>1. /\ UNCHANGED <<tree, hist, staged, torn, lost, gen, noteSeq, kept, wpc, wkeys, wclosed, hungUp, overtaken, writes>>
        /\ \E l, step, touch :
             /\ b' = [b EXCEPT ![x] = l] /\ pc' = [pc EXCEPT ![x] = step] /\ step # "settle"
             /\ touched' = [touched EXCEPT ![x] = touch] /\ touch \in SUBSET Keys
             /\ behind' = behind \/ (behind' = behind \ {x} /\ step = "idle")
    <3>1. touched \in [Builders -> SUBSET Keys] /\ b \in [Builders -> Local] /\ pc \in [Builders -> BuildSteps]
          /\ wkeys \union hungUp \in SUBSET Keys
      BY DEF ArchInv, TouchInv, LinkInv, Types
    <3>2. touched = [touched EXCEPT ![x] = touched[x]] /\ b = [b EXCEPT ![x] = b[x]]
          /\ touched[x] \in SUBSET Keys
      BY <3>1
    <3>3. CASE LoadGen(x) \/ Reply(x) \/ BuildFails(x)
      BY <3>1, <3>2, <3>3 DEF LoadGen, Reply, BuildFails, Done, Goto, repoVars, noteVars, writerVars, histVars, countVars
    <3>4. CASE CacheHit(x) \/ CacheMiss(x) \/ ReadNotes(x)
      BY <3>1, <3>2, <3>4 DEF CacheHit, CacheMiss, ReadNotes, Goto, repoVars, noteVars,
         writerVars, histVars, countVars
    <3>5. CASE \E k \in Keys : ScanFile(x, k)
      <4>1. PICK k \in Keys : ScanFile(x, k)
        BY <3>5
      <4>2. PICK step : pc' = [pc EXCEPT ![x] = step] /\ step # "settle"
        <5> DEFINE step == IF b[x].scanned \union {k} # Keys THEN "list_head"
                           ELSE IF b[x].prev = NoCache THEN "list_alive" ELSE "extend"
        <5>1. pc' = [pc EXCEPT ![x] = step] /\ step # "settle"
          BY <4>1 DEF ScanFile, Goto
        <5> HIDE DEF step
        <5> QED BY <5>1
      <4>3. b' = [b EXCEPT ![x] = [b[x] EXCEPT !.head[k] = tree[k], !.scanned = @ \union {k}]]
        BY <3>1, <4>1 DEF ScanFile
      <4> QED BY <3>2, <4>1, <4>2, <4>3 DEF ScanFile, repoVars, noteVars, writerVars, histVars, countVars
    <3>6. CASE ListAlive(x) \/ WalkHistory(x) \/ ExtendArchive(x)
      BY <3>1, <3>2, <3>6 DEF ListAlive, WalkHistory, ExtendArchive, Goto, repoVars, noteVars,
         writerVars, histVars, countVars
    <3>7. CASE CheckGen(x) \/ SettleNotes(x)
      BY <3>1, <3>2, <3>7 DEF CheckGen, SettleNotes, Goto, repoVars, noteVars, writerVars,
         histVars, countVars
    <3> QED BY <3>3, <3>4, <3>5, <3>6, <3>7
  <2> QED BY <2>1 DEF LinkInv, Types, ArchInv, TouchInv
<1>2. \/ UNCHANGED notes
      \/ pc[x] = "settle" /\ notes' = notes \ b[x].noted
  BY DEF LoadGen, CacheHit, CacheMiss, ReadNotes, ScanFile, ListAlive, WalkHistory,
         ExtendArchive, CheckGen, SettleNotes, Reply, BuildFails, Done, noteVars
<1>3. LinkInv'
  BY ReadLink
<1>4. /\ b[x] \in Local /\ pc[x] \in BuildSteps /\ b'[x] \in Local
      /\ \A k \in Knowledge : b'[x].archived[k] = 0
  BY <1>3 DEF LinkInv, Types, KnowledgeInv
<1>5. /\ \A n \in b[x].noted : n.n < noteSeq
      /\ \A k \in Keys : hist[k] = 0 =>
           b[x].archived[k] = 0 /\ (b[x].prev # NoCache => b[x].prev[k] = 0)
  BY DEF ArchInv, FileInv, NumberInv
<1>6. ~overtaken /\ x \notin behind => BuilderInv(x)
  BY DEF ArchInv
<1>7. \A k \in Keys : Truth[k]' = Truth[k] /\ Archived(k)' = Archived(k) /\ (Known(k)' <=> Known(k))
  BY <1>1 DEF Truth, Index, Archived, Known, Pending
<1>8. PrevOfKept' = PrevOfKept
  BY <1>1 DEF PrevOfKept
<1>9. ASSUME pc[x] # "idle", touched'[x] = touched[x], b'[x].gen = b[x].gen PROVE TouchOK(x)'
  BY <1>1, <1>9 DEF TouchOK, ArchInv, TouchInv
<1> SUFFICES TouchOK(x)' /\ ReadOK(x)' /\ (~overtaken /\ x \notin behind' => BuilderInv(x)')
  BY <1>1, <1>2, OthersArch
<1>10. CASE LoadGen(x)
  <2>1. /\ b'[x] = [b[x] EXCEPT !.gen = gen] /\ pc'[x] = "read_cache"
        /\ touched'[x] = wkeys \union hungUp
    BY <1>10 DEF LoadGen, Goto, LinkInv, Types, ArchInv, TouchInv
  <2>2. /\ b'[x].gen = gen /\ b'[x].noted = b[x].noted /\ b'[x].prev = b[x].prev
        /\ b'[x].archived = b[x].archived
    BY <1>4, <2>1 DEF Local
  <2>3. TouchOK(x)'
    BY <1>1, <2>1, <2>2 DEF TouchOK, ArchInv, TouchInv
  <2>4. ReadOK(x)'
    BY <1>1, <1>5, <1>7, <2>1, <2>2 DEF ReadOK, KeptFor, ArchInv, GenerationInv, Due
  <2>5. BuilderInv(x)'
    BY <2>1 DEF BuilderInv, Reading, Building
  <2> QED BY <2>3, <2>4, <2>5
<1>11. CASE CacheHit(x)
  <2>1. /\ b'[x] = [b[x] EXCEPT !.head = kept.index, !.archived = kept.archived]
        /\ pc[x] = "read_cache" /\ pc'[x] = "answer" /\ touched'[x] = touched[x] /\ KeptFor(b[x].gen)
    BY <1>11 DEF CacheHit, Goto, LinkInv, Types
  <2>2. /\ b'[x].gen = b[x].gen /\ b'[x].noted = b[x].noted /\ b'[x].prev = b[x].prev
        /\ b'[x].head = kept.index /\ b'[x].archived = kept.archived
    BY <1>4, <2>1 DEF Local
  <2>3. kept # NoCache
    BY <2>1 DEF KeptFor
  <2>4. ReadOK(x)'
    BY <1>1, <1>5, <2>1, <2>2, <2>3 DEF ReadOK, ArchInv, FileInv
  <2>5. ASSUME ~overtaken PROVE BuilderInv(x)'
    <3>1. \A k \in Keys : Answer(x)'[k] = kept.index[k]
      BY <2>2, <2>3, <2>5 DEF Answer, Index, ArchInv, ArchiveInv
    <3>2. \A k \in Due(touched[x]) : kept.index[k] = Truth[k]
      BY <2>1, <2>5 DEF ArchInv, GenerationInv
    <3> QED BY <1>1, <1>7, <2>1, <3>1, <3>2 DEF BuilderInv, Reading, Building, Due
  <2> QED BY <1>9, <2>1, <2>2, <2>4, <2>5
<1>12. CASE CacheMiss(x)
  <2>1. /\ b' = [b EXCEPT ![x].prev = PrevOfKept]
        /\ pc[x] = "read_cache" /\ pc'[x] = "read_notes" /\ touched'[x] = touched[x]
    BY <1>12 DEF CacheMiss, PrevOfKept, Goto, LinkInv, Types
  <2>2. /\ b'[x].gen = b[x].gen /\ b'[x].noted = b[x].noted /\ b'[x].prev = PrevOfKept
        /\ b'[x].archived = b[x].archived
    BY <1>4, <2>1 DEF LinkInv, Types, Local
  <2>3. \A k \in Keys : hist[k] = 0 /\ PrevOfKept # NoCache => PrevOfKept[k] = 0
    BY DEF PrevOfKept, ArchInv, FileInv
  <2>4. ReadOK(x)'
    BY <1>1, <1>5, <2>1, <2>2, <2>3 DEF ReadOK
  <2>5. BuilderInv(x)'
    BY <1>8, <2>1, <2>2 DEF BuilderInv, Reading, Building
  <2> QED BY <1>9, <2>1, <2>2, <2>4, <2>5
<1>13. CASE ReadNotes(x)
  <2>1. /\ b'[x] = [b[x] EXCEPT !.noted = notes] /\ UNCHANGED notes
        /\ pc[x] = "read_notes" /\ pc'[x] = "list_head" /\ touched'[x] = touched[x]
    BY <1>13 DEF ReadNotes, Goto, LinkInv, Types, noteVars
  <2>2. /\ b'[x].gen = b[x].gen /\ b'[x].noted = notes /\ b'[x].prev = b[x].prev
        /\ b'[x].archived = b[x].archived /\ b'[x].scanned = b[x].scanned
    BY <1>4, <2>1 DEF Local
  <2>3. b[x].scanned = {}
    BY <2>1 DEF LinkInv, ScanInv
  <2>4. ReadOK(x)'
    BY <1>1, <1>5, <2>1, <2>2 DEF ReadOK, ArchInv, NumberInv
  <2>5. ASSUME ~overtaken, x \notin behind PROVE BuilderInv(x)'
    BY <1>6, <1>8, <2>1, <2>2, <2>3, <2>5 DEF BuilderInv, Reading, Building
  <2> QED BY <1>1, <1>9, <2>1, <2>2, <2>4, <2>5
<1>14. ASSUME NEW k \in Keys, ScanFile(x, k)
       PROVE  TouchOK(x)' /\ ReadOK(x)' /\ (~overtaken /\ x \notin behind' => BuilderInv(x)')
  <2>1. /\ b'[x] = [b[x] EXCEPT !.head[k] = tree[k], !.scanned = @ \union {k}] /\ UNCHANGED notes
        /\ pc[x] = "list_head" /\ touched'[x] = touched[x]
        /\ pc'[x] = (IF b[x].scanned \union {k} # Keys THEN "list_head"
                     ELSE IF b[x].prev = NoCache THEN "list_alive" ELSE "extend")
    BY <1>14 DEF ScanFile, Goto, LinkInv, Types, noteVars
  <2>2. /\ b'[x].gen = b[x].gen /\ b'[x].noted = b[x].noted /\ b'[x].prev = b[x].prev
        /\ b'[x].archived = b[x].archived /\ b'[x].scanned = b[x].scanned \union {k}
        /\ b'[x].head = [b[x].head EXCEPT ![k] = tree[k]]
    BY <1>4, <2>1 DEF Local
  <2>3. pc'[x] \in {"list_head", "list_alive", "extend"}
    BY <2>1
  <2>4. ReadOK(x)'
    BY <1>1, <1>5, <2>2, <2>3 DEF ReadOK
  <2>5. ASSUME ~overtaken, x \notin behind PROVE BuilderInv(x)'
    <3>1. /\ BuilderInv(x) /\ b[x].scanned \subseteq Keys /\ b[x].head \in [Keys -> Nat]
      BY <1>4, <1>6, <2>5 DEF Local
    <3>2. PICK N : N = b[x].noted
      OBVIOUS
    <3>3. \A j \in b[x].scanned \union {k} :
            b'[x].head[j] # 0 /\ Known(j)' => NotedSince(j, N)'
      <4>1. ~(tree[k] # 0 /\ Known(k))
        BY DEF Known, Archived
      <4>2. \A j \in b[x].scanned : b[x].head[j] # 0 /\ Known(j) => NotedSince(j, N)
        BY <2>1, <3>1, <3>2 DEF BuilderInv
      <4>3. \A j : NotedSince(j, N)' <=> NotedSince(j, N)
        BY <2>1 DEF NotedSince
      <4> QED BY <1>7, <2>2, <3>1, <4>1, <4>2, <4>3
    <3>4. \A j \in (b[x].scanned \union {k}) \ touched[x] : b'[x].head[j] = tree[j]
      BY <2>1, <2>2, <3>1 DEF BuilderInv, Building
    <3>5. notes' \intersect Settling' \subseteq b'[x].noted
      <4>1. Settling' = Settling
        BY <1>1, <2>1, <2>3 DEF Settling
      <4> QED BY <2>1, <2>2, <3>1, <4>1 DEF BuilderInv, Building
    <3>6. \A n \in notes' \ b'[x].noted : n.key \in touched'[x]
      BY <2>1, <2>2, <3>1 DEF BuilderInv, Building
    <3>7. b'[x].prev = PrevOfKept' /\ (pc'[x] = "list_alive" => b'[x].prev = NoCache)
      BY <1>8, <2>1, <2>2, <3>1 DEF BuilderInv, Reading
    <3>8. pc'[x] = "extend" => b'[x].scanned = Keys
      BY <2>1, <2>2
    <3> QED BY <1>1, <2>1, <2>2, <2>3, <3>2, <3>3, <3>4, <3>5, <3>6, <3>7, <3>8
            DEF BuilderInv, Reading, Building
  <2> QED BY <1>1, <1>9, <2>1, <2>2, <2>3, <2>4, <2>5
<1>15. CASE ListAlive(x)
  <2>1. /\ b'[x] = [b[x] EXCEPT !.alive = {k \in Keys : tree[k] # 0}] /\ UNCHANGED notes
        /\ pc[x] = "list_alive" /\ pc'[x] = "walk_history" /\ touched'[x] = touched[x]
    BY <1>15 DEF ListAlive, Goto, LinkInv, Types, noteVars
  <2>2. /\ b'[x].gen = b[x].gen /\ b'[x].noted = b[x].noted /\ b'[x].prev = b[x].prev
        /\ b'[x].archived = b[x].archived /\ b'[x].scanned = b[x].scanned
        /\ b'[x].head = b[x].head /\ b'[x].alive = {k \in Keys : tree[k] # 0}
    BY <1>4, <2>1 DEF Local
  <2>3. ReadOK(x)'
    BY <1>1, <1>5, <2>1, <2>2 DEF ReadOK
  <2>4. \A k \in b'[x].alive : ~Known(k)'
    BY <1>7, <2>2 DEF Known, Archived
  <2>5. Settling' = Settling
    BY <1>1, <2>1 DEF Settling
  <2>6. ASSUME ~overtaken, x \notin behind PROVE BuilderInv(x)'
    BY <1>1, <1>6, <1>8, <2>1, <2>2, <2>4, <2>5, <2>6 DEF BuilderInv, Reading, Building
  <2> QED BY <1>1, <1>9, <2>1, <2>2, <2>3, <2>6
<1>16. CASE WalkHistory(x)
  <2> DEFINE walked == [k \in Keys |-> IF k \in b[x].alive \union Knowledge THEN 0 ELSE hist[k]]
  <2>1. /\ b' = [b EXCEPT ![x].archived = walked] /\ UNCHANGED notes
        /\ pc[x] = "walk_history" /\ pc'[x] = "check" /\ touched'[x] = touched[x]
    BY <1>16 DEF WalkHistory, Goto, LinkInv, Types, noteVars
  <2>2. \A k \in Keys : walked[k] = IF k \in b[x].alive \union Knowledge THEN 0 ELSE hist[k]
    OBVIOUS
  <2> HIDE DEF walked
  <2>3. /\ b'[x].gen = b[x].gen /\ b'[x].noted = b[x].noted /\ b'[x].prev = b[x].prev
        /\ b'[x].archived = walked /\ b'[x].scanned = b[x].scanned /\ b'[x].head = b[x].head
    BY <1>4, <2>1 DEF LinkInv, Types, Local
  <2>4. ReadOK(x)'
    BY <1>1, <1>5, <2>1, <2>2, <2>3 DEF ReadOK
  <2>5. Settling' = Settling
    BY <1>1, <2>1 DEF Settling
  <2>6. ASSUME ~overtaken, x \notin behind PROVE BuilderInv(x)'
    <3>1. PICK N : N = b[x].noted
      OBVIOUS
    <3>2. \A k \in Keys : Known(k) => walked[k] = Archived(k) \/ NotedSince(k, N)
      BY <1>6, <2>1, <2>2, <2>6, <3>1 DEF BuilderInv, Known, Archived
    <3>3. \A k \in Due(touched[x]) : Answer(x)'[k] = Truth[k]
      <4>1. wkeys \subseteq touched[x] /\ \A k \in Keys \ touched[x] : b[x].head[k] = tree[k]
        BY <1>6, <2>1, <2>6 DEF ArchInv, TouchInv, LinkInv, ScanInv, BuilderInv, Building
      <4>2. \A n \in notes \ N : n.key \in touched[x]
        BY <1>6, <2>1, <2>6, <3>1 DEF BuilderInv, Building
      <4>3. \A k \in Keys : hist[k] = 0 => walked[k] = 0
        BY <2>2
      <4>4. PICK l \in Local : l = b'[x]
        BY <1>4
      <4>5. Answer(x)' = Index(l.head, l.archived)
        BY <4>4 DEF Answer, Index
      <4>6. PICK t : t = touched[x] \union lost
        OBVIOUS
      <4>7. Due(touched[x]) = Keys \ t /\ wkeys \subseteq t /\ lost \subseteq t
        BY <4>1, <4>6 DEF Due
      <4>8. /\ \A k \in Keys \ t : b[x].head[k] = tree[k]
            /\ \A n \in notes \ N : n.key \in t
        BY <4>1, <4>2, <4>6
      <4> QED BY <1>4, <2>3, <3>1, <3>2, <4>3, <4>4, <4>5, <4>7, <4>8, AnswerLemma
    <3>4. \A k : NotedSince(k, N)' <=> NotedSince(k, N)
      BY <2>1 DEF NotedSince
    <3> QED BY <1>1, <1>6, <1>7, <1>8, <2>1, <2>3, <2>5, <2>6, <3>1, <3>2, <3>3, <3>4
            DEF BuilderInv, Reading, Building, Due
  <2> QED BY <1>1, <1>9, <2>1, <2>3, <2>4, <2>6
<1>17. CASE ExtendArchive(x)
  <2>1. /\ b' = [b EXCEPT ![x].archived = Extended(x)] /\ UNCHANGED notes
        /\ pc[x] = "extend" /\ pc'[x] = "check" /\ touched'[x] = touched[x]
    BY <1>17 DEF ExtendArchive, Goto, LinkInv, Types, noteVars
  <2>2. \A k \in Keys : Extended(x)[k] =
          IF b[x].head[k] # 0 THEN 0
          ELSE IF \E n \in b[x].noted : n.key = k THEN hist[k] ELSE b[x].prev[k]
    BY DEF Extended
  <2>3. /\ b'[x].gen = b[x].gen /\ b'[x].noted = b[x].noted /\ b'[x].prev = b[x].prev
        /\ b'[x].archived = Extended(x) /\ b'[x].scanned = b[x].scanned /\ b'[x].head = b[x].head
    BY <1>4, <2>1 DEF LinkInv, Types, Local
  <2>4. b[x].prev # NoCache
    BY <2>1 DEF LinkInv, ScanInv
  <2>5. \A k \in Keys : hist[k] = 0 => Extended(x)[k] = 0
    BY <1>5, <2>2, <2>4
  <2>6. ReadOK(x)'
    BY <1>1, <1>5, <2>1, <2>3, <2>5 DEF ReadOK
  <2>7. Settling' = Settling
    BY <1>1, <2>1 DEF Settling
  <2>8. ASSUME ~overtaken, x \notin behind PROVE BuilderInv(x)'
    <3>1. PICK N : N = b[x].noted
      OBVIOUS
    <3>2. kept # NoCache /\ b[x].prev = kept.archived
      BY <1>6, <2>1, <2>4, <2>8 DEF BuilderInv, Reading, PrevOfKept
    <3>3. ASSUME NEW k \in Keys, Known(k) PROVE Extended(x)[k] = Archived(k) \/ NotedSince(k, N)
      <4>1. Archived(k) = hist[k]
        BY <3>3 DEF Known, Archived
      <4>2. CASE b[x].head[k] # 0
        BY <1>6, <2>1, <2>8, <3>1, <3>3, <4>2 DEF BuilderInv
      <4>3. CASE b[x].head[k] = 0 /\ \E n \in N : n.key = k
        BY <2>2, <3>1, <4>1, <4>3
      <4>4. CASE b[x].head[k] = 0 /\ ~ \E n \in N : n.key = k
        <5>1. kept.archived[k] = Archived(k) \/ NotedSince(k, Settling)
          BY <2>8, <3>2, <3>3 DEF ArchInv, ArchiveInv
        <5> QED BY <2>2, <3>1, <3>2, <4>4, <5>1 DEF NotedSince
      <4> QED BY <4>2, <4>3, <4>4
    <3>4. \A k \in Due(touched[x]) : Answer(x)'[k] = Truth[k]
      <4>1. wkeys \subseteq touched[x] /\ \A k \in Keys \ touched[x] : b[x].head[k] = tree[k]
        BY <1>6, <2>1, <2>8 DEF ArchInv, TouchInv, LinkInv, ScanInv, BuilderInv, Building
      <4>2. \A n \in notes \ N : n.key \in touched[x]
        BY <1>6, <2>1, <2>8, <3>1 DEF BuilderInv, Building
      <4>3. PICK l \in Local : l = b'[x]
        BY <1>4
      <4>4. Answer(x)' = Index(l.head, l.archived)
        BY <4>3 DEF Answer, Index
      <4>5. PICK t : t = touched[x] \union lost
        OBVIOUS
      <4>6. Due(touched[x]) = Keys \ t /\ wkeys \subseteq t /\ lost \subseteq t
        BY <4>1, <4>5 DEF Due
      <4>7. /\ \A k \in Keys \ t : b[x].head[k] = tree[k]
            /\ \A n \in notes \ N : n.key \in t
        BY <4>1, <4>2, <4>5
      <4> QED BY <1>4, <2>3, <2>5, <3>1, <3>3, <4>3, <4>4, <4>6, <4>7, AnswerLemma
    <3>5. \A k : NotedSince(k, N)' <=> NotedSince(k, N)
      BY <2>1 DEF NotedSince
    <3> QED BY <1>1, <1>6, <1>7, <1>8, <2>1, <2>3, <2>7, <2>8, <3>1, <3>3, <3>4, <3>5
            DEF BuilderInv, Reading, Building, Due
  <2> QED BY <1>1, <1>9, <2>1, <2>3, <2>6, <2>8
<1>18. CASE CheckGen(x) \/ SettleNotes(x)
  <2>1. /\ b'[x] = b[x] /\ touched'[x] = touched[x]
        /\ \/ pc[x] = "check" /\ pc'[x] \in {"install", "answer"} /\ UNCHANGED notes
           \/ pc[x] = "settle" /\ pc'[x] = "answer"
    BY <1>18 DEF CheckGen, SettleNotes, Goto, LinkInv, Types, noteVars
  <2>2. ReadOK(x)'
    BY <1>1, <1>5, <2>1 DEF ReadOK
  <2>3. Answer(x)' = Answer(x)
    BY <2>1 DEF Answer, Index
  <2>4. Settling' \subseteq Settling
    BY <1>1, <2>1 DEF Settling
  <2>5. ASSUME ~overtaken, x \notin behind PROVE BuilderInv(x)'
    <3>1. PICK N : N = b[x].noted
      OBVIOUS
    <3>2. UNCHANGED notes => \A k : NotedSince(k, N)' <=> NotedSince(k, N)
      BY DEF NotedSince
    <3> QED BY <1>1, <1>6, <1>7, <2>1, <2>3, <2>4, <2>5, <3>1, <3>2
            DEF BuilderInv, Reading, Building, Due
  <2> QED BY <1>1, <1>9, <2>1, <2>2, <2>5
<1>19. CASE Reply(x) \/ BuildFails(x)
  <2>1. b'[x] = Unread /\ pc'[x] = "idle"
    BY <1>19 DEF Reply, BuildFails, Done, Goto, LinkInv, Types
  <2>2. /\ Unread.noted = {} /\ Unread.prev = NoCache
        /\ \A k \in Keys : Unread.archived[k] = 0
    BY DEF Unread, Empty
  <2> QED BY <2>1, <2>2 DEF TouchOK, ReadOK, BuilderInv, Reading, Building
<1> QED BY <1>10, <1>11, <1>12, <1>13, <1>14, <1>15, <1>16, <1>17, <1>18, <1>19

\* What is kept is what a build found that no other has overtaken: those that
\* are under way are behind it from now on.
LEMMA InstallArch ==
    ASSUME LinkInv, ArchInv, NEW x \in Builders, Install(x)
    PROVE  ArchInv'
<1>1. /\ UNCHANGED <<tree, hist, staged, torn, lost, gen, notes, noteSeq, wpc, wkeys, wclosed, writes, hungUp, b, touched>>
      /\ kept' = [gen |-> b[x].gen, index |-> Answer(x), archived |-> b[x].archived]
      /\ pc[x] = "install" /\ pc' = [pc EXCEPT ![x] = "settle"]
      /\ behind' = behind \union {y \in Builders \ {x} : pc[y] \notin {"idle", "read_cache"}}
      /\ overtaken' = (overtaken \/ x \in behind)
  BY DEF Install, Goto, Overtakes, repoVars, noteVars, writerVars, countVars
<1>2. /\ b[x] \in Local /\ pc \in [Builders -> BuildSteps]
      /\ kept'.gen = b[x].gen /\ kept'.index = Answer(x) /\ kept'.archived = b[x].archived
  BY <1>1 DEF LinkInv, Types
<1>3. kept' # NoCache
  <2>1. Answer(x) \in [Keys -> Nat]
    BY <1>2 DEF Answer, Index, Local
  <2>2. kept' \in Kept
    BY <1>1, <1>2, <2>1 DEF Kept, Local
  <2> QED BY <2>2, LinkCacheAssumption DEF Kept
<1>4. TouchInv'
  BY <1>1, <1>2 DEF ArchInv, TouchInv
<1>5. FileInv' /\ NumberInv'
  BY <1>1, <1>2 DEF ArchInv, FileInv, NumberInv
<1>6. SUFFICES ASSUME ~overtaken' PROVE (ArchiveInv /\ GenerationInv /\ \A y \in Builders \ behind : BuilderInv(y))'
  BY <1>4, <1>5 DEF ArchInv
<1>7. ~overtaken /\ x \notin behind /\ BuilderInv(x)
  BY <1>1, <1>6 DEF ArchInv
<1>8. /\ \A k \in Keys : Known(k) => b[x].archived[k] = Archived(k) \/ NotedSince(k, b[x].noted)
      /\ \A k \in Due(touched[x]) : Answer(x)[k] = Truth[k]
      /\ notes \intersect Settling \subseteq b[x].noted
  BY <1>1, <1>7 DEF BuilderInv, Building
<1>9. \A k \in Keys : Truth[k]' = Truth[k] /\ Archived(k)' = Archived(k) /\ (Known(k)' <=> Known(k))
  BY <1>1 DEF Truth, Index, Archived, Known, Pending
<1>10. ArchiveInv'
  <2>1. Settling' \subseteq Settling \union b[x].noted
    BY <1>1, <1>2 DEF Settling
  <2>2. \A k : NotedSince(k, b[x].noted) => NotedSince(k, Settling)'
    BY <1>1, <1>8, <2>1 DEF NotedSince
  <2>3. \A k \in Keys : kept'.index[k] = 0 => kept'.archived[k] = 0
    BY <1>2 DEF Answer, Index
  <2> QED BY <1>2, <1>8, <1>9, <2>2, <2>3 DEF ArchiveInv
<1>11. GenerationInv'
  <2>1. ASSUME KeptFor(gen)', NEW k \in Due(wkeys \union hungUp) PROVE Answer(x)[k] = Truth[k]
    <3>1. touched[x] = wkeys \union hungUp
      BY <1>1, <1>2, <2>1 DEF KeptFor, ArchInv, TouchInv
    <3> QED BY <1>8, <3>1
  <2>2. ASSUME NEW y \in Builders, (pc[y] = "read_cache" /\ KeptFor(b[y].gen))', NEW k \in Due(touched[y])
        PROVE  Answer(x)[k] = Truth[k]
    <3>1. touched[x] = touched[y]
      BY <1>1, <1>2, <2>2 DEF KeptFor, ArchInv, TouchInv
    <3> QED BY <1>8, <3>1
  <2> QED BY <1>1, <1>2, <1>9, <2>1, <2>2 DEF GenerationInv, Due
<1>12. ASSUME NEW y \in Builders \ behind' PROVE BuilderInv(y)'
  <2>1. CASE y # x
    <3>1. pc'[y] \in {"idle", "read_cache"}
      BY <1>1, <1>2, <2>1
    <3> QED BY <3>1 DEF BuilderInv, Reading, Building
  <2>2. CASE y = x
    <3>1. pc'[x] = "settle" /\ Answer(x)' = Answer(x)
      BY <1>1, <1>2 DEF Answer, Index
    <3> QED BY <1>1, <1>8, <1>9, <2>2, <3>1 DEF BuilderInv, Reading, Building, Due
  <2> QED BY <2>1, <2>2
<1> QED BY <1>10, <1>11, <1>12

LEMMA ArchStep == LinkInv /\ ArchInv /\ [Next]_vars => ArchInv'
<1> SUFFICES ASSUME LinkInv, ArchInv, [Next]_vars PROVE ArchInv'
  OBVIOUS
<1>1. CASE Write
  BY <1>1, WriteArch
<1>2. ASSUME NEW x \in Builders, Build(x) PROVE ArchInv'
  BY <1>2, ReadArch, InstallArch DEF Build
<1>3. CASE UNCHANGED vars
  <2>1. (TouchInv /\ FileInv /\ NumberInv)'
    BY <1>3 DEF vars, ArchInv, TouchInv, FileInv, NumberInv
  <2>2. ASSUME ~overtaken PROVE (ArchiveInv /\ GenerationInv)'
    BY <1>3, <2>2 DEF vars, ArchInv, ArchiveInv, GenerationInv, KeptFor, Truth, Index, Archived,
       Known, Pending, NotedSince, Settling, Due
  <2>3. ASSUME ~overtaken, NEW x \in Builders \ behind PROVE BuilderInv(x)'
    BY <1>3, <2>3 DEF vars, ArchInv, BuilderInv, PrevOfKept, Truth, Index, Archived, Answer,
       Known, Pending, NotedSince, Settling, Due
  <2> QED BY <1>3, <2>1, <2>2, <2>3 DEF vars, ArchInv
<1> QED BY <1>1, <1>2, <1>3 DEF Next, Served

LEMMA LinksAndArchive == Spec => [](LinkInv /\ ArchInv)
BY LinkInit, LinkStep, ArchInit, ArchStep, PTL DEF Spec

\* The kept index is exact for archived entries too, as long as no build was
\* installed that another had overtaken (main.rs AppState::links).
THEOREM KeptIndexStaysExact == Spec => []KeptIndexExact
<1>1. LinkInv /\ ArchInv => KeptIndexExact
  BY DEF LinkInv, WriteInv, ArchInv, GenerationInv, Due, KeptIndexExact, KeptIsCurrent
<1> QED BY <1>1, LinksAndArchive, PTL

\* No archived entry falls between two builds: it is in the archive the next
\* build starts from, or noted for it (main.rs note_archived, settle_notes).
THEOREM ArchiveIsRemembered == Spec => []ArchiveRemembered
<1>1. LinkInv /\ ArchInv => ArchiveRemembered
  BY DEF ArchInv, ArchiveInv, Known, Pending, NotedSince, ArchiveRemembered
<1> QED BY <1>1, LinksAndArchive, PTL

\* What a request for the index is answered with is exact for every key no
\* write touched meanwhile, kept or not (main.rs AppState::links).
THEOREM AnswersStayExact == Spec => []AnswerExact
<1>1. LinkInv /\ ArchInv => AnswerExact
  <2> SUFFICES ASSUME LinkInv, ArchInv, ~overtaken, NEW x \in Builders \ behind, pc[x] = "answer",
                      NEW k \in Keys \ (touched[x] \union lost)
               PROVE  Answer(x)[k] = Truth[k]
    BY DEF AnswerExact, LinkInv, Types
  <2> QED BY DEF ArchInv, BuilderInv, Due
<1> QED BY <1>1, LinksAndArchive, PTL
=============================================================================
