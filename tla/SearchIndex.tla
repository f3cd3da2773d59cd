------------------------------ MODULE SearchIndex ----------------------------
(* The search index of src/src/index.rs, kept in step with the canon by the *)
(* writes of src/src/main.rs (commit_locked, remove_committed) and rebuilt  *)
(* from it by reindex and at start.                                         *)
(*                                                                          *)
(* Every version of an entry is a history document with a sequence number,  *)
(* and every findable key has one head document.  The retractions are kept  *)
(* beside the documents as tombstones, numbered in the same sequence.  A    *)
(* search holds one generation: documents and tombstones published together.*)
(* Incremental updates number on from next_seq; a reindex renumbers all.    *)
(*                                                                          *)
(* HEAD's history is a sequence of commits, one key each; a version is the  *)
(* number of the commit that wrote it.  What the canon does between two     *)
(* commits, and when one of them fails, is in Canon.                        *)
EXTENDS Integers, Sequences, FiniteSets

CONSTANTS Keys,        \* entry keys
          Knowledge,   \* those of knowledge entries: removing one retracts it
          Times,       \* what the commit clock may show (it may step back)
          MaxCommits,  \* bound: commits
          WriteFails,  \* whether w.commit or reader.reload may fail in a write
          ReindexFails,\* whether a reindex may fail
          MayCrash     \* whether the process may die

ASSUME SearchIndexAssumption ==
    /\ Knowledge \subseteq Keys
    /\ Times \subseteq Nat
    /\ MaxCommits \in Nat
    /\ WriteFails \in BOOLEAN /\ ReindexFails \in BOOLEAN /\ MayCrash \in BOOLEAN

VARIABLES
    log,     \* the commits of HEAD's history
    pc,      \* where the holder of the writer lock is
    serving, \* whether build_state is through and requests are answered
    full,    \* whether the holder rebuilds the index
    writer,  \* the documents the next commit of the IndexWriter makes
    docs,    \* the documents of its last commit
    tombs,   \* pending_tombstones
    nextSeq, \* next_seq
    gen,     \* the published generation
    held,    \* the generation a search in progress took
    damaged  \* history: an update failed and no reindex has healed it

index == <<writer, docs, tombs, nextSeq>>
vars == <<log, pc, serving, full, writer, docs, tombs, nextSeq, gen, held, damaged>>

\* heads: the version the head document of a key shows; 0: it has none.
NoDocs == [heads |-> [k \in Keys |-> 0], hist |-> {}]

\* A generation; upto and sound are history: how many commits it was published
\* after, and that no failed update had damaged it.
Generation(d, t, n, sound) == [docs |-> d, tombs |-> t, upto |-> n, sound |-> sound]
NoGeneration == Generation(NoDocs, {}, 0, TRUE)

-----------------------------------------------------------------------------
(* The history *)

Commit(k, op, at) == [key |-> k, op |-> op, at |-> at]

Writes(n, k) == {i \in 1 .. n : log[i].key = k /\ log[i].op = "write"}
Removals(n, k) == {i \in 1 .. n : log[i].key = k /\ log[i].op = "remove"}
Newest(commits) == IF commits = {} THEN 0 ELSE CHOOSE i \in commits : \A j \in commits : j <= i

\* The working tree holds the last write of a key not removed since.
InTree(k) == Newest(Writes(Len(log), k)) > Newest(Removals(Len(log), k))

Append1(k, op, at) ==
    /\ Len(log) < MaxCommits
    /\ log' = Append(log, Commit(k, op, at))

Init ==
    /\ log = <<>>
    /\ pc = "down" /\ serving = FALSE /\ full = FALSE
    /\ writer = NoDocs /\ docs = NoDocs
    /\ tombs = {} /\ nextSeq = 0
    /\ gen = NoGeneration /\ held = NoGeneration
    /\ damaged = FALSE

-----------------------------------------------------------------------------
(* Writes, under the writer lock: the canon has committed, the index follows *)

Written == log[Len(log)]

BeginUpsert(k, at) ==
    /\ pc = "idle"
    /\ Append1(k, "write", at)
    /\ pc' = "upsert_head"
    /\ UNCHANGED <<serving, full, index, gen, held, damaged>>

BeginRetract(k, at) ==
    /\ pc = "idle" /\ k \in Knowledge /\ InTree(k)
    /\ Append1(k, "remove", at)
    /\ pc' = "retract"
    /\ UNCHANGED <<serving, full, index, gen, held, damaged>>

\* Archived means findable: the documents of the entry stay.
Archive(k, at) ==
    /\ pc = "idle" /\ k \notin Knowledge /\ InTree(k)
    /\ Append1(k, "remove", at)
    /\ UNCHANGED <<pc, serving, full, index, gen, held, damaged>>

Version(n, seq) == [n |-> n, key |-> log[n].key, at |-> log[n].at, seq |-> seq]

\* upsert_head: the head document is replaced, a history document is added.
UpsertHead ==
    /\ pc = "upsert_head"
    /\ writer' = [heads |-> [writer.heads EXCEPT ![Written.key] = Len(log)],
                  hist |-> writer.hist \union {Version(Len(log), nextSeq)}]
    /\ nextSeq' = nextSeq + 1
    /\ pc' = "commit"
    /\ UNCHANGED <<log, serving, full, docs, tombs, gen, held, damaged>>

Tombstone(n, seq) == [key |-> log[n].key, at |-> log[n].at, seq |-> seq]

\* delete_head and retract.
Retract ==
    /\ pc = "retract"
    /\ writer' = [writer EXCEPT !.heads[Written.key] = 0]
    /\ tombs' = tombs \union {Tombstone(Len(log), nextSeq)}
    /\ nextSeq' = nextSeq + 1
    /\ pc' = "commit"
    /\ UNCHANGED <<log, serving, full, docs, gen, held, damaged>>

-----------------------------------------------------------------------------
(* commit_and_reload *)

CommitDocs ==
    /\ pc = "commit"
    /\ docs' = writer
    /\ pc' = "swap"
    /\ UNCHANGED <<log, serving, full, writer, tombs, nextSeq, gen, held, damaged>>

\* Documents and tombstones become one generation.
Publish ==
    /\ pc = "swap"
    /\ damaged' = (damaged /\ ~full)
    /\ gen' = Generation(docs, tombs, Len(log), ~damaged')
    /\ pc' = "idle" /\ serving' = TRUE /\ full' = FALSE
    /\ UNCHANGED <<log, index, held>>

\* An error: the request is answered with it, a start ends with it.
Abandoned ==
    /\ pc' = IF serving THEN "idle" ELSE "down"
    /\ full' = FALSE
    /\ damaged' = TRUE
    /\ UNCHANGED <<log, serving, gen, held>>

\* w.commit fails, and keeps the documents it was given or loses them; or
\* reader.reload fails.
PublishFails ==
    /\ IF full THEN ReindexFails ELSE WriteFails
    /\ \/ pc = "commit" /\ writer' \in {writer, docs}
       \/ pc = "swap" /\ UNCHANGED writer
    /\ Abandoned
    /\ UNCHANGED <<docs, tombs, nextSeq>>

-----------------------------------------------------------------------------
(* reindex, on request or at start *)

\* Every document goes, and a commit of the writer - not a generation - marks
\* the boundary.
ClearDocs ==
    /\ pc \in {"idle", "down"}
    /\ writer' = NoDocs /\ docs' = NoDocs
    /\ full' = TRUE
    /\ pc' = "walk_history"
    /\ UNCHANGED <<log, serving, tombs, nextSeq, gen, held, damaged>>

\* The documents a walk over the first n commits has produced.
Walked(n) == Cardinality({i \in 1 .. n : log[i].op = "write"})

\* Every version, numbered in walk order.
WalkHistory ==
    /\ pc = "walk_history"
    /\ writer' = [writer EXCEPT !.hist =
                    {Version(i, Walked(i)) : i \in {j \in 1 .. Len(log) : log[j].op = "write"}}]
    /\ pc' = "list_head"
    /\ UNCHANGED <<log, serving, full, docs, tombs, nextSeq, gen, held, damaged>>

\* The version the default search shows: of a live entry the one in the tree,
\* of an archived one the last; none of retracted knowledge.
HeadOf(n, k) ==
    IF k \in Knowledge /\ Newest(Removals(n, k)) > Newest(Writes(n, k)) THEN 0
    ELSE Newest(Writes(n, k))

\* Each retraction outranks the documents walked before it.
WalkedTombs ==
    {Tombstone(i, Walked(i)) : i \in {j \in 1 .. Len(log) :
        log[j].op = "remove" /\ log[j].key \in Knowledge}}

\* Mutant: the numbering goes on at the last number given out.
ListHeadSeqReused ==
    /\ pc = "list_head"
    /\ writer' = [writer EXCEPT !.heads = [k \in Keys |-> HeadOf(Len(log), k)]]
    /\ tombs' = WalkedTombs
    /\ nextSeq' = Walked(Len(log))
    /\ pc' = "commit"
    /\ UNCHANGED <<log, serving, full, docs, gen, held, damaged>>

\* Mutant: what is archived gets no head document.
ListHeadLiveOnly ==
    /\ pc = "list_head"
    /\ writer' = [writer EXCEPT !.heads =
                    [k \in Keys |-> IF InTree(k) THEN HeadOf(Len(log), k) ELSE 0]]
    /\ tombs' = WalkedTombs
    /\ nextSeq' = Walked(Len(log)) + 1
    /\ pc' = "commit"
    /\ UNCHANGED <<log, serving, full, docs, gen, held, damaged>>

\* The head documents, and the numbering goes on after the last one.
ListHead ==
    /\ pc = "list_head"
    /\ writer' = [writer EXCEPT !.heads = [k \in Keys |-> HeadOf(Len(log), k)]]
    /\ tombs' = WalkedTombs
    /\ nextSeq' = Walked(Len(log)) + 1
    /\ pc' = "commit"
    /\ UNCHANGED <<log, serving, full, docs, gen, held, damaged>>

\* Reading the canon fails, before or after the history documents were added.
ReadFails ==
    /\ ReindexFails /\ pc \in {"walk_history", "list_head"}
    /\ Abandoned
    /\ UNCHANGED index

\* The process dies: what the writer had not committed is gone.
Crash ==
    /\ MayCrash /\ pc # "down"
    /\ pc' = "down" /\ serving' = FALSE /\ full' = FALSE
    /\ writer' = docs
    /\ tombs' = {} /\ nextSeq' = 0
    /\ gen' = NoGeneration /\ held' = NoGeneration
    /\ UNCHANGED <<log, docs, damaged>>

-----------------------------------------------------------------------------
(* A search takes the generation once and reads nothing else *)

BeginSearch ==
    /\ serving /\ held # gen
    /\ held' = gen
    /\ UNCHANGED <<log, pc, serving, full, index, gen, damaged>>

\* Mutant: the tombstones of the moment.
TombstonesPending(g) == tombs

TombstonesOf(g) == g.tombs

\* current_version_per_key: the newest version of k committed by time at,
\* unless a tombstone of the generation by then outranks it; 0 for none.
CurrentVersion(g, at, k) ==
    LET by == {d \in g.docs.hist : d.key = k /\ d.at <= at}
        best == CHOOSE d \in by : \A e \in by : e.seq <= d.seq
    IN IF \/ by = {}
          \/ \E t \in TombstonesOf(g) : t.key = k /\ t.at <= at /\ t.seq >= best.seq
       THEN 0 ELSE best.n

Write ==
    \/ \E k \in Keys, at \in Times : BeginUpsert(k, at) \/ BeginRetract(k, at) \/ Archive(k, at)
    \/ UpsertHead \/ Retract

Reindex == ClearDocs \/ WalkHistory \/ ListHead \/ ReadFails

Next == Write \/ CommitDocs \/ Publish \/ PublishFails \/ Reindex \/ Crash \/ BeginSearch

Spec == Init /\ [][Next]_vars

-----------------------------------------------------------------------------
(* Properties *)

Docs == [heads : [Keys -> Nat],
         hist : SUBSET [n : Nat, key : Keys, at : Times, seq : Nat]]
Tombstones == SUBSET [key : Keys, at : Times, seq : Nat]
Generations == [docs : Docs, tombs : Tombstones, upto : Nat, sound : BOOLEAN]

\* Every variable has its type; outside a reindex what the writer adds next is
\* numbered after everything it holds.
TypeOK ==
    /\ log \in Seq([key : Keys, op : {"write", "remove"}, at : Times])
    /\ pc \in {"down", "idle", "upsert_head", "retract", "commit", "swap",
               "walk_history", "list_head"}
    /\ serving \in BOOLEAN /\ full \in BOOLEAN /\ damaged \in BOOLEAN
    /\ writer \in Docs /\ docs \in Docs
    /\ tombs \in Tombstones /\ nextSeq \in Nat
    /\ gen \in Generations /\ held \in Generations
    /\ serving /\ ~full => \A d \in writer.hist : d.seq < nextSeq

\* The version of k that was current at time at, told by the history itself:
\* the last one committed by then, unless it was retracted by then.
CurrentAt(n, at, k) ==
    LET last == Newest({i \in Writes(n, k) : log[i].at <= at})
    IN IF k \in Knowledge /\ \E i \in Removals(n, k) : i > last /\ log[i].at <= at
       THEN 0 ELSE last

SnapshotExactIn(g) ==
    g.sound => \A k \in Keys, at \in Times : CurrentVersion(g, at, k) = CurrentAt(g.upto, at, k)

\* An as_of answer is the history's, whether the documents came from writes,
\* from a reindex or from writes after one, however the commit clock ticks,
\* and for a search still running on an older generation (index.rs
\* current_version_per_key).
SnapshotExact == SnapshotExactIn(gen) /\ SnapshotExactIn(held)

\* Once a request is answered the default search shows exactly the live and
\* archived entries, in their newest versions (index.rs upsert_head, reindex).
HeadsExact ==
    serving /\ pc = "idle" /\ ~damaged =>
        \A k \in Keys : gen.docs.heads[k] = HeadOf(Len(log), k)

\* Whatever a search is given, every findable key is in it (index.rs reindex:
\* "searches keep seeing the previous complete generation until the
\* replacement generation commits below").
GenerationComplete ==
    serving => \A k \in Keys : HeadOf(gen.upto, k) # 0 => gen.docs.heads[k] # 0
=============================================================================
