------------------------------- MODULE Vectors ------------------------------
(* The semantic side of the service: src/src/embed.rs (VectorState,         *)
(* VectorCache, Semantic) and the handlers of src/src/main.rs that drive it *)
(* (locked_write, remove_committed, reindex).                               *)
(*                                                                          *)
(* A write commits an entry under the writer lock and reserves a ticket for *)
(* its key before it lets the lock go; the embedding is computed outside    *)
(* the lock and is installed only while its ticket is the newest of the     *)
(* key.  A rebuild tickets every entry at once and embeds chunk by chunk,   *)
(* holding the vector cache throughout.  The atomic steps are the stretches *)
(* of code between two awaits.                                              *)
(*                                                                          *)
(* A vector is represented by the text it was computed from; the vector     *)
(* cache, keyed by the hash of the text, by the set of texts it holds.      *)
EXTENDS Naturals, FiniteSets

CONSTANTS Keys,        \* entry keys
          Texts,       \* what embed_text can yield for an entry
          Nothing,     \* no entry / no vector
          Tasks,       \* requests being served
          Free,        \* a lock nobody holds
          ChunkSize,   \* 16 in the code
          MaxOps,      \* bound: how many requests are ever started
          Faults       \* which of FaultKinds may happen

\* embed_error: the model fails on a batch.  dropped: the client goes away and
\* the handler's future is dropped at an await - even at that of its ticket,
\* which a failed index update, answered "run POST /reindex", skips as well.
FaultKinds == {"embed_error", "dropped"}

ASSUME VectorsAssumption ==
    /\ IsFiniteSet(Keys)
    /\ Nothing \notin Texts
    /\ Free \notin Tasks
    /\ ChunkSize \in Nat \ {0}
    /\ MaxOps \in Nat
    /\ Faults \subseteq FaultKinds

VARIABLES
    canon,      \* the text of each key's newest committed, findable version
    published,  \* history: the text the newest ticket of each key stands for
    missed,     \* history: keys whose last write ended without its ticket
    generation, \* VectorState.next_generation
    expected,   \* VectorState.expected; 0 is "no ticket"
    shown,      \* VectorState.vectors
    cache,      \* VectorCache.map
    writer,     \* holder of AppState.writer
    cacheLock,  \* holder of Semantic.cache, when kept across an await
    embedder,   \* holder of Semantic.embedder
    pc,         \* where each task is
    pending,    \* the write committed under the lock that has no ticket yet
    job,        \* tickets a task still has to embed, with their texts
    batch,      \* the part of the job being installed or embedded
    ops         \* requests started so far

vars == <<canon, published, missed, generation, expected, shown, cache, writer,
          cacheLock, embedder, pc, pending, job, batch, ops>>
writeVars == <<canon, published, missed, pending>>
stateVars == <<generation, expected, shown>>
lockVars  == <<writer, cacheLock, embedder>>
taskVars  == <<job, batch, ops>>

Content == Texts \union {Nothing}
Items   == [key : Keys, gen : Nat, text : Texts]

UpsertSteps  == {"lookup", "embed", "embedding", "store", "install"}
RebuildSteps == {"take_cache", "hits", "chunks", "embedding_chunk", "chunk_ready"}
Steps == {"idle", "ticket"} \union UpsertSteps \union RebuildSteps

Init ==
    /\ canon = [k \in Keys |-> Nothing]
    /\ published = [k \in Keys |-> Nothing]
    /\ missed = {}
    /\ generation = 0
    /\ expected = [k \in Keys |-> 0]
    /\ shown = [k \in Keys |-> Nothing]
    /\ cache = {}
    /\ writer = Free /\ cacheLock = Free /\ embedder = Free
    /\ pc = [p \in Tasks |-> "idle"]
    /\ pending = {}
    /\ job = [p \in Tasks |-> {}]
    /\ batch = [p \in Tasks |-> {}]
    /\ ops = 0

-----------------------------------------------------------------------------
(* VectorState *)

\* Mutant: the old vector is left in place until the new one lands.
NextTicketKeepsVector(k) ==
    /\ generation' = generation + 1
    /\ expected' = [expected EXCEPT ![k] = generation + 1]
    /\ UNCHANGED shown

\* VectorState::next_ticket: a new generation for k, its vector goes.
NextTicket(k) ==
    /\ generation' = generation + 1
    /\ expected' = [expected EXCEPT ![k] = generation + 1]
    /\ shown' = [shown EXCEPT ![k] = Nothing]

\* Mutant: the generation counter is cleared with the rest.
ResetRestarts(keys, gens) ==
    /\ generation' = Cardinality(keys)
    /\ expected' = [k \in Keys |-> IF k \in keys THEN gens[k] ELSE 0]
    /\ shown' = [k \in Keys |-> Nothing]

\* VectorState::reset: forget everything, then one ticket per listed key.
\* gens is the numbering, whose order is that of the listing.
Reset(keys, gens) ==
    /\ generation' = generation + Cardinality(keys)
    /\ expected' = [k \in Keys |-> IF k \in keys THEN gens[k] ELSE 0]
    /\ shown' = [k \in Keys |-> Nothing]

\* The numberings reset can produce.
Numberings(keys) ==
    {gens \in [keys -> generation + 1 .. generation + Cardinality(keys)] :
        \A k, l \in keys : gens[k] = gens[l] => k = l}

\* VectorState::install, for a set of tickets.
Current(item) == expected[item.key] = item.gen

\* Mutant: a late embedding is installed without asking for the ticket.
InstalledUnchecked(items) ==
    [k \in Keys |-> IF \E i \in items : i.key = k
                    THEN (CHOOSE i \in items : i.key = k).text
                    ELSE shown[k]]

Installed(items) ==
    [k \in Keys |-> IF \E i \in items : i.key = k /\ Current(i)
                    THEN (CHOOSE i \in items : i.key = k /\ Current(i)).text
                    ELSE shown[k]]

-----------------------------------------------------------------------------
(* Writes *)

Goto(p, step) == pc' = [pc EXCEPT ![p] = step]

\* A free task takes the writer lock; nothing is awaited until the ticket.
StartLocked(p) ==
    /\ pc[p] = "idle" /\ writer = Free /\ ops < MaxOps
    /\ ops' = ops + 1
    /\ writer' = p

\* locked_write up to begin_upsert: the entry is committed.  An unchanged or
\* refused entry takes no ticket and changes nothing here.
Commit(p, k, t) ==
    /\ StartLocked(p)
    /\ t # canon[k]
    /\ canon' = [canon EXCEPT ![k] = t]
    /\ pending' = {[key |-> k, text |-> t]}
    /\ Goto(p, "ticket")
    /\ UNCHANGED <<published, missed, stateVars, cache, cacheLock, embedder, job,
                   batch>>

\* remove_committed up to invalidate: a knowledge entry is retracted.
\* (Archiving an incident or task leaves its vector alone.)
Retract(p, k) ==
    /\ StartLocked(p)
    /\ canon[k] # Nothing
    /\ canon' = [canon EXCEPT ![k] = Nothing]
    /\ pending' = {[key |-> k, text |-> Nothing]}
    /\ Goto(p, "ticket")
    /\ UNCHANGED <<published, missed, stateVars, cache, cacheLock, embedder, job,
                   batch>>

\* begin_upsert, then the writer lock is dropped.
BeginUpsert(p) ==
    /\ pc[p] = "ticket"
    /\ \E w \in pending :
         /\ w.text # Nothing
         /\ NextTicket(w.key)
         /\ published' = [published EXCEPT ![w.key] = w.text]
         /\ missed' = missed \ {w.key}
         /\ job' = [job EXCEPT ![p] =
                {[key |-> w.key, gen |-> generation + 1, text |-> w.text]}]
    /\ pending' = {}
    /\ writer' = Free
    /\ Goto(p, "lookup")
    /\ UNCHANGED <<canon, cache, cacheLock, embedder, batch, ops>>

\* invalidate, then the writer lock is dropped.
Invalidate(p) ==
    /\ pc[p] = "ticket"
    /\ \E w \in pending :
         /\ w.text = Nothing
         /\ NextTicket(w.key)
         /\ published' = [published EXCEPT ![w.key] = Nothing]
         /\ missed' = missed \ {w.key}
    /\ pending' = {}
    /\ writer' = Free
    /\ Goto(p, "idle")
    /\ UNCHANGED <<canon, cache, cacheLock, embedder, taskVars>>

\* finish_upsert: the cache is asked first ...
Lookup(p) ==
    /\ pc[p] = "lookup" /\ cacheLock = Free
    /\ IF \A i \in job[p] : i.text \in cache
       THEN Goto(p, "install") ELSE Goto(p, "embed")
    /\ UNCHANGED <<writeVars, stateVars, cache, lockVars, taskVars>>

\* ... on a miss the model is, ...
Embed(p) ==
    /\ pc[p] = "embed" /\ embedder = Free
    /\ embedder' = p
    /\ Goto(p, "embedding")
    /\ UNCHANGED <<writeVars, stateVars, cache, writer, cacheLock, taskVars>>

Embedded(p) ==
    /\ pc[p] = "embedding"
    /\ embedder' = Free
    /\ Goto(p, "store")
    /\ UNCHANGED <<writeVars, stateVars, cache, writer, cacheLock, taskVars>>

\* ... its answer is cached ...
StoreVector(p) ==
    /\ pc[p] = "store" /\ cacheLock = Free
    /\ cache' = cache \union {i.text : i \in job[p]}
    /\ Goto(p, "install")
    /\ UNCHANGED <<writeVars, stateVars, lockVars, taskVars>>

\* ... and installed if the ticket is still the newest.
Install(p) ==
    /\ pc[p] = "install"
    /\ shown' = Installed(job[p])
    /\ job' = [job EXCEPT ![p] = {}]
    /\ Goto(p, "idle")
    /\ UNCHANGED <<writeVars, generation, expected, cache, lockVars,
                   batch, ops>>

-----------------------------------------------------------------------------
(* Rebuild: POST /reindex and the start of the service *)

\* vector_docs and begin_rebuild, both under the writer lock.
BeginRebuild(p) ==
    LET docs == {k \in Keys : canon[k] # Nothing} IN
    /\ pc[p] = "idle" /\ writer = Free /\ ops < MaxOps
    /\ ops' = ops + 1
    /\ \E gens \in Numberings(docs) :
         /\ Reset(docs, gens)
         /\ job' = [job EXCEPT ![p] =
                {[key |-> k, gen |-> gens[k], text |-> canon[k]] : k \in docs}]
    /\ published' = canon
    /\ missed' = {}
    /\ Goto(p, "take_cache")
    /\ UNCHANGED <<canon, pending, cache, lockVars, batch>>

\* finish_rebuild: the cache is locked and sorts the tickets into hits ...
TakeCache(p) ==
    /\ pc[p] = "take_cache" /\ cacheLock = Free
    /\ cacheLock' = p
    /\ batch' = [batch EXCEPT ![p] = {i \in job[p] : i.text \in cache}]
    /\ Goto(p, "hits")
    /\ UNCHANGED <<writeVars, stateVars, cache, writer, embedder, job, ops>>

InstallHits(p) ==
    /\ pc[p] = "hits"
    /\ shown' = Installed(batch[p])
    /\ job' = [job EXCEPT ![p] = @ \ batch[p]]
    /\ batch' = [batch EXCEPT ![p] = {}]
    /\ Goto(p, "chunks")
    /\ UNCHANGED <<writeVars, generation, expected, cache, lockVars, ops>>

\* ... and misses, which are embedded a chunk at a time; the last chunk may be
\* a short one.
Chunks(items) ==
    {c \in SUBSET items :
        Cardinality(c) = IF Cardinality(items) < ChunkSize
                         THEN Cardinality(items) ELSE ChunkSize}

EmbedChunk(p) ==
    /\ pc[p] = "chunks" /\ job[p] # {} /\ embedder = Free
    /\ embedder' = p
    /\ \E c \in Chunks(job[p]) : batch' = [batch EXCEPT ![p] = c]
    /\ Goto(p, "embedding_chunk")
    /\ UNCHANGED <<writeVars, stateVars, cache, writer, cacheLock, job, ops>>

ChunkEmbedded(p) ==
    /\ pc[p] = "embedding_chunk"
    /\ embedder' = Free
    /\ Goto(p, "chunk_ready")
    /\ UNCHANGED <<writeVars, stateVars, cache, writer, cacheLock, taskVars>>

InstallChunk(p) ==
    /\ pc[p] = "chunk_ready"
    /\ cache' = cache \union {i.text : i \in batch[p]}
    /\ shown' = Installed(batch[p])
    /\ job' = [job EXCEPT ![p] = @ \ batch[p]]
    /\ batch' = [batch EXCEPT ![p] = {}]
    /\ Goto(p, "chunks")
    /\ UNCHANGED <<writeVars, generation, expected, lockVars, ops>>

\* Mutant: only full chunks are embedded (chunks_exact for chunks).
FinishRebuildFullChunks(p) ==
    /\ pc[p] = "chunks" /\ Cardinality(job[p]) < ChunkSize
    /\ cacheLock' = Free
    /\ job' = [job EXCEPT ![p] = {}]
    /\ Goto(p, "idle")
    /\ UNCHANGED <<writeVars, stateVars, cache, writer, embedder, batch, ops>>

\* Mutant: the guard of the cache outlives the rebuild.
FinishRebuildKeepsCache(p) ==
    /\ pc[p] = "chunks" /\ job[p] = {}
    /\ Goto(p, "idle")
    /\ UNCHANGED <<writeVars, stateVars, cache, lockVars, taskVars>>

FinishRebuild(p) ==
    /\ pc[p] = "chunks" /\ job[p] = {}
    /\ cacheLock' = Free
    /\ Goto(p, "idle")
    /\ UNCHANGED <<writeVars, stateVars, cache, writer, embedder, taskVars>>

-----------------------------------------------------------------------------
(* Faults *)

\* The task ends where it stands: guards are dropped, what it still had to
\* embed or to ticket is lost.
Abandon(p) ==
    /\ writer' = IF writer = p THEN Free ELSE writer
    /\ cacheLock' = IF cacheLock = p THEN Free ELSE cacheLock
    /\ embedder' = IF embedder = p THEN Free ELSE embedder
    /\ job' = [job EXCEPT ![p] = {}]
    /\ batch' = [batch EXCEPT ![p] = {}]
    /\ pending' = IF writer = p THEN {} ELSE pending
    /\ missed' = missed \union {w.key : w \in pending \ pending'}
    /\ Goto(p, "idle")
    /\ UNCHANGED <<canon, published, stateVars, cache, ops>>

\* embed_passages returns an error: logged, the rest of the job is skipped.
EmbedFails(p) ==
    /\ "embed_error" \in Faults
    /\ pc[p] \in {"embedding", "embedding_chunk"}
    /\ Abandon(p)

\* The request's future is dropped while it waits for a lock.
Dropped(p) ==
    /\ "dropped" \in Faults
    /\ pc[p] \in {"ticket", "lookup", "embed", "store", "install",
                  "take_cache", "hits", "chunks", "chunk_ready"}
    /\ Abandon(p)

-----------------------------------------------------------------------------

\* The steps a task that was started goes on to take.
Proceed(p) ==
    \/ BeginUpsert(p) \/ Invalidate(p)
    \/ Lookup(p) \/ Embed(p) \/ Embedded(p) \/ StoreVector(p) \/ Install(p)
    \/ TakeCache(p) \/ InstallHits(p) \/ EmbedChunk(p) \/ ChunkEmbedded(p)
    \/ InstallChunk(p) \/ FinishRebuild(p)

Start(p) ==
    \/ \E k \in Keys, t \in Texts : Commit(p, k, t)
    \/ \E k \in Keys : Retract(p, k)
    \/ BeginRebuild(p)

Fault(p) == EmbedFails(p) \/ Dropped(p)

\* Every request of the bounded run was served.
Served ==
    /\ ops = MaxOps /\ \A p \in Tasks : pc[p] = "idle"
    /\ UNCHANGED vars

Next == (\E p \in Tasks : Start(p) \/ Proceed(p) \/ Fault(p)) \/ Served

Spec == Init /\ [][Next]_vars

\* tokio polls every woken task again and its locks are handed out in the
\* order they were asked for; whether a request comes at all is open.
FairSpec == Spec /\ \A p \in Tasks : WF_vars(Proceed(p))
-----------------------------------------------------------------------------
(* Properties *)

\* Every variable has its type; a ticket in a job is one that was handed out.
TypeOK ==
    /\ canon \in [Keys -> Content] /\ published \in [Keys -> Content]
    /\ missed \subseteq Keys
    /\ generation \in Nat
    /\ expected \in [Keys -> 0 .. generation]
    /\ shown \in [Keys -> Content]
    /\ cache \subseteq Texts
    /\ {writer, cacheLock, embedder} \subseteq Tasks \union {Free}
    /\ pc \in [Tasks -> Steps]
    /\ pending \subseteq [key : Keys, text : Content]
    /\ job \in [Tasks -> SUBSET Items] /\ batch \in [Tasks -> SUBSET Items]
    /\ \A p \in Tasks : \A i \in job[p] : i.gen \in 1 .. generation
    /\ ops \in Nat

\* No vector of an older version is ever on display: outside the window in
\* which a write to k has committed and not yet taken its ticket, the vector
\* semantic search compares for k is the one of k's newest text, and a
\* retracted entry has none - whatever embeddings and rebuilds, started before
\* or after that write, finish late (embed.rs begin_upsert, invalidate,
\* begin_rebuild).  A write that lost its ticket harms its own key and no
\* other, and until that key is next written or the vectors are rebuilt.
BeingWritten(k) == \E w \in pending : w.key = k
NoOutdatedVector ==
    \A k \in Keys \ missed :
        shown[k] = Nothing \/ BeingWritten(k) \/ shown[k] = canon[k]

\* "The semantic update gets a generation ticket before the lock is dropped"
\* (main.rs locked_write): while nobody holds the writer lock, the newest
\* ticket of every key stands for its newest committed text, but for the keys
\* whose handler ended at that await.
TicketBeforeUnlock ==
    writer = Free => \A k \in Keys \ missed : published[k] = canon[k]

\* A missing vector is always on its way: an entry without a vector has one
\* task that will embed it and whose ticket is the newest of the key, or its
\* write is about to take its ticket.  A rebuild that takes over from an
\* upsert, or an upsert that overtakes a rebuild, never leaves a key that
\* nobody embeds.  (Without faults.)
NothingForgotten ==
    \A k \in Keys : canon[k] # Nothing =>
        \/ shown[k] = canon[k]
        \/ BeingWritten(k)
        \/ \E p \in Tasks : \E i \in job[p] : i.key = k /\ Current(i)

\* Every entry ends up with the vector of its newest text, and every
\* retracted one with none, once requests stop coming.
AllEmbedded == <>[](shown = canon)

\* Semantic search as its clients may see it (VectorPromise), with the
\* published text the one the newest ticket stands for.
Promise == INSTANCE VectorPromise WITH
    Keys <- Keys, Texts <- Texts, Nothing <- Nothing, published <- published, shown <- shown
KeepsPromise == Promise!PromiseSpec

=============================================================================
