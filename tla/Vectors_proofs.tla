--------------------------- MODULE Vectors_proofs ---------------------------
(* Theorems about Vectors, for any set of keys, texts and tasks, any chunk  *)
(* size and any bound on the requests.                                      *)
EXTENDS Vectors, FiniteSetTheorems, TLAPS

\* What is being installed or embedded is part of the task's job.
BatchInJob ==
    \A p \in Tasks :
        /\ batch[p] \subseteq job[p]
        /\ pc[p] \notin {"hits", "embedding_chunk", "chunk_ready"} => batch[p] = {}

\* The one fact the ticket scheme rests on: a ticket that is still the newest
\* of its key carries the text the key is published with.
TicketTruth ==
    \A p \in Tasks : \A i \in job[p] : Current(i) => published[i.key] = i.text

\* A vector on display is the published text's.
ShownIsPublished == \A k \in Keys : shown[k] \in {Nothing, published[k]}

TicketInv == TypeOK /\ BatchInJob /\ TicketTruth /\ ShownIsPublished

-----------------------------------------------------------------------------
\* Installing a set of tickets, outdated ones among them, leaves each key with
\* its old vector or its published text's (embed.rs VectorState::install).
LEMMA InstalledLemma ==
    ASSUME TypeOK, ShownIsPublished, NEW items \in SUBSET Items,
           \A i \in items : Current(i) => published[i.key] = i.text
    PROVE  /\ Installed(items) \in [Keys -> Content]
           /\ \A k \in Keys : Installed(items)[k] \in {Nothing, published[k]}
           /\ \A k \in Keys : Installed(items)[k] \in {shown[k], published[k]}
<1> SUFFICES ASSUME NEW k \in Keys
             PROVE  Installed(items)[k] \in {shown[k], published[k]}
  BY DEF TypeOK, ShownIsPublished, Installed, Content
<1>1. CASE \E i \in items : i.key = k /\ Current(i)
  <2> DEFINE c == CHOOSE i \in items : i.key = k /\ Current(i)
  <2>1. c \in items /\ c.key = k /\ Current(c)
    BY <1>1
  <2>2. c.text = published[k]
    BY <2>1
  <2> QED
    BY <1>1, <2>2 DEF Installed
<1>2. CASE ~ \E i \in items : i.key = k /\ Current(i)
  BY <1>2 DEF Installed
<1> QED BY <1>1, <1>2

\* A rebuild hands out only generations that were never used before.
LEMMA NumberingsLemma ==
    ASSUME generation \in Nat, NEW docs \in SUBSET Keys,
           NEW gens \in Numberings(docs)
    PROVE  /\ Cardinality(docs) \in Nat
           /\ gens \in [docs -> generation + 1 .. generation + Cardinality(docs)]
<1>1. IsFiniteSet(docs)
  BY FS_Subset, VectorsAssumption
<1>2. Cardinality(docs) \in Nat
  BY <1>1, FS_CardinalityType
<1> QED BY <1>2 DEF Numberings

-----------------------------------------------------------------------------
LEMMA TicketInit == Init => TicketInv
BY VectorsAssumption
   DEF Init, TicketInv, TypeOK, BatchInJob, TicketTruth, ShownIsPublished,
       Content, Steps, Items

\* The steps that take a ticket.
LEMMA BeginUpsertTicket ==
    ASSUME TicketInv, NEW p \in Tasks, BeginUpsert(p)
    PROVE  TicketInv'
<1> USE DEF TicketInv
<1>1. PICK w \in pending :
        /\ w.text # Nothing
        /\ NextTicket(w.key)
        /\ published' = [published EXCEPT ![w.key] = w.text]
        /\ job' = [job EXCEPT ![p] =
             {[key |-> w.key, gen |-> generation + 1, text |-> w.text]}]
  BY DEF BeginUpsert
<1>2. w.key \in Keys /\ w.text \in Texts
  BY <1>1 DEF TypeOK, Content
<1>3. TypeOK'
  BY <1>1, <1>2 DEF TypeOK, BeginUpsert, NextTicket, Goto, Content, Items, Steps, UpsertSteps
<1>4. BatchInJob'
  BY <1>1 DEF BatchInJob, BeginUpsert, TypeOK, Goto
<1>5. TicketTruth'
  BY <1>1, <1>2 DEF TicketTruth, TypeOK, NextTicket, Current, Items
<1>6. ShownIsPublished'
  BY <1>1, <1>2 DEF ShownIsPublished, TypeOK, NextTicket
<1> QED BY <1>3, <1>4, <1>5, <1>6

LEMMA InvalidateTicket ==
    ASSUME TicketInv, NEW p \in Tasks, Invalidate(p)
    PROVE  TicketInv'
<1> USE DEF TicketInv
<1>1. PICK w \in pending :
        /\ w.text = Nothing
        /\ NextTicket(w.key)
        /\ published' = [published EXCEPT ![w.key] = Nothing]
  BY DEF Invalidate
<1>2. w.key \in Keys
  BY <1>1 DEF TypeOK
<1>3. TypeOK'
  BY <1>1, <1>2 DEF TypeOK, Invalidate, NextTicket, Goto, Content, Items, Steps, taskVars
<1>4. BatchInJob'
  BY <1>1 DEF BatchInJob, Invalidate, TypeOK, Goto, taskVars
<1>5. TicketTruth'
  BY <1>1, <1>2 DEF TicketTruth, TypeOK, NextTicket, Current, Items, Invalidate, taskVars
<1>6. ShownIsPublished'
  BY <1>1, <1>2 DEF ShownIsPublished, TypeOK, NextTicket
<1> QED BY <1>3, <1>4, <1>5, <1>6

LEMMA BeginRebuildTicket ==
    ASSUME TicketInv, NEW p \in Tasks, BeginRebuild(p)
    PROVE  TicketInv'
<1> USE DEF TicketInv
<1> DEFINE docs == {k \in Keys : canon[k] # Nothing}
           items(gens) == {[key |-> k, gen |-> gens[k], text |-> canon[k]] : k \in docs}
<1>1. PICK gens \in Numberings(docs) :
        Reset(docs, gens) /\ job' = [job EXCEPT ![p] = items(gens)]
  BY DEF BeginRebuild
<1>2. /\ Cardinality(docs) \in Nat
      /\ gens \in [docs -> generation + 1 .. generation + Cardinality(docs)]
  BY NumberingsLemma, <1>1 DEF TypeOK
<1>3. \A k \in docs : canon[k] \in Texts
  BY DEF TypeOK, Content
<1>4. \A i \in items(gens) :
        /\ i \in Items /\ i.gen \in 1 .. generation + Cardinality(docs)
        /\ i.key \in docs /\ i.text = canon[i.key]
  BY <1>2, <1>3 DEF Items, TypeOK
<1> HIDE DEF items
<1>5. TypeOK'
  <2> HIDE DEF docs
  <2>0. generation \in Nat /\ generation' = generation + Cardinality(docs)
    BY <1>1 DEF TypeOK, Reset
  <2>1. expected' \in [Keys -> 0 .. generation']
    <3>1. \A k \in docs : gens[k] \in 0 .. generation'
      BY <1>2, <2>0
    <3>2. 0 \in 0 .. generation'
      BY <1>2, <2>0
    <3> QED BY <1>1, <3>1, <3>2 DEF Reset
  <2>2. job' \in [Tasks -> SUBSET Items] /\ generation' \in Nat
    <3>1. items(gens) \in SUBSET Items
      BY <1>4
    <3>2. job \in [Tasks -> SUBSET Items]
      BY DEF TypeOK
    <3>3. job' \in [Tasks -> SUBSET Items]
      BY <1>1, <3>1, <3>2
    <3> QED BY <1>2, <2>0, <3>3
  <2>3. \A q \in Tasks : \A i \in job'[q] : i.gen \in 1 .. generation'
    BY <1>1, <1>2, <1>4 DEF TypeOK, Reset, Items
  <2>4. shown' \in [Keys -> Content] /\ published' \in [Keys -> Content]
    BY <1>1 DEF TypeOK, Reset, Content, BeginRebuild
  <2> QED
    BY <2>1, <2>2, <2>3, <2>4
       DEF TypeOK, BeginRebuild, Goto, Steps, RebuildSteps, lockVars
<1>6. BatchInJob'
  BY <1>1 DEF BatchInJob, BeginRebuild, TypeOK, Goto
<1>7. TicketTruth'
  <2> SUFFICES ASSUME NEW q \in Tasks, NEW i \in job'[q], Current(i)'
               PROVE  published'[i.key] = i.text
    BY DEF TicketTruth
  <2>1. CASE i \in items(gens)
    BY <2>1, <1>4 DEF BeginRebuild
  <2>2. CASE i \in job[q]
    \* a ticket from before the rebuild is older than any it hands out
    <3>1. i.gen \in 1 .. generation /\ i.key \in Keys
      BY <2>2 DEF TypeOK, Items
    <3>2. expected'[i.key] = 0 \/ expected'[i.key] > generation
      BY <1>1, <1>2, <3>1 DEF Reset, TypeOK
    <3> QED BY <3>1, <3>2 DEF Current, TypeOK
  <2> QED BY <2>1, <2>2, <1>1 DEF TypeOK
<1>8. ShownIsPublished'
  BY <1>1 DEF ShownIsPublished, Reset
<1> QED BY <1>5, <1>6, <1>7, <1>8

\* The steps that install vectors.
LEMMA InstallTicket ==
    ASSUME TicketInv, NEW p \in Tasks,
           Install(p) \/ InstallHits(p) \/ InstallChunk(p)
    PROVE  TicketInv'
<1> USE DEF TicketInv
<1> DEFINE items == IF Install(p) THEN job[p] ELSE batch[p]
<1>1. shown' = Installed(items)
  BY DEF Install, InstallHits, InstallChunk
<1>2. items \in SUBSET Items /\ items \subseteq job[p]
  BY DEF TypeOK, BatchInJob
<1>3. \A i \in items : Current(i) => published[i.key] = i.text
  BY <1>2 DEF TicketTruth
<1>4. /\ shown' \in [Keys -> Content]
      /\ \A k \in Keys : shown'[k] \in {Nothing, published[k]}
  BY <1>1, <1>2, <1>3, InstalledLemma
<1> HIDE DEF items
<1>5. /\ UNCHANGED <<canon, published, missed, pending, generation, expected,
                     writer, cacheLock, embedder, ops>>
      /\ cache' \subseteq Texts
  BY DEF Install, InstallHits, InstallChunk, writeVars, lockVars, TypeOK, Items
<1>6. /\ job' \in [Tasks -> SUBSET Items] /\ batch' \in [Tasks -> SUBSET Items]
      /\ \A q \in Tasks : job'[q] \subseteq job[q]
      /\ pc' \in [Tasks -> Steps]
  BY DEF Install, InstallHits, InstallChunk, TypeOK, Goto, Steps, RebuildSteps
<1>7. TypeOK'
  BY <1>4, <1>5, <1>6 DEF TypeOK
<1>8. BatchInJob'
  BY DEF Install, InstallHits, InstallChunk, TypeOK, Goto, BatchInJob
<1>9. TicketTruth'
  BY <1>5, <1>6 DEF TicketTruth, Current
<1>10. ShownIsPublished'
  BY <1>4, <1>5 DEF ShownIsPublished
<1> QED BY <1>7, <1>8, <1>9, <1>10

\* The steps that take no ticket and install nothing.
Quiet(p) ==
    \/ \E k \in Keys, t \in Texts : Commit(p, k, t)
    \/ \E k \in Keys : Retract(p, k)
    \/ Lookup(p) \/ Embed(p) \/ Embedded(p) \/ StoreVector(p)
    \/ TakeCache(p) \/ EmbedChunk(p) \/ ChunkEmbedded(p) \/ FinishRebuild(p)
    \/ Fault(p)

LEMMA QuietTicket ==
    ASSUME TicketInv, NEW p \in Tasks, Quiet(p)
    PROVE  TicketInv'
<1> USE DEF TicketInv
<1>1. UNCHANGED <<published, generation, expected, shown>>
  BY DEF Quiet, Commit, Retract, Lookup, Embed, Embedded, StoreVector, TakeCache,
         EmbedChunk, ChunkEmbedded, FinishRebuild, Fault, EmbedFails, Dropped,
         Abandon, writeVars, stateVars
<1>2. \A q \in Tasks : job'[q] \subseteq job[q]
  BY DEF Quiet, Commit, Retract, Lookup, Embed, Embedded, StoreVector, TakeCache,
         EmbedChunk, ChunkEmbedded, FinishRebuild, Fault, EmbedFails, Dropped,
         Abandon, taskVars, TypeOK
<1>3. TypeOK'
  <2>1. CASE \/ \E k \in Keys, t \in Texts : Commit(p, k, t)
             \/ \E k \in Keys : Retract(p, k)
    BY <2>1 DEF TypeOK, Commit, Retract, StartLocked, Goto, Steps, Content, stateVars
  <2>2. CASE Lookup(p) \/ Embed(p) \/ Embedded(p) \/ StoreVector(p)
    BY <2>2 DEF TypeOK, Lookup, Embed, Embedded, StoreVector, Goto, Steps, Items,
                UpsertSteps, writeVars, stateVars, lockVars, taskVars
  <2>3. CASE TakeCache(p) \/ EmbedChunk(p) \/ ChunkEmbedded(p) \/ FinishRebuild(p)
    BY <2>3 DEF TypeOK, TakeCache, EmbedChunk, Chunks, ChunkEmbedded, FinishRebuild,
                Goto, Steps, RebuildSteps, writeVars, stateVars, lockVars, taskVars
  <2>4. CASE Fault(p)
    BY <2>4 DEF TypeOK, Fault, EmbedFails, Dropped, Abandon,
                Goto, Steps, stateVars
  <2> QED BY <2>1, <2>2, <2>3, <2>4 DEF Quiet
<1>4. BatchInJob'
  BY DEF Quiet, Commit, Retract, StartLocked, Lookup, Embed, Embedded, StoreVector,
         TakeCache, EmbedChunk, Chunks, ChunkEmbedded, FinishRebuild, Fault,
         EmbedFails, Dropped, Abandon, taskVars, TypeOK, Goto,
         BatchInJob
<1>5. TicketTruth'
  BY <1>1, <1>2 DEF TicketTruth, Current
<1>6. ShownIsPublished'
  BY <1>1 DEF ShownIsPublished
<1> QED BY <1>3, <1>4, <1>5, <1>6

LEMMA TicketStep == TicketInv /\ [Next]_vars => TicketInv'
<1> SUFFICES ASSUME TicketInv, [Next]_vars PROVE TicketInv'
  OBVIOUS
<1>1. ASSUME NEW p \in Tasks, Start(p) \/ Proceed(p) \/ Fault(p)
      PROVE  TicketInv'
  BY <1>1, BeginUpsertTicket, InvalidateTicket, BeginRebuildTicket, InstallTicket,
     QuietTicket
     DEF Start, Proceed, Quiet
<1>2. CASE UNCHANGED vars
  BY <1>2 DEF vars, TicketInv, TypeOK, BatchInJob, TicketTruth, ShownIsPublished,
              Current
<1> QED BY <1>1, <1>2 DEF Next, Served

LEMMA TicketInvariant == Spec => []TicketInv
BY TicketInit, TicketStep, PTL DEF Spec

\* Every variable keeps its type, and no ticket is ever used that was not
\* handed out (embed.rs VectorState).
THEOREM TypeCorrect == Spec => []TypeOK
<1>1. TicketInv => TypeOK
  BY DEF TicketInv
<1> QED BY <1>1, TicketInvariant, PTL

-----------------------------------------------------------------------------
(* Nothing outdated is on display, but for the keys whose handler ended     *)
(* between its commit and its ticket.                                       *)

\* A commit that has no ticket yet is made under the writer lock, there is at
\* most one, and for every other key the newest ticket stands for the canon
\* unless it missed its ticket.
CommitInv ==
    /\ \A w \in pending : canon[w.key] = w.text
    /\ \A v, w \in pending : v = w
    /\ writer = Free => pending = {}
    /\ \A p \in Tasks : writer = p => pc[p] = "ticket"
    /\ \A k \in Keys : published[k] = canon[k] \/ BeingWritten(k) \/ k \in missed

LEMMA CommitInit == Init => CommitInv
BY VectorsAssumption DEF Init, CommitInv, BeingWritten

LEMMA CommitStep ==
    ASSUME TypeOK, CommitInv, [Next]_vars
    PROVE  CommitInv'
<1>1. ASSUME NEW p \in Tasks, NEW k \in Keys, NEW t \in Content,
             (t \in Texts /\ Commit(p, k, t)) \/ (t = Nothing /\ Retract(p, k))
      PROVE  CommitInv'
  <2>1. /\ pending = {} /\ pending' = {[key |-> k, text |-> t]}
        /\ canon' = [canon EXCEPT ![k] = t] /\ UNCHANGED <<published, missed>>
        /\ writer' = p /\ pc' = [pc EXCEPT ![p] = "ticket"]
    BY <1>1 DEF Commit, Retract, StartLocked, Goto, CommitInv
  <2> QED
    BY <2>1, VectorsAssumption DEF CommitInv, TypeOK, BeingWritten
<1>2. ASSUME NEW p \in Tasks, BeginUpsert(p) \/ Invalidate(p)
      PROVE  CommitInv'
  <2>1. PICK w \in pending :
          /\ published' = [published EXCEPT ![w.key] = w.text]
          /\ missed' = missed \ {w.key}
          /\ pending' = {} /\ writer' = Free /\ canon' = canon
    BY <1>2 DEF BeginUpsert, Invalidate, taskVars
  <2>2. w.key \in Keys /\ canon[w.key] = w.text
    BY DEF TypeOK, CommitInv
  <2>3. \A k \in Keys : published'[k] = canon[k] \/ k \in missed'
    BY <2>1, <2>2 DEF CommitInv, BeingWritten, TypeOK
  <2> QED
    BY <2>1, <2>3, VectorsAssumption DEF CommitInv, BeingWritten
<1>3. ASSUME NEW p \in Tasks, BeginRebuild(p)
      PROVE  CommitInv'
  BY <1>3, VectorsAssumption
     DEF BeginRebuild, CommitInv, TypeOK, BeingWritten, lockVars, Goto
<1>4. ASSUME NEW p \in Tasks,
             \/ Lookup(p) \/ Embed(p) \/ Embedded(p) \/ StoreVector(p) \/ Install(p)
             \/ TakeCache(p) \/ InstallHits(p) \/ EmbedChunk(p)
             \/ ChunkEmbedded(p) \/ InstallChunk(p) \/ FinishRebuild(p)
             \/ (Fault(p) /\ pc[p] # "ticket")
      PROVE  CommitInv'
  <2>1. pc[p] # "ticket"
    BY <1>4 DEF Lookup, Embed, Embedded, StoreVector, Install, TakeCache,
       InstallHits, EmbedChunk, ChunkEmbedded, InstallChunk, FinishRebuild
  <2>2. writer # p
    BY <2>1 DEF CommitInv
  <2>3. UNCHANGED <<canon, published, missed, pending, writer>>
    BY <1>4, <2>2 DEF Lookup, Embed, Embedded, StoreVector, Install, TakeCache,
       InstallHits, EmbedChunk, ChunkEmbedded, InstallChunk, FinishRebuild, Fault,
       EmbedFails, Dropped, Abandon, writeVars, lockVars
  <2>4. \A q \in Tasks : q # p => pc'[q] = pc[q]
    BY <1>4 DEF Lookup, Embed, Embedded, StoreVector, Install, TakeCache,
       InstallHits, EmbedChunk, ChunkEmbedded, InstallChunk, FinishRebuild, Fault,
       EmbedFails, Dropped, Abandon, Goto, TypeOK
  <2> QED BY <2>2, <2>3, <2>4 DEF CommitInv, BeingWritten
\* The handler ends at the await of its ticket: its key missed it.
<1>5. ASSUME NEW p \in Tasks, Fault(p), pc[p] = "ticket"
      PROVE  CommitInv'
  <2>1. /\ UNCHANGED <<canon, published>>
        /\ writer' = IF writer = p THEN Free ELSE writer
        /\ pending' = IF writer = p THEN {} ELSE pending
        /\ missed' = missed \union {w.key : w \in pending \ pending'}
        /\ pc' = [pc EXCEPT ![p] = "idle"]
    BY <1>5 DEF Fault, EmbedFails, Dropped, Abandon, Goto
  <2>2. \A w \in pending' : w \in pending
    BY <2>1
  <2>3. \A k \in Keys : published'[k] = canon'[k] \/ BeingWritten(k)' \/ k \in missed'
    BY <2>1 DEF CommitInv, BeingWritten
  <2>4. \A q \in Tasks : writer' = q => pc'[q] = "ticket"
    BY <2>1, VectorsAssumption DEF CommitInv, TypeOK
  <2> QED BY <2>1, <2>2, <2>3, <2>4 DEF CommitInv
<1>6. CASE UNCHANGED vars
  BY <1>6 DEF vars, CommitInv, BeingWritten
<1> QED
  BY <1>1, <1>2, <1>3, <1>4, <1>5, <1>6 DEF Next, Served, Start, Proceed, Content

\* The newest ticket of every key stands for its newest committed text
\* whenever the writer lock is free (main.rs locked_write, remove_committed),
\* but for keys whose last handler ended at the await of its ticket.
THEOREM TicketsBeforeUnlock == Spec => []TicketBeforeUnlock
<1>1. CommitInv /\ TypeOK => TicketBeforeUnlock
  BY DEF CommitInv, TypeOK, TicketBeforeUnlock, BeingWritten
<1>2. TypeOK /\ CommitInv /\ [Next]_vars => CommitInv'
  BY CommitStep
<1> QED BY <1>1, <1>2, CommitInit, TypeCorrect, PTL DEF Spec

\* Semantic search never compares a query with the vector of an older version
\* of an entry, nor with that of a retracted one (embed.rs begin_upsert,
\* invalidate, begin_rebuild), but for keys that missed their ticket.
THEOREM NeverOutdated == Spec => []NoOutdatedVector
<1>1. CommitInv /\ TicketInv => NoOutdatedVector
  BY DEF CommitInv, TicketInv, ShownIsPublished, NoOutdatedVector, BeingWritten
<1>2. TypeOK /\ CommitInv /\ [Next]_vars => CommitInv'
  BY CommitStep
<1> QED BY <1>1, <1>2, CommitInit, TypeCorrect, TicketInvariant, PTL DEF Spec

-----------------------------------------------------------------------------
(* Without faults nothing is forgotten either: the dual of NeverOutdated.   *)

\* What has to hold with it: no key misses its ticket, and a task that can be
\* given a new job - a free one, or one that is about to take a ticket - has
\* none left that the new one would overwrite.
OnItsWayInv ==
    /\ missed = {}
    /\ \A p \in Tasks : pc[p] \in {"idle", "ticket"} => job[p] = {}
    /\ NothingForgotten

LEMMA OnItsWayInit == Init => OnItsWayInv
BY DEF Init, OnItsWayInv, NothingForgotten

\* Nobody but the key's own write and its installation ends the wait of a key.
LEMMA StillWaiting ==
    ASSUME OnItsWayInv, NEW k \in Keys, canon'[k] = canon[k], shown'[k] = shown[k],
           BeingWritten(k) => BeingWritten(k)',
           expected'[k] = expected[k],
           \A q \in Tasks : \A i \in job[q] : i.key = k => i \in job'[q],
           canon'[k] # Nothing
    PROVE  \/ shown'[k] = canon'[k]
           \/ BeingWritten(k)'
           \/ \E p \in Tasks : \E i \in job'[p] : i.key = k /\ Current(i)'
<1>1. \/ shown[k] = canon[k]
      \/ BeingWritten(k)
      \/ \E p \in Tasks : \E i \in job[p] : i.key = k /\ Current(i)
  BY DEF OnItsWayInv, NothingForgotten
<1>2. ASSUME NEW p \in Tasks, NEW i \in job[p], i.key = k, Current(i)
      PROVE  i \in job'[p] /\ Current(i)'
  BY <1>2 DEF Current
<1> QED BY <1>1, <1>2

\* A write is committed: its key is being written.
LEMMA CommitWaits ==
    ASSUME TicketInv, OnItsWayInv, CommitInv, NEW p \in Tasks,
           NEW k \in Keys, NEW t \in Content,
           (t \in Texts /\ Commit(p, k, t)) \/ (t = Nothing /\ Retract(p, k))
    PROVE  OnItsWayInv'
<1>1. /\ pending = {} /\ pending' = {[key |-> k, text |-> t]}
      /\ canon' = [canon EXCEPT ![k] = t] /\ pc[p] = "idle"
      /\ UNCHANGED <<missed, shown, expected, job>>
      /\ pc' = [pc EXCEPT ![p] = "ticket"]
  BY DEF Commit, Retract, StartLocked, Goto, CommitInv, stateVars
<1>2. NothingForgotten'
  <2> SUFFICES ASSUME NEW l \in Keys, canon'[l] # Nothing
               PROVE  \/ shown'[l] = canon'[l]
                      \/ BeingWritten(l)'
                      \/ \E q \in Tasks : \E i \in job'[q] : i.key = l /\ Current(i)'
    BY DEF NothingForgotten
  <2>1. CASE l = k
    BY <1>1, <2>1 DEF BeingWritten
  <2>2. CASE l # k
    <3>1. canon'[l] = canon[l] /\ ~ BeingWritten(l)
      BY <1>1, <2>2 DEF TicketInv, TypeOK, BeingWritten
    <3> QED BY <1>1, <3>1, StillWaiting
  <2> QED BY <2>1, <2>2
<1> QED BY <1>1, <1>2 DEF OnItsWayInv, TicketInv, TypeOK

\* A ticket is taken: the task will embed it, or the entry is gone.
LEMMA TicketWaits ==
    ASSUME TicketInv, CommitInv, OnItsWayInv, NEW p \in Tasks,
           BeginUpsert(p) \/ Invalidate(p)
    PROVE  OnItsWayInv'
<1>1. PICK w \in pending :
        /\ NextTicket(w.key) /\ missed' = missed \ {w.key}
        /\ \/ /\ w.text = Nothing /\ UNCHANGED job /\ pc' = [pc EXCEPT ![p] = "idle"]
           \/ /\ job' = [job EXCEPT ![p] =
                   {[key |-> w.key, gen |-> generation + 1, text |-> w.text]}]
              /\ pc' = [pc EXCEPT ![p] = "lookup"]
  BY DEF BeginUpsert, Invalidate, Goto, taskVars
<1>2. /\ w.key \in Keys /\ canon[w.key] = w.text /\ canon' = canon
      /\ pc[p] = "ticket" /\ job[p] = {}
  BY DEF CommitInv, TicketInv, TypeOK, OnItsWayInv, BeginUpsert, Invalidate
<1>3. \A l \in Keys : BeingWritten(l) => l = w.key
  BY DEF CommitInv, BeingWritten
<1>4. NothingForgotten'
  <2> SUFFICES ASSUME NEW l \in Keys, canon'[l] # Nothing
               PROVE  \/ shown'[l] = canon'[l]
                      \/ BeingWritten(l)'
                      \/ \E q \in Tasks : \E i \in job'[q] : i.key = l /\ Current(i)'
    BY DEF NothingForgotten
  <2>1. CASE l = w.key
    <3>0. PICK g : g = generation + 1
      OBVIOUS
    <3> DEFINE i == [key |-> w.key, gen |-> g, text |-> w.text]
    <3>1. job' = [job EXCEPT ![p] = {i}]
      BY <1>1, <1>2, <2>1, <3>0
    <3>2. i \in job'[p]
      BY <3>1 DEF TicketInv, TypeOK
    <3>3. Current(i)'
      BY <1>1, <1>2, <3>0 DEF Current, NextTicket, TicketInv, TypeOK
    <3> QED BY <2>1, <3>2, <3>3
  <2>2. CASE l # w.key
    <3>1. shown'[l] = shown[l] /\ expected'[l] = expected[l]
      BY <1>1, <1>2, <2>2 DEF NextTicket, TicketInv, TypeOK
    <3>2. \A q \in Tasks : \A i \in job[q] : i.key = l => i \in job'[q]
      BY <1>1, <1>2 DEF TicketInv, TypeOK
    <3>3. ~ BeingWritten(l)
      BY <1>3, <2>2
    <3> QED BY <1>2, <3>1, <3>2, <3>3, StillWaiting
  <2> QED BY <2>1, <2>2
<1>5. \A q \in Tasks : pc'[q] \in {"idle", "ticket"} => job'[q] = {}
  BY <1>1, <1>2 DEF OnItsWayInv, TicketInv, TypeOK
<1> QED BY <1>1, <1>4, <1>5 DEF OnItsWayInv

\* A rebuild takes over every entry there is, its predecessor's tickets with it.
LEMMA RebuildWaits ==
    ASSUME TicketInv, OnItsWayInv, NEW p \in Tasks, BeginRebuild(p)
    PROVE  OnItsWayInv'
<1> DEFINE docs == {k \in Keys : canon[k] # Nothing}
<1>1. PICK gens \in Numberings(docs) :
        /\ Reset(docs, gens)
        /\ job' = [job EXCEPT ![p] =
             {[key |-> k, gen |-> gens[k], text |-> canon[k]] : k \in docs}]
  BY DEF BeginRebuild
<1>2. ASSUME NEW k \in docs
      PROVE  \E i \in job'[p] : i.key = k /\ Current(i)'
  <2> DEFINE i == [key |-> k, gen |-> gens[k], text |-> canon[k]]
  <2>1. i \in job'[p]
    BY <1>1 DEF TicketInv, TypeOK
  <2>2. expected'[k] = gens[k]
    BY <1>1 DEF Reset
  <2> QED BY <2>1, <2>2 DEF Current
<1>3. canon' = canon /\ missed' = {} /\ pc' = [pc EXCEPT ![p] = "take_cache"]
  BY DEF BeginRebuild, Goto
<1>4. \A q \in Tasks : pc'[q] \in {"idle", "ticket"} => job'[q] = {}
  BY <1>1, <1>3 DEF OnItsWayInv, TicketInv, TypeOK
<1> QED BY <1>2, <1>3, <1>4 DEF OnItsWayInv, NothingForgotten

\* Vectors are installed: whatever leaves a job leaves its vector, or was
\* taken over by a newer ticket.
LEMMA InstallWaits ==
    ASSUME TicketInv, CommitInv, OnItsWayInv, NEW p \in Tasks,
           Install(p) \/ InstallHits(p) \/ InstallChunk(p)
    PROVE  OnItsWayInv'
<1> DEFINE items == IF Install(p) THEN job[p] ELSE batch[p]
<1>1. shown' = Installed(items) /\ UNCHANGED <<canon, published, missed, pending, expected>>
  BY DEF Install, InstallHits, InstallChunk, writeVars
<1>2. items \in SUBSET Items /\ items \subseteq job[p]
  BY DEF TicketInv, TypeOK, BatchInJob
<1>3. \A i \in items : Current(i) => published[i.key] = i.text
  BY <1>2 DEF TicketInv, TicketTruth
<1>4. \A k \in Keys : shown'[k] \in {shown[k], published[k]}
  BY <1>1, <1>2, <1>3, InstalledLemma DEF TicketInv
<1>5. \A q \in Tasks : \A i \in job[q] : (q = p /\ i \in items) \/ i \in job'[q]
  BY DEF Install, InstallHits, InstallChunk, TicketInv, TypeOK
<1>6. \A q \in Tasks : pc'[q] \in {"idle", "ticket"} => job'[q] = {}
  BY DEF Install, InstallHits, InstallChunk, Goto, OnItsWayInv, TicketInv, TypeOK
<1> HIDE DEF items
<1>7. \A k \in Keys : published[k] = canon[k] \/ BeingWritten(k)
  BY DEF CommitInv, OnItsWayInv
<1>8. NothingForgotten'
  <2> SUFFICES ASSUME NEW k \in Keys, canon[k] # Nothing, ~ BeingWritten(k)
               PROVE  \/ shown'[k] = canon[k]
                      \/ \E q \in Tasks : \E i \in job'[q] : i.key = k /\ Current(i)'
    BY <1>1 DEF NothingForgotten, BeingWritten
  <2>1. CASE shown[k] = canon[k]
    BY <1>4, <1>7, <2>1
  <2>2. CASE \E i \in items : i.key = k /\ Current(i)
    <3> DEFINE c == CHOOSE i \in items : i.key = k /\ Current(i)
    <3>1. c \in items /\ c.key = k /\ Current(c)
      BY <2>2
    <3>2. c.text = canon[k]
      BY <1>3, <1>7, <3>1
    <3> QED BY <1>1, <2>2, <3>2 DEF Installed
  <2>3. CASE \E q \in Tasks : \E i \in job'[q] : i.key = k /\ Current(i)
    BY <1>1, <2>3 DEF Current
  <2>4. \/ shown[k] = canon[k]
        \/ \E q \in Tasks : \E i \in job[q] : i.key = k /\ Current(i)
    BY DEF OnItsWayInv, NothingForgotten
  <2> QED BY <1>5, <2>1, <2>2, <2>3, <2>4
<1> QED BY <1>1, <1>6, <1>8 DEF OnItsWayInv

\* The other steps keep every ticket.
LEMMA OthersWait ==
    ASSUME TicketInv, OnItsWayInv, NEW p \in Tasks,
           \/ Lookup(p) \/ Embed(p) \/ Embedded(p) \/ StoreVector(p)
           \/ TakeCache(p) \/ EmbedChunk(p) \/ ChunkEmbedded(p) \/ FinishRebuild(p)
    PROVE  OnItsWayInv'
<1>1. UNCHANGED <<canon, missed, pending, expected, shown, job>>
  BY DEF Lookup, Embed, Embedded, StoreVector, TakeCache, EmbedChunk,
     ChunkEmbedded, FinishRebuild, writeVars, stateVars, taskVars
<1>2. \A q \in Tasks : pc'[q] \in {"idle", "ticket"} => job[q] = {}
  BY DEF Lookup, Embed, Embedded, StoreVector, TakeCache, EmbedChunk,
     ChunkEmbedded, FinishRebuild, Goto, OnItsWayInv, TicketInv, TypeOK
<1>3. NothingForgotten'
  BY <1>1, StillWaiting DEF NothingForgotten, BeingWritten
<1> QED BY <1>1, <1>2, <1>3 DEF OnItsWayInv

LEMMA OnItsWayStep ==
    ASSUME Faults = {}, TicketInv, CommitInv, OnItsWayInv, [Next]_vars
    PROVE  OnItsWayInv'
<1>1. ASSUME NEW p \in Tasks PROVE ~ Fault(p)
  BY DEF Fault, EmbedFails, Dropped
<1>2. ASSUME NEW p \in Tasks, Start(p)
      PROVE  OnItsWayInv'
  <2>1. Texts \subseteq Content /\ Nothing \in Content
    BY DEF Content
  <2> QED BY <1>2, <2>1, CommitWaits, RebuildWaits DEF Start
<1>3. ASSUME NEW p \in Tasks, Proceed(p)
      PROVE  OnItsWayInv'
  BY <1>3, TicketWaits, InstallWaits, OthersWait DEF Proceed
<1>4. CASE UNCHANGED vars
  BY <1>4 DEF vars, OnItsWayInv, NothingForgotten, BeingWritten, Current
<1> QED BY <1>1, <1>2, <1>3, <1>4 DEF Next, Served

\* As long as no embedding fails and no client goes away, an entry that has no
\* vector of its newest text has somebody who will embed it with a ticket that
\* is still good, whichever upserts and rebuilds overtake each other
\* (embed.rs begin_upsert, begin_rebuild, VectorState::install).
THEOREM NothingIsForgotten ==
    ASSUME Faults = {}
    PROVE  Spec => []NothingForgotten
<1>1. OnItsWayInv => NothingForgotten
  BY DEF OnItsWayInv
<1>2. TicketInv /\ CommitInv /\ OnItsWayInv /\ [Next]_vars => CommitInv' /\ OnItsWayInv'
  BY CommitStep, OnItsWayStep DEF TicketInv
<1> QED
  BY <1>1, <1>2, CommitInit, OnItsWayInit, TicketInvariant, PTL DEF Spec

-----------------------------------------------------------------------------
(* The ticket scheme implements VectorPromise, whatever the faults.         *)

LEMMA PromiseStep ==
    ASSUME TicketInv, [Next]_vars
    PROVE  [Promise!PromiseNext]_(Promise!pvars)
<1> USE DEF Promise!PromiseNext, Promise!pvars
<1>1. ASSUME NEW p \in Tasks, BeginUpsert(p) \/ Invalidate(p)
      PROVE  Promise!PromiseNext
  <2>1. PICK w \in pending :
          /\ published' = [published EXCEPT ![w.key] = w.text]
          /\ shown' = [shown EXCEPT ![w.key] = Nothing]
    BY <1>1 DEF BeginUpsert, Invalidate, NextTicket
  <2>2. w.key \in Keys /\ w.text \in Texts \union {Nothing}
    BY DEF TicketInv, TypeOK, Content
  <2>3. Promise!Publish(w.key, w.text)
    BY <2>1 DEF Promise!Publish
  <2> QED BY <2>2, <2>3
<1>2. ASSUME NEW p \in Tasks, BeginRebuild(p)
      PROVE  Promise!Republish
  BY <1>2 DEF BeginRebuild, Reset, Promise!Republish, TicketInv, TypeOK, Content
<1>3. ASSUME NEW p \in Tasks, Install(p) \/ InstallHits(p) \/ InstallChunk(p)
      PROVE  Promise!Land
  <2> DEFINE items == IF Install(p) THEN job[p] ELSE batch[p]
  <2>1. shown' = Installed(items) /\ UNCHANGED published
    BY <1>3 DEF Install, InstallHits, InstallChunk, writeVars
  <2>2. items \in SUBSET Items /\ items \subseteq job[p]
    BY DEF TicketInv, TypeOK, BatchInJob
  <2>3. \A i \in items : Current(i) => published[i.key] = i.text
    BY <2>2 DEF TicketInv, TicketTruth
  <2>4. /\ shown' \in [Keys -> Content]
        /\ \A k \in Keys : shown'[k] \in {shown[k], published[k]}
    BY <2>1, <2>2, <2>3, InstalledLemma DEF TicketInv
  <2> HIDE DEF items
  <2> DEFINE S == {k \in Keys : shown'[k] = published[k]}
  <2>5. shown' = [k \in Keys |-> IF k \in S THEN published[k] ELSE shown[k]]
    BY <2>4
  <2> QED BY <2>1, <2>5 DEF Promise!Land
<1>4. ASSUME NEW p \in Tasks, Quiet(p)
      PROVE  UNCHANGED <<published, shown>>
  BY <1>4 DEF Quiet, Commit, Retract, Lookup, Embed, Embedded, StoreVector,
     TakeCache, EmbedChunk, ChunkEmbedded, FinishRebuild, Fault, EmbedFails,
     Dropped, Abandon, writeVars, stateVars
<1>5. CASE UNCHANGED vars
  BY <1>5 DEF vars
<1> QED
  BY <1>1, <1>2, <1>3, <1>4, <1>5 DEF Next, Served, Start, Proceed, Quiet

\* What clients see of semantic search is what VectorPromise allows: a commit
\* takes the old vector away, and whatever lands later is the published text's
\* (embed.rs Semantic).
THEOREM ImplementsPromise == Spec => KeepsPromise
<1>1. Init => Promise!PromiseInit
  BY DEF Init, Promise!PromiseInit
<1> QED
  BY <1>1, PromiseStep, TicketInvariant, PTL
     DEF Spec, KeepsPromise, Promise!PromiseSpec
=============================================================================
