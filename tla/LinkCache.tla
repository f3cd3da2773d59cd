------------------------------ MODULE LinkCache -----------------------------
(* The link index of src/src/main.rs: AppState::links, note_write,          *)
(* note_archived and settle_notes, with the writes that invalidate it       *)
(* (locked_write with archive_locked, remove with remove_committed).        *)
(*                                                                          *)
(* Writes are serialised by the writer lock and bump a generation before    *)
(* and after they touch the repository.  A request for the index reads the  *)
(* generation, builds from the working tree and the archive without a lock, *)
(* and keeps its answer only if the generation has not moved.  The archive  *)
(* is read from history once; later builds extend what the kept index knew  *)
(* by the keys noted as archived since.                                     *)
(*                                                                          *)
(* Any step of a write may fail once what went before it is done: the file  *)
(* is truncated or gone and no commit says so, or the commit is there and    *)
(* what follows it never runs.                                              *)
(*                                                                          *)
(* An entry's content is represented by its version number; 0 is "none".    *)
(* The index is represented by the version of each key it was built from.   *)
EXTENDS Naturals, FiniteSets

CONSTANTS Keys,      \* entry keys
          Knowledge, \* those of knowledge entries: deleted, never archived
          Builders,  \* requests that read the link index
          NoCache,   \* links_cache before the first build
          MaxWrites, \* bound: writes
          MaxBuilds, \* bound: requests for the index
          MayDrop,   \* whether a client may hang up on a DELETE
          MayFail    \* whether files, git and the index may fail

ASSUME LinkCacheAssumption ==
    /\ Knowledge \subseteq Keys
    /\ NoCache \notin [Keys -> Nat]
    /\ NoCache \notin [gen : Nat, index : [Keys -> Nat], archived : [Keys -> Nat]]
    /\ MaxWrites \in Nat /\ MaxBuilds \in Nat
    /\ MayDrop \in BOOLEAN /\ MayFail \in BOOLEAN

VARIABLES
    tree,    \* the working tree: version of each live entry
    hist,    \* the newest version of each key in HEAD's history
    staged,  \* the version git's index holds that no commit has taken yet
    torn,    \* keys whose file was cut off by a failed write
    gen,     \* AppState.history_gen
    notes,   \* AppState.archived_since
    noteSeq, \* AppState.note_seq
    kept,    \* AppState.links_cache
    wpc,     \* where the write that holds the writer lock is
    wkeys,   \* its key, {} when nobody writes
    wclosed, \* whether it closes (or archives) the entry
    pc,      \* where each builder is
    b,       \* what each builder has read
    lost,    \* history: keys whose file went without a commit and a note of it
    touched, \* history: keys written to since each builder started
    hungUp,  \* history: the key of a DELETE dropped half way, until the next write
    behind,  \* history: builders that read the kept index another has replaced since
    overtaken, \* history: an answer was installed by a builder that was behind
    writes, builds

repoVars   == <<tree, hist, staged, torn, lost>>
noteVars   == <<notes, noteSeq>>
writerVars == <<wpc, wkeys, wclosed>>
countVars  == <<writes, builds>>
histVars   == <<hungUp, behind, overtaken>>
vars == <<tree, hist, staged, torn, lost, gen, notes, noteSeq, kept, wpc, wkeys,
          wclosed, pc, b, touched, hungUp, behind, overtaken, writes, builds>>

Versions == 0 .. MaxWrites
Contents == [Keys -> Versions]
Empty    == [k \in Keys |-> 0]

\* What a finished build keeps: LinksCache.
Cache == [gen : Nat, index : Contents, archived : Contents]

\* The locals of links() before anything is read.
Unread == [gen |-> 0, prev |-> NoCache, noted |-> {}, scanned |-> {},
           head |-> Empty, alive |-> {}, archived |-> Empty]

Init ==
    /\ tree = Empty /\ hist = Empty /\ staged = Empty /\ torn = {} /\ lost = {}
    /\ gen = 0
    /\ notes = {} /\ noteSeq = 0
    /\ kept = NoCache
    /\ wpc = "idle" /\ wkeys = {} /\ wclosed = FALSE
    /\ pc = [x \in Builders |-> "idle"]
    /\ b = [x \in Builders |-> Unread]
    /\ touched = [x \in Builders |-> {}]
    /\ hungUp = {} /\ behind = {} /\ overtaken = FALSE
    /\ writes = 0 /\ builds = 0

-----------------------------------------------------------------------------
(* Writes, under the writer lock *)

\* note_write
NoteWrite == gen' = gen + 1

\* A write to k begins: note_write before the repository is touched.
BeginWrite(k, step, closes) ==
    /\ wpc = "idle" /\ writes < MaxWrites
    /\ writes' = writes + 1
    /\ NoteWrite
    /\ wpc' = step /\ wkeys' = {k} /\ wclosed' = closes
    /\ touched' = [x \in Builders |-> IF pc[x] = "idle" THEN {} ELSE touched[x] \union {k}]
    /\ hungUp' = {}
    /\ UNCHANGED <<repoVars, noteVars, kept, pc, b, behind, overtaken, builds>>

\* locked_write: any entry may be filed or updated, an incident or task may
\* be closed by the same write.
BeginUpsert(k) ==
    \E closes \in IF k \in Knowledge THEN {FALSE} ELSE BOOLEAN :
        BeginWrite(k, "write_file", closes)

\* remove: the entry must be in the tree.
BeginRemove(k) ==
    /\ tree[k] # 0
    /\ BeginWrite(k, "remove_file", k \notin Knowledge)

\* The key being written gets version v.
Set(versions, v) == [k \in Keys |-> IF k \in wkeys THEN v ELSE versions[k]]

\* The write is refused, or fails before it changes anything: it is invalid, its
\* file cannot be read or opened, or holds this very text and stays live.
Refuse ==
    /\ wpc = "write_file"
    /\ wpc' = "forget"
    /\ UNCHANGED <<repoVars, gen, noteVars, kept, wkeys, wclosed, pc, b, touched, histVars, countVars>>

\* A closing write whose text is in the tree already changes nothing either, and
\* is archived all the same (after a commit of it has failed).
Unchanged ==
    /\ wpc = "write_file" /\ wclosed /\ \A k \in wkeys : tree[k] # 0
    /\ wpc' = "remove_file"
    /\ UNCHANGED <<repoVars, gen, noteVars, kept, wkeys, wclosed, pc, b, touched, histVars, countVars>>

\* Store::upsert: fs::write truncates the file (one cut off before cannot be
\* read, and the write is refused) ...
TruncateFile ==
    /\ wpc = "write_file" /\ wkeys \intersect torn = {}
    /\ tree' = Set(tree, 0)
    /\ wpc' = "fill_file"
    /\ UNCHANGED <<hist, staged, torn, lost, gen, noteVars, kept, wkeys, wclosed, pc, b, touched,
                   histVars, countVars>>

\* ... then fills it; what does not reach the disk in full no longer parses.
\* (Where it does parse, this is WriteFile and a commit that fails.)
WriteFile ==
    /\ wpc = "fill_file"
    /\ tree' = Set(tree, writes)
    /\ lost' = lost \ wkeys
    /\ wpc' = "commit_file"
    /\ UNCHANGED <<hist, staged, torn, gen, noteVars, kept, wkeys, wclosed, pc, b, touched, histVars,
                   countVars>>

WriteFails ==
    /\ MayFail /\ wpc = "fill_file"
    /\ torn' = torn \union wkeys
    /\ lost' = lost \union (wkeys \ Knowledge)
    /\ wpc' = "forget"
    /\ UNCHANGED <<tree, hist, staged, gen, noteVars, kept, wkeys, wclosed, pc, b, touched, histVars,
                   countVars>>

\* Store::commit_path: git's index takes this key's change, and a commit takes
\* whatever the index holds, leftovers of a failed commit included.
Commit(v) ==
    /\ hist' = [k \in Keys |-> IF k \in wkeys THEN (IF v = 0 THEN hist[k] ELSE v)
                               ELSE IF staged[k] # 0 THEN staged[k] ELSE hist[k]]
    /\ staged' = Empty

\* It may fail before the index is written, before HEAD moves, or after.
CommitFails(v) ==
    /\ MayFail
    /\ \/ UNCHANGED <<hist, staged>>
       \/ staged' = Set(staged, v) /\ UNCHANGED hist
       \/ Commit(v)
    /\ wpc' = "forget"

CommitFile ==
    /\ wpc = "commit_file"
    /\ \/ Commit(writes) /\ wpc' = IF wclosed THEN "remove_file" ELSE "forget"
       \/ CommitFails(writes)
    /\ UNCHANGED <<tree, torn, lost, gen, noteVars, kept, wkeys, wclosed, pc, b, touched, histVars,
                   countVars>>

\* Store::archive, Store::delete are not reached, or fail at once: the index
\* update after the commit failed, or the file cannot be removed.
KeepFile ==
    /\ MayFail /\ wpc = "remove_file"
    /\ wpc' = "forget"
    /\ UNCHANGED <<repoVars, gen, noteVars, kept, wkeys, wclosed, pc, b, touched, histVars, countVars>>

\* Store::remove_file: the file leaves the tree ...
RemoveFile ==
    /\ wpc = "remove_file"
    /\ tree' = Set(tree, 0)
    /\ wpc' = "commit_removal"
    /\ UNCHANGED <<hist, staged, torn, lost, gen, noteVars, kept, wkeys, wclosed, pc, b, touched,
                   histVars, countVars>>

\* ... and a commit records it, which adds no version to history.
CommitRemoval ==
    /\ wpc = "commit_removal"
    /\ Commit(0)
    /\ wpc' = IF wclosed THEN "note" ELSE "invalidate"
    /\ UNCHANGED <<tree, torn, lost, gen, noteVars, kept, wkeys, wclosed, pc, b, touched, histVars,
                   countVars>>

\* If that fails, archive_locked logs it and DELETE answers an error; neither
\* puts the file back or notes that it is gone.
RemovalFails ==
    /\ wpc = "commit_removal"
    /\ CommitFails(0)
    /\ lost' = lost \union (wkeys \ Knowledge)
    /\ UNCHANGED <<tree, torn, gen, noteVars, kept, wkeys, wclosed, pc, b, touched, histVars, countVars>>

\* note_archived: numbered first, pushed next.
NoteArchived ==
    /\ wpc = "note"
    /\ notes' = notes \union {[n |-> noteSeq, key |-> k] : k \in wkeys}
    /\ noteSeq' = noteSeq + 1
    /\ lost' = lost \ wkeys
    /\ wpc' = "forget"
    /\ UNCHANGED <<tree, hist, staged, torn, gen, kept, wkeys, wclosed, pc, b, touched, histVars,
                   countVars>>

\* remove_committed awaits the vectors' lock before it returns to remove, or
\* has failed to update the index and returns at once.
Invalidated ==
    /\ wpc = "invalidate"
    /\ wpc' = "forget"
    /\ UNCHANGED <<repoVars, gen, noteVars, kept, wkeys, wclosed, pc, b, touched, histVars, countVars>>

\* The writer lock is released.
Released == wpc' = "idle" /\ wkeys' = {} /\ wclosed' = FALSE

\* Mutant: the index is invalidated only before the commit.
EndWriteForgetsOnce ==
    /\ wpc = "forget"
    /\ Released
    /\ UNCHANGED <<repoVars, gen, noteVars, kept, pc, b, touched, histVars, countVars>>

\* note_write again, then the guard goes.
EndWrite ==
    /\ wpc = "forget"
    /\ NoteWrite
    /\ Released
    /\ UNCHANGED <<repoVars, noteVars, kept, pc, b, touched, histVars, countVars>>

\* The client hangs up while that await is pending: the handler's future is
\* dropped, the lock with it, and the second note_write never runs.
DropRemove ==
    /\ MayDrop /\ wpc = "invalidate"
    /\ Released
    /\ hungUp' = wkeys
    /\ UNCHANGED <<repoVars, gen, noteVars, kept, pc, b, touched, behind, overtaken, countVars>>

-----------------------------------------------------------------------------
(* links() *)

Goto(x, step) == pc' = [pc EXCEPT ![x] = step]

LoadGen(x) ==
    /\ pc[x] = "idle" /\ builds < MaxBuilds
    /\ builds' = builds + 1
    /\ b' = [b EXCEPT ![x].gen = gen]
    /\ touched' = [touched EXCEPT ![x] = wkeys \union hungUp]
    /\ Goto(x, "read_cache")
    /\ UNCHANGED <<repoVars, gen, noteVars, kept, writerVars, histVars, writes>>

\* Mutant: any kept index is an answer.
KeptForAny(g) == kept # NoCache

KeptFor(g) == kept # NoCache /\ kept.gen = g

\* The kept index is the answer if it is of this generation ...
CacheHit(x) ==
    /\ pc[x] = "read_cache"
    /\ KeptFor(b[x].gen)
    /\ b' = [b EXCEPT ![x].head = kept.index, ![x].archived = kept.archived]
    /\ Goto(x, "answer")
    /\ UNCHANGED <<repoVars, gen, noteVars, kept, writerVars, touched, histVars, countVars>>

\* ... otherwise the archive it knew is where this build starts from.
CacheMiss(x) ==
    /\ pc[x] = "read_cache"
    /\ ~KeptFor(b[x].gen)
    /\ b' = [b EXCEPT ![x].prev = IF kept = NoCache THEN NoCache ELSE kept.archived]
    /\ Goto(x, "read_notes")
    /\ UNCHANGED <<repoVars, gen, noteVars, kept, writerVars, touched, histVars, countVars>>

ReadNotes(x) ==
    /\ pc[x] = "read_notes"
    /\ b' = [b EXCEPT ![x].noted = notes]
    /\ Goto(x, "list_head")
    /\ UNCHANGED <<repoVars, gen, noteVars, kept, writerVars, touched, histVars, countVars>>

\* Store::list_head reads one file after the other, without a lock.
ScanFile(x, k) ==
    /\ pc[x] = "list_head" /\ k \notin b[x].scanned
    /\ b' = [b EXCEPT ![x].head[k] = tree[k], ![x].scanned = @ \union {k}]
    /\ Goto(x, IF b[x].scanned \union {k} # Keys THEN "list_head"
               ELSE IF b[x].prev = NoCache THEN "list_alive" ELSE "extend")
    /\ UNCHANGED <<repoVars, gen, noteVars, kept, writerVars, touched, histVars, countVars>>

\* The first build reads the whole archive: archived_latest lists the tree
\* again, then walks history for the last version of every other key.
ListAlive(x) ==
    /\ pc[x] = "list_alive"
    /\ b' = [b EXCEPT ![x].alive = {k \in Keys : tree[k] # 0}]
    /\ Goto(x, "walk_history")
    /\ UNCHANGED <<repoVars, gen, noteVars, kept, writerVars, touched, histVars, countVars>>

WalkHistory(x) ==
    /\ pc[x] = "walk_history"
    /\ b' = [b EXCEPT ![x].archived =
               [k \in Keys |-> IF k \in b[x].alive \union Knowledge THEN 0 ELSE hist[k]]]
    /\ Goto(x, "check")
    /\ UNCHANGED <<repoVars, gen, noteVars, kept, writerVars, touched, histVars, countVars>>

\* A later build drops the keys that came back into the tree and reads the
\* last version of each noted key that is not there.
Extended(x) ==
    [k \in Keys |->
        IF b[x].head[k] # 0 THEN 0
        ELSE IF \E n \in b[x].noted : n.key = k THEN hist[k]
        ELSE b[x].prev[k]]

ExtendArchive(x) ==
    /\ pc[x] = "extend"
    /\ b' = [b EXCEPT ![x].archived = Extended(x)]
    /\ Goto(x, "check")
    /\ UNCHANGED <<repoVars, gen, noteVars, kept, writerVars, touched, histVars, countVars>>

\* LinkIndex::build over both lists.
Index(head, archived) == [k \in Keys |-> IF head[k] # 0 THEN head[k] ELSE archived[k]]
Answer(x) == Index(b[x].head, b[x].archived)

\* A write that landed meanwhile makes this answer stale: served, not kept.
CheckGen(x) ==
    /\ pc[x] = "check"
    /\ Goto(x, IF gen = b[x].gen THEN "install" ELSE "answer")
    /\ UNCHANGED <<repoVars, gen, noteVars, kept, writerVars, b, touched, histVars, countVars>>

\* Whoever has read the kept index and is not done is behind from now on.
Overtakes(x) ==
    /\ behind' = behind \union {y \in Builders \ {x} : pc[y] \notin {"idle", "read_cache"}}
    /\ overtaken' = (overtaken \/ x \in behind)

\* Mutant: the kept index is stamped with the generation it is installed at.
InstallStamped(x) ==
    /\ pc[x] = "install"
    /\ kept' = [gen |-> gen, index |-> Answer(x), archived |-> b[x].archived]
    /\ Goto(x, "settle")
    /\ Overtakes(x)
    /\ UNCHANGED <<repoVars, gen, noteVars, writerVars, b, touched, hungUp, countVars>>

Install(x) ==
    /\ pc[x] = "install"
    /\ kept' = [gen |-> b[x].gen, index |-> Answer(x), archived |-> b[x].archived]
    /\ Goto(x, "settle")
    /\ Overtakes(x)
    /\ UNCHANGED <<repoVars, gen, noteVars, writerVars, b, touched, hungUp, countVars>>

\* Mutant: every note there is by now is settled.
SettleNotesAll(x) ==
    /\ pc[x] = "settle"
    /\ notes' = {}
    /\ Goto(x, "answer")
    /\ UNCHANGED <<repoVars, gen, noteSeq, kept, writerVars, b, touched, histVars, countVars>>

\* settle_notes: exactly the notes this build read.
SettleNotes(x) ==
    /\ pc[x] = "settle"
    /\ notes' = notes \ b[x].noted
    /\ Goto(x, "answer")
    /\ UNCHANGED <<repoVars, gen, noteSeq, kept, writerVars, b, touched, histVars, countVars>>

\* The build is over: nothing is left of what it read.
Done(x) ==
    /\ b' = [b EXCEPT ![x] = Unread]
    /\ touched' = [touched EXCEPT ![x] = {}]
    /\ behind' = behind \ {x}
    /\ Goto(x, "idle")
    /\ UNCHANGED <<repoVars, gen, noteVars, kept, writerVars, hungUp, overtaken, countVars>>

\* The caller gets its index.
Reply(x) == pc[x] = "answer" /\ Done(x)

\* A reading fails, at the latest when a file that was listed has been archived
\* since (list_head); the caller gets an error.
BuildFails(x) ==
    /\ \/ pc[x] \in {"list_head", "list_alive"} /\ touched[x] # {}
       \/ pc[x] \in {"list_head", "list_alive", "walk_history", "extend"} /\ MayFail
    /\ Done(x)

-----------------------------------------------------------------------------

Write ==
    \/ \E k \in Keys : BeginUpsert(k) \/ BeginRemove(k)
    \/ Refuse \/ Unchanged \/ TruncateFile \/ WriteFile \/ WriteFails \/ CommitFile
    \/ KeepFile \/ RemoveFile \/ CommitRemoval \/ RemovalFails
    \/ NoteArchived \/ Invalidated \/ EndWrite \/ DropRemove

Build(x) ==
    \/ LoadGen(x) \/ CacheHit(x) \/ CacheMiss(x) \/ ReadNotes(x)
    \/ (\E k \in Keys : ScanFile(x, k))
    \/ ListAlive(x) \/ WalkHistory(x) \/ ExtendArchive(x)
    \/ CheckGen(x) \/ Install(x) \/ SettleNotes(x)
    \/ Reply(x) \/ BuildFails(x)

\* Every request of the bounded run was served.
Served ==
    /\ wpc = "idle" /\ builds = MaxBuilds /\ \A x \in Builders : pc[x] = "idle"
    /\ UNCHANGED vars

Next == Write \/ (\E x \in Builders : Build(x)) \/ Served

Spec == Init /\ [][Next]_vars

-----------------------------------------------------------------------------
(* Properties *)

\* What the index should show: the live entries, and the last version of every
\* incident and task that left the tree.
Archived(k) == IF k \in Knowledge \/ tree[k] # 0 THEN 0 ELSE hist[k]
Truth == Index(tree, [k \in Keys |-> Archived(k)])

KeptIsCurrent == wpc = "idle" /\ KeptFor(gen)

\* A kept index that is handed out while no write is in progress shows every
\* live entry in its newest version and no retracted knowledge, however builds
\* and writes overlapped and whichever step of them failed (main.rs
\* AppState.history_gen); a DELETE dropped half way harms its own key alone, and
\* until the next write.
KeptTreeExact ==
    KeptIsCurrent =>
        \A k \in Keys \ hungUp :
            tree[k] # 0 \/ k \in Knowledge => kept.index[k] = tree[k]

\* The same for archived entries: the kept index is exactly what a build from
\* nothing would give, as long as no builder installed that was behind: one
\* that had read the kept index, or the notes, another has replaced since.  An
\* entry whose file went without a committed removal (lost) was never noted: the
\* failure harms that entry alone, until it is filed again or noted.
KeptIndexExact ==
    KeptIsCurrent /\ ~overtaken =>
        \A k \in Keys \ (hungUp \union lost) : kept.index[k] = Truth[k]

\* "a build that began before a write therefore never installs its pre-write
\* answer" (main.rs AppState.history_gen): with every DELETE served to its end
\* and nothing failing, the kept index is exact whatever was installed when.
IndexAlwaysExact == KeptIsCurrent => kept.index = Truth

\* An archived entry is never forgotten between builds: once its write is done
\* and its removal committed, it is in the archive the next build starts from, in
\* its last version, or noted for it (main.rs AppState.archived_since).
ArchiveRemembered ==
    \A k \in Keys \ lost : wpc = "idle" /\ kept # NoCache /\ ~overtaken /\ Archived(k) # 0 =>
        \/ kept.archived[k] = Archived(k)
        \/ \E n \in notes : n.key = k

\* An answer is exact for every key no write touched while it was built, kept
\* or not, unless its builder is behind or the key was lost (main.rs
\* AppState::links).
AnswerExact ==
    \A x \in DOMAIN pc \ behind : pc[x] = "answer" /\ ~overtaken =>
        \A k \in Keys \ (touched[x] \union lost) : Answer(x)[k] = Truth[k]
=============================================================================
