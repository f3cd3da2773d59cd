---------------------------------- MODULE Canon ------------------------------
(* The canon of src/src/store.rs: a git repository whose working tree holds *)
(* the live entries, written by one request at a time under the writer lock *)
(* of src/src/main.rs (locked_write, remove) and by the migration at start. *)
(*                                                                          *)
(* A write is not one step.  The file is written, the git index is written, *)
(* the commit moves HEAD, the search index follows, and a closing write     *)
(* then removes the file again in a commit of its own.  Any step may fail   *)
(* and leave the earlier ones done, and the process may die between two.    *)
(*                                                                          *)
(* The content of an entry is a model value; two versions of equal content  *)
(* are the same (Entry::same_content).  HEAD is represented by its tree and *)
(* by what history answers: the newest version of each key.                 *)
EXTENDS FiniteSets

CONSTANTS Keys,      \* entry keys
          Knowledge, \* those of knowledge entries
          Contents,  \* what an entry may say
          Closed,    \* the contents with a closing status
          NoFile,    \* no file at a path, no version in history
          Torn,      \* a file cut short: Entry::from_markdown refuses it
          FlatKeys,  \* keys the canon held in the flat layout at first
          MayFail,   \* whether file and git operations may fail
          MayCrash   \* whether the process may die in the middle of one

ASSUME CanonAssumption ==
    /\ Keys # {} /\ Knowledge \subseteq Keys /\ FlatKeys \subseteq Keys
    /\ Closed \subseteq Contents
    /\ NoFile \notin Contents /\ Torn \notin Contents /\ NoFile # Torn
    /\ MayFail \in BOOLEAN /\ MayCrash \in BOOLEAN

VARIABLES
    tree,     \* the working tree: the file of each key at each path
    index,    \* the git index on disk
    head,     \* HEAD's tree
    latest,   \* Store::latest_version: the newest version of each key in history
    pc,       \* where the process is
    req,      \* the request being served
    mem,      \* the git index in the memory of the operation
    moves,    \* migration: the closed or open content of each entry still to move
    answered, \* history: the last answer given about each key
    faulty    \* history: a step has failed or the process has died in one

repo == <<tree, index, head, latest>>
vars == <<tree, index, head, latest, pc, req, mem, moves, answered, faulty>>

\* <kind>/<key>.md, and <key>.md of the flat layout.
Dirs == {"kind", "flat"}
Files == Contents \union {NoFile, Torn}
NoFiles == [d \in Dirs |-> NoFile]
NoTree == [k \in Keys |-> NoFiles]

\* A knowledge entry has no status to close.
ContentsOf(k) == IF k \in Knowledge THEN Contents \ Closed ELSE Contents

\* Store::existing_rel: the layout path first.
Existing(k) == IF tree[k]["kind"] # NoFile THEN "kind" ELSE "flat"
File(k) == tree[k][Existing(k)]

Unasked == [what |-> "nothing", content |-> NoFile]
Request(k, c, changed) == [key |-> k, content |-> c, changed |-> changed, dir |-> "kind"]
NoRequest == Request(CHOOSE k \in Keys : TRUE, NoFile, FALSE)
NoMoves == [k \in Keys |-> NoFile]

\* A flat canon: committed entries, and files nobody committed.
Init ==
    /\ \E was \in [FlatKeys -> Contents], strays \in SUBSET FlatKeys :
         /\ \A k \in FlatKeys : was[k] \in ContentsOf(k)
         /\ tree = [k \in Keys |-> [d \in Dirs |->
                      IF k \in FlatKeys /\ d = "flat" THEN was[k] ELSE NoFile]]
         /\ head = [k \in Keys |-> IF k \in strays THEN NoFiles ELSE tree[k]]
         /\ index = head
         /\ latest = [k \in Keys |-> head[k]["flat"]]
    /\ pc = "down"
    /\ req = NoRequest
    /\ mem = NoTree
    /\ moves = NoMoves
    /\ answered = [k \in Keys |-> Unasked]
    /\ faulty = FALSE

-----------------------------------------------------------------------------
(* Steps shared by the operations *)

Answer(k, what, content) ==
    answered' = [answered EXCEPT ![k] = [what |-> what, content |-> content]]

\* The request is over; the lock goes.
Done ==
    /\ pc' = "idle"
    /\ req' = NoRequest
    /\ mem' = NoTree

\* err500: what was done stays done.
Failed == Done /\ Answer(req.key, "failed", NoFile) /\ UNCHANGED moves

\* Mutant: the answer is never given.
StoredUnanswered == UNCHANGED answered

\* The entry is stored as asked; "kept" is changed:false, no commit made.
Stored == Answer(req.key, IF req.changed THEN "stored" ELSE "kept", req.content)

IsUpsert == req.content # NoFile

\* Mutant: the git index is changed in memory but not written.
StageForgotten(k, dir, content, from, to) ==
    /\ pc = from
    /\ mem' = [index EXCEPT ![k][dir] = content]
    /\ pc' = to
    /\ UNCHANGED <<tree, index, head, latest, req, moves, answered>>

\* commit_path up to idx.write: the index on disk, with one path changed.
Stage(k, dir, content, from, to) ==
    /\ pc = from
    /\ mem' = [index EXCEPT ![k][dir] = content]
    /\ index' = mem'
    /\ pc' = to
    /\ UNCHANGED <<tree, head, latest, req, moves, answered>>

\* The newest version of each key once t is committed: latest_version finds
\* the layout path of a commit first.
NewestWith(t) ==
    [k \in Keys |-> IF t[k]["kind"] # NoFile THEN t[k]["kind"]
                    ELSE IF t[k]["flat"] # NoFile THEN t[k]["flat"]
                    ELSE latest[k]]

\* write_tree and the commit: HEAD becomes the index in memory.
Commit(from, to) ==
    /\ pc = from
    /\ head' = mem
    /\ latest' = NewestWith(mem)
    /\ pc' = to
    /\ UNCHANGED <<tree, index, mem, moves, answered>>

-----------------------------------------------------------------------------
(* locked_write: Store::upsert, then Store::archive *)

\* Store::upsert decides on the file in the working tree.  A closing write
\* goes on to archive the entry whether or not it changed anything.
Upsert(k, c) ==
    /\ pc = "idle"
    /\ c \in ContentsOf(k)
    /\ UNCHANGED <<repo, mem, moves>>
    /\ \/ /\ File(k) = Torn
          /\ Answer(k, "failed", NoFile)
          /\ UNCHANGED <<pc, req>>
       \/ /\ File(k) = c /\ c \notin Closed
          /\ Answer(k, "kept", c)
          /\ UNCHANGED <<pc, req>>
       \/ /\ File(k) = c /\ c \in Closed
          /\ pc' = "remove_file"
          /\ req' = Request(k, c, FALSE)
          /\ Answer(k, "pending", NoFile)
       \/ /\ File(k) \notin {c, Torn}
          /\ pc' = "write_file"
          /\ req' = Request(k, c, TRUE)
          /\ Answer(k, "pending", NoFile)

\* fs::write
WriteFile ==
    /\ pc = "write_file"
    /\ tree' = [tree EXCEPT ![req.key]["kind"] = req.content]
    /\ pc' = "stage"
    /\ UNCHANGED <<index, head, latest, req, mem, moves, answered>>

\* Mutant: what is committed was staged before the file was written.
StageUpsertStale == Stage(req.key, "kind", index[req.key]["kind"], "stage", "commit")

StageUpsert == Stage(req.key, "kind", tree[req.key]["kind"], "stage", "commit")

CommitUpsert == Commit("commit", "index") /\ UNCHANGED req

\* upsert_head and commit_and_reload; a closing write goes on to archive.
IndexUpsert ==
    /\ pc = "index"
    /\ UNCHANGED <<repo, moves>>
    /\ \/ /\ req.content \in Closed
          /\ pc' = "remove_file"
          /\ UNCHANGED <<req, mem, answered>>
       \/ /\ req.content \notin Closed
          /\ Done
          /\ Stored

\* remove: any live entry may be deleted (knowledge) or archived (the rest).
Remove(k) ==
    /\ pc = "idle"
    /\ File(k) # NoFile
    /\ UNCHANGED <<repo, mem, moves>>
    /\ \/ /\ File(k) = Torn
          /\ Answer(k, "failed", NoFile)
          /\ UNCHANGED <<pc, req>>
       \/ /\ File(k) # Torn
          /\ pc' = "remove_file"
          /\ req' = Request(k, NoFile, TRUE)
          /\ Answer(k, "pending", NoFile)

\* Store::remove_file: the file, then its path in the index, then the commit.
RemoveFile ==
    /\ pc = "remove_file"
    /\ tree' = [tree EXCEPT ![req.key][Existing(req.key)] = NoFile]
    /\ req' = [req EXCEPT !.dir = Existing(req.key)]
    /\ pc' = "unstage"
    /\ UNCHANGED <<index, head, latest, mem, moves, answered>>

\* Mutant: the file is gone, and its path stays in the git index.
UnstageSkipped == Stage(req.key, req.dir, index[req.key][req.dir], "unstage", "commit_removal")

Unstage == Stage(req.key, req.dir, NoFile, "unstage", "commit_removal")

CommitRemoval == Commit("commit_removal", "removed") /\ UNCHANGED req

\* The search index follows a retraction; an archived entry stays in it.
Removed ==
    /\ pc = "removed"
    /\ Done
    /\ IF IsUpsert THEN Stored ELSE Answer(req.key, "removed", NoFile)
    /\ UNCHANGED <<repo, moves>>

-----------------------------------------------------------------------------
(* Failures of a step while serving *)

\* The file is not written, or not to its end.
WriteFileFails ==
    /\ MayFail /\ pc = "write_file"
    /\ \/ UNCHANGED tree
       \/ tree' = [tree EXCEPT ![req.key]["kind"] = Torn]
    /\ Failed
    /\ UNCHANGED <<index, head, latest>>

\* Before the git index is written, before HEAD moves, or in the search index.
WriteFails ==
    /\ MayFail /\ pc \in {"stage", "commit", "index"}
    /\ Failed
    /\ UNCHANGED repo

\* A retraction fails; an archive after an upsert fails with a line in the log.
RemovalFails ==
    /\ MayFail
    /\ \/ pc \in {"remove_file", "unstage", "commit_removal"}
       \/ pc = "removed" /\ ~IsUpsert /\ req.key \in Knowledge
    /\ Done
    /\ IF IsUpsert THEN Stored ELSE Answer(req.key, "failed", NoFile)
    /\ UNCHANGED <<repo, moves>>

-----------------------------------------------------------------------------
(* Start: Store::open with migrate_layout *)

\* What lies in the flat layout is moved, if anything does.
Start ==
    /\ pc = "down"
    /\ moves' = [k \in Keys |-> tree[k]["flat"]]
    /\ pc' = IF moves' = NoMoves THEN "idle" ELSE "rename"
    /\ mem' = IF moves' = NoMoves THEN NoTree ELSE index
    /\ UNCHANGED <<repo, req, answered>>

\* One file moves, over whatever was there, on disk and in memory.
Rename(k) ==
    /\ pc = "rename" /\ tree[k]["flat"] # NoFile
    /\ tree' = [tree EXCEPT ![k] = [kind |-> tree[k]["flat"], flat |-> NoFile]]
    /\ mem' = [mem EXCEPT ![k] = [kind |-> tree[k]["flat"], flat |-> NoFile]]
    /\ pc' = IF \A j \in Keys : tree'[j]["flat"] = NoFile THEN "write_moves" ELSE "rename"
    /\ UNCHANGED <<index, head, latest, req, moves, answered>>

\* commit_index writes the index first.
WriteIndex(from, to) ==
    /\ pc = from
    /\ index' = mem
    /\ pc' = to
    /\ UNCHANGED <<tree, head, latest, req, mem, moves, answered>>

WriteMoves == WriteIndex("write_moves", "commit_moves")

ClosedMoves == {k \in Keys : moves[k] \in Closed}

\* Mutant: closed entries are moved like any other.
CommitMovesOnly == Commit("commit_moves", "migrated") /\ UNCHANGED req

CommitMoves ==
    /\ Commit("commit_moves", IF ClosedMoves = {} THEN "migrated" ELSE "drop_closed")
    /\ UNCHANGED req

\* The closed ones among the moved entries are archived in a second commit.
DropClosed(k) ==
    /\ pc = "drop_closed" /\ k \in ClosedMoves /\ tree[k]["kind"] # NoFile
    /\ tree' = [tree EXCEPT ![k]["kind"] = NoFile]
    /\ mem' = [mem EXCEPT ![k]["kind"] = NoFile]
    /\ pc' = IF \A j \in ClosedMoves : tree'[j]["kind"] = NoFile
             THEN "write_dropped" ELSE "drop_closed"
    /\ UNCHANGED <<index, head, latest, req, moves, answered>>

\* Mutant: the removal of the closed entries is staged and not committed.
WriteDroppedOnly == WriteIndex("write_dropped", "migrated")

WriteDropped == WriteIndex("write_dropped", "commit_dropped")

CommitDropped == Commit("commit_dropped", "migrated") /\ UNCHANGED req

\* The service begins to serve.
Migrated ==
    /\ pc = "migrated"
    /\ Done
    /\ moves' = NoMoves
    /\ UNCHANGED <<repo, answered>>

Stopped ==
    /\ pc' = "down"
    /\ req' = NoRequest /\ mem' = NoTree /\ moves' = NoMoves
    /\ answered' = [k \in Keys |->
           IF answered[k].what = "pending" THEN [what |-> "failed", content |-> NoFile]
           ELSE answered[k]]

\* The process stops between requests, or dies in the middle of one (an error
\* while it starts ends it too).
Stop ==
    /\ pc # "down"
    /\ pc = "idle" \/ MayCrash
    /\ Stopped
    /\ UNCHANGED repo

\* It dies while it writes the file.
CrashWriting ==
    /\ MayCrash /\ pc = "write_file"
    /\ tree' = [tree EXCEPT ![req.key]["kind"] = Torn]
    /\ Stopped
    /\ UNCHANGED <<index, head, latest>>

-----------------------------------------------------------------------------

Serve ==
    \/ \E k \in Keys : Remove(k) \/ (\E c \in Contents : Upsert(k, c))
    \/ WriteFile \/ StageUpsert \/ CommitUpsert \/ IndexUpsert
    \/ RemoveFile \/ Unstage \/ CommitRemoval \/ Removed

Fail == WriteFileFails \/ WriteFails \/ RemovalFails

Migrate ==
    \/ Start \/ (\E k \in Keys : Rename(k)) \/ WriteMoves \/ CommitMoves
    \/ (\E k \in Keys : DropClosed(k)) \/ WriteDropped \/ CommitDropped \/ Migrated

Next ==
    \/ (Serve \/ Migrate) /\ UNCHANGED faulty
    \/ (Fail \/ CrashWriting) /\ faulty' = TRUE
    \/ Stop /\ faulty' = (faulty \/ pc # "idle")

Spec == Init /\ [][Next]_vars

-----------------------------------------------------------------------------
(* Properties *)

Steps == {"down", "rename", "write_moves", "commit_moves", "drop_closed",
          "write_dropped", "commit_dropped", "migrated", "idle", "write_file",
          "stage", "commit", "index", "remove_file", "unstage", "commit_removal",
          "removed"}
GitTree == [Keys -> [Dirs -> Contents \union {NoFile}]]
Answers == [what : {"nothing", "pending", "failed", "stored", "kept", "removed"},
            content : Contents \union {NoFile}]

\* Every variable has its type; git never holds a torn file, and a request is
\* pending only while it is served.
TypeOK ==
    /\ tree \in [Keys -> [Dirs -> Files]]
    /\ index \in GitTree /\ head \in GitTree /\ mem \in GitTree
    /\ latest \in [Keys -> Contents \union {NoFile}]
    /\ pc \in Steps
    /\ req \in [key : Keys, content : Contents \union {NoFile}, changed : BOOLEAN, dir : Dirs]
    /\ moves \in [Keys -> Contents \union {NoFile}]
    /\ answered \in [Keys -> Answers] /\ faulty \in BOOLEAN
    /\ \A k \in Keys : answered[k].what = "pending" => req.key = k /\ pc \notin {"idle", "down"}

\* A write answered with changed:true is durable: until the next write to that
\* key it is its newest version in history and the file at HEAD and in the
\* tree (gone only if it closes the entry), whatever fails or crashes in the
\* writes to other keys (store.rs commit_path).
AckedDurable ==
    \A k \in Keys : answered[k].what = "stored" =>
        LET c == answered[k].content
            allowed == {c} \union (IF c \in Closed THEN {NoFile} ELSE {})
        IN /\ latest[k] = c
           /\ tree[k]["kind"] \in allowed /\ head[k]["kind"] \in allowed

\* An entry whose removal was answered is in no layout path of the tree, the
\* index or HEAD until it is written again (store.rs remove_file; for a
\* knowledge entry that absence is what walk_history reads as the retraction).
RemovedForGood ==
    \A k \in Keys : answered[k].what = "removed" =>
        tree[k] = NoFiles /\ index[k] = NoFiles /\ head[k] = NoFiles

\* The last version accepted of an entry that has left the tree is the newest
\* one in history, where closed entries are read from (main.rs archive_locked:
\* "the latest version (already committed with the final status)").
ArchivedIsLatest ==
    \A k \in Keys :
        answered[k].what \in {"stored", "kept"} /\ File(k) = NoFile =>
            latest[k] = answered[k].content

\* While requests are served the tree holds no closed entry: a closed one left
\* it with the write that closed it, or with the migration (store.rs Store).
TreeHoldsLive ==
    pc = "idle" => \A k \in Keys : File(k) \notin Closed

\* Between requests the working tree, the git index and HEAD agree.
HeadIsTree == pc = "idle" => index = tree /\ head = tree

\* The commit of a request changes the entry that was written and no other:
\* its author and message speak of nothing else (README: one commit per
\* change).
CommitsOneKey ==
    pc \in {"commit", "commit_removal"} =>
        \A k \in Keys : head'[k] # head[k] => k = req.key

\* Until a step fails the last version accepted of an entry that has left the
\* tree is the newest one in history (main.rs archive_locked).
CleanArchivedIsLatest == ~faulty => ArchivedIsLatest

\* Until a step fails tree, git index and HEAD stay in step, whatever the flat
\* layout was: between requests the three agree and hold no closed entry, and a
\* commit changes the entry that was written and no other (store.rs commit_path,
\* migrate_layout).
CleanInStep == [][~faulty' => CommitsOneKey /\ (TreeHoldsLive /\ HeadIsTree)']_vars
=============================================================================
