--------------------------------- MODULE Reads --------------------------------
(* What the read routes answer while somebody writes: GET of one entry, the  *)
(* listings with the deadlines, and the brief (src/src/main.rs, deadline_api,*)
(* brief_api).                                                               *)
(*                                                                           *)
(* A write is made of steps under the writer lock: the file, the commit, the *)
(* index, for a closed entry its removal and the commit of that.  Each may   *)
(* fail.  A read takes no lock: it looks at the index, at the history and at *)
(* the files one after the other.  Versions are numbered in the order they   *)
(* are written.                                                              *)
EXTENDS Naturals, Sequences, SequencesExt, FiniteSetsExt, Functions

CONSTANTS Keys,
          Knowledge,  \* those that are neither incidents nor tasks
          Readers,    \* requests answered at once
          ListLimit,  \* how many entries of a kind a listing looks at (500)
          PageLimit,  \* how many of them it shows (50 unless the caller says)
          MaxWrites,  \* bound: versions written
          MayFail     \* whether a step of a write may fail

ASSUME ReadsAssumption ==
    /\ Keys # {} /\ Knowledge \subseteq Keys
    /\ ListLimit \in Nat \ {0} /\ PageLimit \in Nat /\ MaxWrites \in Nat /\ MayFail \in BOOLEAN

VARIABLES
    tree,    \* the version in the file of each key; 0: none to be read
    torn,    \* keys whose file is there and cannot be read
    past,    \* what the history at HEAD says of each key: versions, 0 for a removal
    staged,  \* left in the git index by a failed commit
    index,   \* the version the search index has as the current one; 0: none
    pending, \* left in the index writer by a failed update
    shut,    \* the versions whose status is a closing one
    written, \* versions written
    w,       \* who holds the writer lock: the step, the key and the version
    read,    \* each reader: its step, its question, what it has seen
    broken   \* history: keys a step of a write has failed for

writerVars == <<tree, torn, past, staged, index, pending, shut, written, w, broken>>
vars == <<writerVars, read>>

NoWrite == [pc |-> "idle", key |-> CHOOSE k \in Keys : TRUE, n |-> 0]
NoRead == [pc |-> "idle", ask |-> "get", key |-> NoWrite.key, hits |-> [k \in Keys |-> 0], past |-> [k \in Keys |-> <<>>],
           left |-> {}, rows |-> {}, answer |-> 0, since |-> [k \in Keys |-> 0],
           touched |-> {}, slipped |-> FALSE, looked |-> {}]

Init ==
    /\ tree = [k \in Keys |-> 0] /\ torn = {}
    /\ past = [k \in Keys |-> <<>>] /\ staged = [k \in Keys |-> <<>>]
    /\ index = [k \in Keys |-> 0] /\ pending = [k \in Keys |-> <<>>]
    /\ shut = {} /\ written = 0
    /\ w = NoWrite /\ read = [r \in Readers |-> NoRead] /\ broken = {}

-----------------------------------------------------------------------------
(* The current version of an entry *)

\* The last version in p, removed or not; 0: there was none.
LastVersion(p) ==
    LET wrote == {i \in DOMAIN p : p[i] # 0} IN IF wrote = {} THEN 0 ELSE p[Max(wrote)]

\* Mutant: the first removal is taken for the last one.
ArchivedFirst(p) == p[Min({i \in DOMAIN p : p[i] = 0}) - 1]

\* archived_version: what the newest removal took away.
Archived(p) == p[Max({i \in DOMAIN p : p[i] = 0}) - 1]

-----------------------------------------------------------------------------
(* Writes *)

\* Readers learn which keys change while they read.
Touch(k) == read' = [r \in Readers |-> IF read[r].pc = "idle" THEN read[r]
                                      ELSE [read[r] EXCEPT !.touched = @ \union {k}]]

\* locked_write: an upsert, a transition, a close.  A file that cannot be read
\* is refused.
BeginWrite(k, closing) ==
    /\ w.pc = "idle" /\ written < MaxWrites
    /\ k \notin torn /\ (closing => k \notin Knowledge)
    /\ written' = written + 1
    /\ shut' = IF closing THEN shut \union {written'} ELSE shut
    /\ w' = [pc |-> "file", key |-> k, n |-> written']
    /\ Touch(k)
    /\ UNCHANGED <<tree, torn, past, staged, index, pending, broken>>

\* DELETE of what is there, or a close told again of an entry whose file says it
\* is closed.
BeginRemove(k) ==
    /\ w.pc = "idle" /\ tree[k] # 0
    /\ w' = [NoWrite EXCEPT !.pc = "unlink", !.key = k]
    /\ Touch(k)
    /\ UNCHANGED <<tree, torn, past, staged, index, pending, shut, written, broken>>

\* fs::write empties the file, then fills it.
TruncateFile ==
    /\ w.pc = "file"
    /\ tree' = [tree EXCEPT ![w.key] = 0] /\ torn' = torn \union {w.key}
    /\ w' = [w EXCEPT !.pc = "fill"]
    /\ UNCHANGED <<past, staged, index, pending, shut, written, broken, read>>

WriteFile ==
    /\ w.pc = "fill"
    /\ tree' = [tree EXCEPT ![w.key] = w.n] /\ torn' = torn \ {w.key}
    /\ w' = [w EXCEPT !.pc = "commit"]
    /\ UNCHANGED <<past, staged, index, pending, shut, written, broken, read>>

RemoveFile ==
    /\ w.pc = "unlink"
    /\ tree' = [tree EXCEPT ![w.key] = 0]
    /\ w' = [w EXCEPT !.pc = "removal"]
    /\ UNCHANGED <<torn, past, staged, index, pending, shut, written, broken, read>>

\* The file is not written to the end, or is not removed.
FileFails ==
    /\ MayFail /\ w.pc \in {"fill", "unlink"}
    /\ w' = NoWrite /\ broken' = broken \union {w.key}
    /\ UNCHANGED <<tree, torn, past, staged, index, pending, shut, written, read>>

\* What a commit adds to the history p of a key: a version, or its removal if
\* HEAD has one.
With(p, n) == IF n = 0 /\ (p = <<>> \/ Last(p) = 0) THEN p ELSE Append(p, n)

\* What the write in hand commits.
Committed == IF w.pc = "commit" THEN w.n ELSE 0

\* commit_path: what a failed commit left in the git index is committed too.
Commit ==
    /\ past' = [k \in Keys |-> IF k = w.key THEN With(past[k], Committed)
                               ELSE IF staged[k] = <<>> THEN past[k] ELSE With(past[k], staged[k][1])]
    /\ staged' = [k \in Keys |-> <<>>]

CommitFile ==
    /\ w.pc \in {"commit", "removal"} /\ Commit
    /\ w' = IF w.pc = "commit" \/ w.key \in Knowledge THEN [w EXCEPT !.pc = "index"] ELSE NoWrite
    /\ UNCHANGED <<tree, torn, index, pending, shut, written, broken, read>>

\* The commit fails before or after the git index is written, or once it is
\* made, in the reading of it.
CommitFails ==
    /\ MayFail /\ w.pc \in {"commit", "removal"}
    /\ \/ Commit
       \/ UNCHANGED past /\ staged' = [staged EXCEPT ![w.key] = <<Committed>>]
       \/ UNCHANGED <<past, staged>>
    /\ w' = NoWrite /\ broken' = broken \union {w.key}
    /\ UNCHANGED <<tree, torn, index, pending, shut, written, read>>

\* upsert_head or delete_head, and commit_and_reload, which takes along what a
\* failed update left; a closed entry goes on to be archived and stays in the
\* index.
IndexWrite ==
    /\ w.pc = "index"
    /\ index' = [k \in Keys |-> IF k = w.key THEN w.n ELSE IF pending[k] = <<>> THEN index[k] ELSE pending[k][1]]
    /\ pending' = [k \in Keys |-> <<>>]
    /\ w' = IF w.n \in shut THEN [w EXCEPT !.pc = "unlink"] ELSE NoWrite
    /\ UNCHANGED <<tree, torn, past, staged, shut, written, broken, read>>

\* The update fails between taking the old document out, putting the new one in
\* and publishing: the next one finds what it left.  No archive follows.
IndexFails ==
    /\ MayFail /\ w.pc = "index"
    /\ \/ \E n \in {0, w.n} : pending' = [pending EXCEPT ![w.key] = <<n>>]
       \/ UNCHANGED pending
    /\ w' = NoWrite /\ broken' = broken \union {w.key}
    /\ UNCHANGED <<tree, torn, past, staged, index, shut, written, read>>

-----------------------------------------------------------------------------
(* Reads *)

\* The version current when the question is asked.
Ask(r, question, k) ==
    /\ read[r].pc = "idle"
    /\ read' = [read EXCEPT ![r] = [NoRead EXCEPT !.pc = question, !.ask = question, !.key = k,
         !.since = [j \in Keys |-> LastVersion(past[j])],
         !.touched = IF w.pc = "idle" THEN {} ELSE {w.key}]]
    /\ UNCHANGED writerVars

\* get_one: whether there is a file (existing_rel), and ...
GetFile(r) ==
    /\ read[r].pc = "get"
    /\ LET k == read[r].key
       IN read' = [read EXCEPT ![r].pc = IF tree[k] # 0 \/ k \in torn THEN "open" ELSE "archived"]
    /\ UNCHANGED writerVars

\* ... what it holds (read_to_string): gone meanwhile, or cut off, it is an error.
OpenFile(r) ==
    /\ read[r].pc = "open"
    /\ LET k == read[r].key
       IN read' = [read EXCEPT ![r].pc = IF tree[k] # 0 THEN "done" ELSE "error", ![r].answer = tree[k]]
    /\ UNCHANGED writerVars

\* Without a file, what the history says was there last, but for knowledge.
\* slipped: the file was gone and its removal not committed.
GetArchived(r) ==
    /\ read[r].pc = "archived"
    /\ LET k == read[r].key
       IN read' = [read EXCEPT
            ![r].pc = IF k \in Knowledge \/ 0 \in Range(past[k]) THEN "done" ELSE "walk",
            ![r].answer = IF k \notin Knowledge /\ 0 \in Range(past[k]) THEN Archived(past[k]) ELSE 0,
            ![r].slipped = tree[k] = 0 /\ k \notin torn /\ past[k] # <<>> /\ Last(past[k]) # 0]
    /\ UNCHANGED writerVars

\* latest_version, when no removal is known.
GetLatest(r) ==
    /\ read[r].pc = "walk"
    /\ read' = [read EXCEPT ![r].pc = "done", ![r].answer = LastVersion(past[read[r].key])]
    /\ UNCHANGED writerVars

\* The heads an answer is made from, in one generation of the index: open_items
\* and live_hits ask for every one, list_kind for the first ListLimit incidents or
\* tasks, which come in the order the index keeps them, archived ones among them.
Hits(question) ==
    LET heads == {k \in Keys : index[k] # 0}
        listed == heads \ Knowledge
    IN IF question = "brief" THEN {heads}
       ELSE IF Cardinality(listed) <= ListLimit THEN {listed}
       ELSE {s \in SUBSET listed : Cardinality(s) = ListLimit}

\* list_kind, open_items, live_hits.  The brief then reads the history.
Search(r) ==
    /\ read[r].pc \in {"list", "brief"}
    /\ \E heads \in Hits(read[r].ask) :
         read' = [read EXCEPT ![r].pc = IF @ = "list" THEN "files" ELSE "history",
                              ![r].hits = index, ![r].left = heads, ![r].looked = heads]
    /\ UNCHANGED writerVars

ReadHistory(r) ==
    /\ read[r].pc = "history"
    /\ read' = [read EXCEPT ![r].pc = "files", ![r].past = past]
    /\ UNCHANGED writerVars

\* ~is_archived
IsLive(k) == tree[k] # 0

\* is_archived, hit by hit: what has left the tree, or cannot be read, is left
\* out.
CheckFile(r) ==
    /\ read[r].pc = "files"
    /\ \E k \in read[r].left :
         read' = [read EXCEPT ![r].left = @ \ {k},
                              ![r].rows = IF IsLive(k) THEN @ \union {k} ELSE @]
    /\ UNCHANGED writerVars

\* Mutant: the rows are cut before they are sorted.
CutAnywhere(rows, hits) ==
    IF Cardinality(rows) <= PageLimit THEN {rows} ELSE {s \in SUBSET rows : Cardinality(s) = PageLimit}

\* rows.truncate: the first PageLimit of rows, which come open ones first.
Cut(rows, hits) ==
    IF Cardinality(rows) <= PageLimit THEN {rows}
    ELSE {s \in SUBSET rows : /\ Cardinality(s) = PageLimit
                              /\ \A j \in s, k \in rows \ s : hits[j] \in shut => hits[k] \in shut}

\* A listing of a kind is cut; the brief and the deadlines are made of every row.
Listed(r) ==
    /\ read[r].pc = "files" /\ read[r].left = {}
    /\ \E rows \in IF read[r].ask = "list" THEN Cut(read[r].rows, read[r].hits) ELSE {read[r].rows} :
         read' = [read EXCEPT ![r].pc = "done", ![r].rows = rows]
    /\ UNCHANGED writerVars

\* The reminders, and the sections of open incidents and live tasks.
Live(q) == {k \in q.rows \ Knowledge : q.hits[k] \notin shut}

\* The brief's sections of knowledge changed and retracted.
Changed(q) == {k \in Knowledge : q.hits[k] # 0}
Retracted(q) == {k \in Knowledge : q.past[k] # <<>> /\ Last(q.past[k]) = 0}

Answered(r) ==
    /\ read[r].pc \in {"done", "error"}
    /\ read' = [read EXCEPT ![r] = NoRead]
    /\ UNCHANGED writerVars

Write ==
    \/ \E k \in Keys : BeginRemove(k) \/ \E closing \in BOOLEAN : BeginWrite(k, closing)
    \/ TruncateFile \/ WriteFile \/ RemoveFile \/ FileFails
    \/ CommitFile \/ CommitFails \/ IndexWrite \/ IndexFails

Read(r) ==
    \/ \E k \in Keys : Ask(r, "get", k)
    \/ \E q \in {"list", "brief"} : Ask(r, q, NoWrite.key)
    \/ GetFile(r) \/ OpenFile(r) \/ GetArchived(r) \/ GetLatest(r)
    \/ Search(r) \/ ReadHistory(r) \/ CheckFile(r) \/ Listed(r) \/ Answered(r)

Next == Write \/ \E r \in Readers : Read(r)

Spec == Init /\ [][Next]_vars

-----------------------------------------------------------------------------
(* Properties *)

\* A get answers with the version current when it was asked or a newer one -
\* an incident or a task is found however it is being closed and reopened -
\* but for two cases: the entry's removal was not committed when the history
\* was read, or a step of a write of it has failed.  It finds nothing only of
\* knowledge that is gone or being changed, and it is an error only for an entry
\* that was written, archived or removed meanwhile, or whose write failed
\* (main.rs get_one, archived_version; store.rs get).
GetIsCurrent ==
    \A r \in Readers : LET q == read[r] IN
      q.ask = "get" =>
        /\ q.pc = "error" => q.key \in q.touched \union broken
        /\ q.pc = "done" =>
             IF q.answer # 0
             THEN q.slipped \/ q.key \in broken \/ q.answer >= q.since[q.key]
             ELSE q.since[q.key] # 0 => q.key \in Knowledge /\ (q.key \in q.touched \/ tree[q.key] = 0)

\* A live entry may be missing from a listing of its kind: ListLimit others were
\* looked at, archived ones among them, or PageLimit are shown and every one of
\* them is open.
LeftOut(q, k) ==
    /\ q.ask = "list"
    /\ \/ k \notin q.looked /\ Cardinality(q.looked) = ListLimit
       \/ Cardinality(q.rows) = PageLimit /\ \A j \in q.rows : q.hits[j] \notin shut

\* A listing shows, of whatever nobody changed while it was made, exactly what
\* is there: each live entry at its current version unless it is full, no
\* archived one, and in the brief, whose sections count what they do not show,
\* each knowledge entry either as changed or as retracted (list_kind,
\* open_items, brief).  Keys that a step of a write failed for wait for the next
\* reindex.
ListingIsSettled ==
    \A r \in Readers : LET q == read[r] IN
        q.pc = "done" /\ q.ask # "get" =>
          \A k \in (IF q.ask = "list" THEN Keys \ Knowledge ELSE Keys) \ (q.touched \union broken) :
            /\ k \in q.rows => tree[k] # 0 /\ q.hits[k] = q.since[k]
            /\ tree[k] # 0 => k \in q.rows \/ LeftOut(q, k)
            /\ q.ask = "brief" => (k \in Live(q) <=> k \notin Knowledge /\ tree[k] # 0)
            /\ q.ask = "brief" /\ k \in Knowledge =>
                 /\ k \in Changed(q) <=> tree[k] # 0
                 /\ k \in Retracted(q) <=> tree[k] = 0 /\ q.since[k] # 0
=============================================================================
