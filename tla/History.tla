-------------------------------- MODULE History -------------------------------
(* The history of every key and the export of a snapshot: Store::            *)
(* history_index and its cache in AppState, src/src/export.rs, and the diff   *)
(* of two versions.                                                           *)
(*                                                                            *)
(* Commits are made under the writer lock; requests read HEAD, extend the     *)
(* cached index by the commits since and answer from it without that lock.    *)
(* Somebody may also move HEAD by hand to another commit, which leaves the    *)
(* cached index on another line of history.                                   *)
EXTENDS Naturals, Sequences, SequencesExt, FiniteSetsExt, Functions, Ordering

CONSTANTS Keys,        \* keys by their byte order: 1 .. n
          Knowledge,   \* those that are neither incidents nor tasks
          Texts,       \* contents of an entry
          NoText,      \* no file of that key
          Legacy,      \* texts the flat layout had; NoText: the key came later
          Closed,      \* those texts that are closed incidents and tasks
          Clients,     \* those who export
          Nobody,      \* nobody holds the lock of the cached index
          Limits,      \* page sizes asked for; 0 = no limit
          MaxCommits,  \* bound: commits
          MaxRewrites  \* bound: times HEAD is moved by hand

ASSUME HistoryAssumption ==
    /\ Keys \subseteq Nat \ {0} /\ IsFiniteSet(Keys) /\ Knowledge \subseteq Keys
    /\ NoText \notin Texts /\ Closed \subseteq Texts /\ Nobody \notin Clients
    /\ Legacy \in [Keys -> Texts \union {NoText}]
    /\ Limits \subseteq Nat /\ MaxCommits \in Nat /\ MaxRewrites \in Nat

VARIABLES
    commits,  \* every commit, numbered as they are made: its line (itself and
              \* its ancestors), its texts, and the keys in the flat layout
    head,     \* HEAD; 0 before the first commit
    index,    \* AppState.history_index
    lock,     \* who holds its mutex
    exp,      \* each client: the page it asks for, the index it was given
    got,      \* what each has of its export
    rewrites  \* times HEAD was moved by hand

vars == <<commits, head, index, lock, exp, got, rewrites>>

Gone == [k \in Keys |-> NoText]
TextOf(c) == IF c = 0 THEN Gone ELSE commits[c].text
FlatIn(c) == IF c = 0 THEN {} ELSE commits[c].flat
LineOf(c) == IF c = 0 THEN {} ELSE commits[c].line
LiveIn(c) == {k \in Keys : TextOf(c)[k] # NoText}
Parent(c) == IF LineOf(c) = {c} THEN 0 ELSE Max(LineOf(c) \ {c})

NoIndex == [head |-> 0, versions |-> [k \in Keys |-> <<>>]]
NoPage == [pc |-> "idle", at |-> 0, after |-> 0, limit |-> 0, index |-> NoIndex, moved |-> FALSE]
NoExport == [at |-> 0, rows |-> <<>>, complete |-> FALSE]

\* The flat layout as it was, moved by the migration, its closed entries
\* archived by a commit of their own.
Migrated ==
    LET closed == {k \in Keys \ Knowledge : Legacy[k] \in Closed}
        moved == << [line |-> {1}, text |-> Legacy,
                     flat |-> {k \in Keys : Legacy[k] # NoText}],
                    [line |-> {1, 2}, text |-> Legacy, flat |-> {}] >>
    IN IF Legacy = Gone THEN <<>>
       ELSE IF closed = {} THEN moved
       ELSE Append(moved, [line |-> {1, 2, 3}, flat |-> {},
                           text |-> [k \in Keys |-> IF k \in closed THEN NoText ELSE Legacy[k]]])

Init ==
    /\ commits = Migrated /\ head = Len(commits)
    /\ index = NoIndex /\ lock = Nobody
    /\ exp = [e \in Clients |-> NoPage] /\ got = [e \in Clients |-> NoExport]
    /\ rewrites = 0

-----------------------------------------------------------------------------
(* HEAD moves *)

\* upsert, archive and delete: one commit on HEAD that changes one key; the
\* text a key has already is no commit.
Commit(k, t) ==
    /\ Len(commits) < MaxCommits
    /\ t # TextOf(head)[k]
    /\ commits' = Append(commits,
         [line |-> LineOf(head) \union {Len(commits) + 1},
          text |-> [TextOf(head) EXCEPT ![k] = t], flat |-> {}])
    /\ head' = Len(commits')
    /\ UNCHANGED <<index, lock, exp, got, rewrites>>

\* By hand, to another commit in today's layout, the files with it.
MoveHead(c) ==
    /\ rewrites < MaxRewrites /\ rewrites' = rewrites + 1
    /\ c # head /\ FlatIn(c) = {}
    /\ head' = c
    /\ exp' = [e \in Clients |-> [exp[e] EXCEPT !.moved = @ \/ exp[e].pc # "idle"]]
    /\ UNCHANGED <<commits, index, lock, got>>

-----------------------------------------------------------------------------
(* The index *)

\* What the diff of a commit with its parent says of a key.  A key both added
\* and deleted has moved between the layouts.
Change(c, k) ==
    LET old == TextOf(Parent(c))[k]
        new == TextOf(c)[k]
        moved == k \in FlatIn(Parent(c)) \ FlatIn(c) /\ new # NoText
    IN IF moved \/ new = old THEN "none"
       ELSE IF old = NoText THEN "added"
       ELSE IF new = NoText THEN "deleted" ELSE "modified"

\* Mutant: whatever was known is extended.
BaseAlways(prev, h) == prev.head

\* The head of prev if it is HEAD or an ancestor: in_history_of.
Base(prev, h) == IF prev.head \in LineOf(h) THEN prev.head ELSE 0

\* Store::history_index: the commits since, newest first, before what is known.
Extended(prev, h) ==
    LET fresh == LineOf(h) \ LineOf(Base(prev, h))
    IN [head |-> h,
        versions |-> [k \in Keys |->
            Falling({c \in fresh : Change(c, k) # "none"})
              \o (IF Base(prev, h) = 0 THEN <<>> ELSE prev.versions[k])]]

\* AppState::history_index: a hit by its head alone ...
LookUp(e) ==
    /\ exp[e].pc = "index" /\ lock = Nobody
    /\ IF index.head = head
       THEN /\ exp' = [exp EXCEPT ![e].pc = "answer", ![e].index = index]
            /\ UNCHANGED lock
       ELSE /\ exp' = [exp EXCEPT ![e].pc = "build"]
            /\ lock' = e
    /\ UNCHANGED <<commits, head, index, got, rewrites>>

\* Mutant: the lock is kept with the answer.
BuildKeepsLock(e) ==
    /\ exp[e].pc = "build"
    /\ index' = Extended(index, head)
    /\ exp' = [exp EXCEPT ![e].pc = "answer", ![e].index = index']
    /\ UNCHANGED <<commits, head, lock, got, rewrites>>

\* ... or HEAD is read again and the index built, the lock held.
Build(e) ==
    /\ exp[e].pc = "build"
    /\ index' = Extended(index, head)
    /\ exp' = [exp EXCEPT ![e].pc = "answer", ![e].index = index']
    /\ lock' = Nobody
    /\ UNCHANGED <<commits, head, got, rewrites>>

-----------------------------------------------------------------------------
(* GET /export *)

\* A page of the commit c after a key; its index is not read yet.
Asked(c, after, limit) ==
    [pc |-> "index", at |-> c, after |-> after, limit |-> limit, index |-> NoIndex, moved |-> FALSE]

\* A new export, of HEAD or of a commit named; the sha is fixed before the
\* index is read.  An empty canon is complete at once.
Ask(e, limit) ==
    /\ exp[e].pc = "idle"
    /\ \E c \in DOMAIN commits \union {head} :
         /\ exp' = [exp EXCEPT ![e] = IF c = 0 THEN NoPage ELSE Asked(c, 0, limit)]
         /\ got' = [got EXCEPT ![e] = [at |-> c, rows |-> <<>>, complete |-> (c = 0)]]
    /\ UNCHANGED <<commits, head, index, lock, rewrites>>

\* The next page: the same commit, after the last key.
AskNext(e, limit) ==
    /\ exp[e].pc = "idle" /\ got[e].rows # <<>> /\ ~got[e].complete
    /\ exp' = [exp EXCEPT ![e] = Asked(got[e].at, Last(got[e].rows).key, limit)]
    /\ UNCHANGED <<commits, head, index, lock, got, rewrites>>

\* Mutant: the versions made after the snapshot are not left out.
SeenUnfiltered(q, k) == DOMAIN q.index.versions[k]

\* The versions of k the snapshot knows, by their places in the index.
Seen(q, k) == {i \in DOMAIN q.index.versions[k] : q.index.versions[k][i] \in LineOf(q.at)}

Written(q, k) == {i \in Seen(q, k) : Change(q.index.versions[k][i], k) # "deleted"}

\* The first of them, which is the newest.
First(q, k, places) == q.index.versions[k][Min(places)]

\* The index and the tree of the snapshot contradict each other on k.
Contradicted(q, k) ==
    IF k \in LiveIn(q.at)
    THEN Written(q, k) = {}
    ELSE Seen(q, k) # {} /\ Change(First(q, k, Seen(q, k)), k) # "deleted"

\* One key at the snapshot; a removed one as it was before its removal.
Row(q, k) ==
    [key |-> k,
     state |-> IF k \in LiveIn(q.at) THEN "active"
               ELSE IF k \in Knowledge THEN "retracted" ELSE "archived",
     text |-> TextOf(IF k \in LiveIn(q.at) THEN q.at ELSE Parent(First(q, k, Seen(q, k))))[k],
     version |-> First(q, k, Written(q, k)),
     versions |-> Cardinality(Seen(q, k))]

\* The keys of the snapshot after the cursor.
Rest(q) ==
    Rising({k \in Keys : k > q.after /\ (k \in LiveIn(q.at) \/ Seen(q, k) # {})})

\* Mutant: any commit is exported, whether or not the index covers it.
CoveredAlways(q) == TRUE

\* The index describes the history of its head, and no commit off that line.
Covered(q) == q.at \in LineOf(q.index.head)

Answer(e) ==
    LET q == exp[e]
        n == IF q.limit = 0 THEN Len(Rest(q)) ELSE Min({q.limit, Len(Rest(q))})
    IN /\ q.pc = "answer"
       /\ IF ~Covered(q)
          THEN exp' = [exp EXCEPT ![e].pc = "refused"] /\ UNCHANGED got
          ELSE IF \E k \in Keys : Contradicted(q, k)
          THEN exp' = [exp EXCEPT ![e].pc = "failed"] /\ UNCHANGED got
          ELSE /\ exp' = [exp EXCEPT ![e] = NoPage]
               /\ got' = [got EXCEPT ![e] =
                    [at |-> @.at, rows |-> @.rows \o [i \in 1 .. n |-> Row(q, Rest(q)[i])],
                     complete |-> (n = Len(Rest(q)))]]
       /\ UNCHANGED <<commits, head, index, lock, rewrites>>

\* A client that got an error may ask again.
Retry(e) ==
    /\ exp[e].pc \in {"refused", "failed"}
    /\ exp' = [exp EXCEPT ![e] = NoPage]
    /\ UNCHANGED <<commits, head, index, lock, got, rewrites>>

-----------------------------------------------------------------------------
(* GET /knowledge/{key}/diff *)

\* One side of a diff: a text, or the placeholder of a version that removed it.
Side(k, c) ==
    IF TextOf(c)[k] # NoText THEN [exists |-> TRUE, text |-> TextOf(c)[k]]
    ELSE [exists |-> FALSE, text |-> NoText]

\* 404: the key is not in that commit, and that commit is no version of it.
HasSide(ix, k, c) == TextOf(c)[k] # NoText \/ c \in Range(ix.versions[k])

\* Mutant: the sides are the newest version and the oldest.
DefaultSidesEnds(ix, k) ==
    IF Len(ix.versions[k]) < 2 THEN <<>> ELSE <<Last(ix.versions[k]), Head(ix.versions[k])>>

\* Nothing named: the newest version against the one before it, if there is one.
DefaultSides(ix, k) ==
    IF Len(ix.versions[k]) < 2 THEN <<>> ELSE <<ix.versions[k][2], ix.versions[k][1]>>

-----------------------------------------------------------------------------
Next ==
    \/ \E k \in Keys, t \in Texts \union {NoText} : Commit(k, t)
    \/ \E c \in DOMAIN commits : MoveHead(c)
    \/ \E e \in Clients :
         \/ \E limit \in Limits : Ask(e, limit) \/ AskNext(e, limit)
         \/ LookUp(e) \/ Build(e) \/ Answer(e) \/ Retry(e)

Spec == Init /\ [][Next]_vars

-----------------------------------------------------------------------------
(* Properties *)

Ids == 0 .. Len(commits)
Indexes == [head : Ids, versions : [Keys -> Seq(Ids)]]

\* Every variable has its type; whoever builds holds the lock of the index.
TypeOK ==
    /\ commits \in Seq([line : SUBSET Ids, text : [Keys -> Texts \union {NoText}], flat : SUBSET Keys])
    /\ head \in 0 .. Len(commits) /\ rewrites \in 0 .. MaxRewrites
    /\ index \in Indexes
    /\ exp \in [Clients -> [pc : {"idle", "index", "build", "answer", "refused", "failed"},
                            at : Ids, after : Nat, limit : Limits \union {0},
                            index : Indexes, moved : BOOLEAN]]
    /\ \A e \in Clients : exp[e].pc = "build" <=> lock = e
    /\ got \in [Clients -> [at : Ids, rows : Seq([key : Keys, state : {"active", "archived", "retracted"},
                                                  text : Texts, version : Ids, versions : Nat]),
                            complete : BOOLEAN]]

\* The index extended from commit to commit, over a HEAD that somebody moved,
\* is what a walk from nothing gives (store.rs history_index: "a prev whose
\* head is no longer in this history is discarded").
IndexIsHistory ==
    \A ix \in {index} \union {exp[e].index : e \in Clients} : ix = Extended(NoIndex, ix.head)

\* An export never fails on a contradiction between index and tree, and is
\* refused only when HEAD was moved by hand while it was asked for, or before
\* that off the commit asked for (export.rs build).
FailsForCause ==
    \A e \in Clients :
        /\ exp[e].pc # "failed"
        /\ exp[e].pc = "refused" =>
             exp[e].moved \/ exp[e].at \notin LineOf(head)

\* Whatever pages a client has of an export are the beginning of the one
\* listing of that commit, and complete when they say so (export.rs: "no key
\* is skipped or repeated between pages").
Promise == INSTANCE ExportPromise WITH commits <- commits, got <- got
KeepsSnapshot == Promise!Spec

\* "What just changed": the sides the diff compares when none is named both
\* resolve, differ, and the newer is what the key is at the index's HEAD
\* (main.rs diff).
DiffTellsTheLastChange ==
    \A k \in Keys : LET s == DefaultSides(index, k) IN s # <<>> =>
        /\ HasSide(index, k, s[1]) /\ HasSide(index, k, s[2])
        /\ Side(k, s[1]) # Side(k, s[2])
        /\ Side(k, s[2]).text = TextOf(index.head)[k]
        /\ \A c \in LineOf(index.head) :
             Change(c, k) # "none" => c \in {s[1], s[2]} \/ c < s[1]
=============================================================================
