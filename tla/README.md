# KYB in TLA+

A verification project for KYB ("know your business"), a knowledge, incident
and task memory served over HTTP (Rust, `src/src/`). The entries are Markdown
files in a git repository, the *canon*; everything else - the full-text index,
the vectors, the link index - is derived from it. The modules here model how
these parts stay in step while requests overlap, clients hang up, steps fail and
the process dies.

```
tlc -workers 2 -config MCVectors_faults.cfg MCVectors      # one of the runs below
tlapm Vectors_proofs.tla                                   # one of the proof modules
```

## 1. The system

One process (`main.rs`, axum on tokio). Its state is one `AppState`. A write
takes one async lock, `AppState.writer`, which owns the Tantivy `IndexWriter`;
reads take no lock at all.

```
      request ---> upsert / transition / resolve / DELETE / reindex
                          |  AppState.writer (one at a time)
                          v
   note_write -> Store (git: tree, index, HEAD) -> SearchIndex (docs, tombstones)
       |              |                                   |  publishes a generation
       |              | archive of a closing write        v
       |              v                             search, as_of, list
       |         note_archived
       v              v                Semantic (tickets -> embed outside the lock)
   history_gen   archived_since                           |
       \_____________/                                    v
        links() builds without a lock              semantic search
```

| Component | State | Operations | Interacts with | Hard behaviour | Correct when |
|---|---|---|---|---|---|
| Canon, `store.rs` | working tree, git index, HEAD, history | upsert, delete, archive, `migrate_layout`, readers | called under the writer lock; read by everybody without | three places change one after the other; any step fails; the process dies; requests decide on the working tree | an answered write stays the newest version; a removed entry stays gone; the tree holds what is live; a commit is about one entry |
| Search index, `index.rs` | writer's documents, last commit, pending tombstones, `next_seq`, published generation | upsert_head, delete_head, retract, commit_and_reload, reindex, search | follows the canon under the writer lock | incremental numbering and full renumbering; a search holds an older generation; half-built documents; a commit clock that steps back | `as_of` answers equal the history; heads are the findable entries; `recent` is commit order |
| Semantic index, `embed.rs` | ticket numbers, expected ticket and vector per key, text-keyed cache, model | begin/finish_upsert, invalidate, begin/finish_rebuild | tickets under the writer lock, embeddings outside it | slow embeddings overlap with newer writes, deletions and rebuilds; two locks held in turn | no vector of an older text is ever compared; every vector lands in the end |
| Link index, `main.rs` | kept index with its generation, notes of archived keys | links, note_write, note_archived, settle_notes | bumped by every write; reads tree and history | five unsynchronised reads; several builds at once; incremental archive | a kept index that is handed out is what a build from nothing gives |
| Tasks, `main.rs`, `model.rs` | stored version of each task | upsert, transition, resolve, DELETE | built and committed under the lock, archived in the same section | two clients on one task; circles of parents through archived or unwritten tasks | partial updates are not lost; parents form a forest; nothing reopened is archived |
| Incidents, `main.rs` | as tasks, with detected / mitigated / resolved stamps | the same, `impact` windows | the same | stamps over reopen and close | stamps are in order and say what happened |
| History index, diff | `HistoryIndex` cached by HEAD | `/history`, `/diff`, `?at=` | walks the canon, extends a cached walk | extension over a HEAD that moved in another way | incremental = full walk |
| Export, `export.rs` | a snapshot revision carried in the cursor | paged export | reads the canon at one revision | writes between pages | pages add up to that revision, each key once |
| Auth, `auth.rs` | the token book file, its mtime-keyed copy | token add / rotate / revoke (CLI), decide, role checks | the CLI writes the file, the server reads it | the cache and the file; two commands at once | a revoked token stops working; the last admin stays |
| Deadlines, `deadline*.rs` | fields of tasks | the block on each answer, the calendar | reads live tasks | the cap; partial updates | a late task is never pushed out |
| Brief, `brief*.rs`; audit, `audit.rs`; web, `web.rs`; MCP, `mcp.rs` | none of their own, or an append-only log | report; one line per request; static files; JSON-RPC over the routes | - | - | - |
| Entry format, `model.rs`; links, `links.rs` | - | parse, render, validate, secrets, similar keys, link extraction | - | - | pure functions |
| CLI, skill, packaging, site | - | shell clients, images, installers | HTTP only | - | - |

The hazards, each at its line with the properties that would catch it, are in
`PROJECT.json`.

## 2. The modules

| Module | What it is | Extended / instantiated by |
|---|---|---|
| `VectorPromise` | abstract: what semantic search promises | `Vectors` (`INSTANCE ... WITH`) |
| `Vectors` | embed.rs with the handlers that drive it | `MCVectors`, `Vectors_proofs` |
| `VectorFile` | the file of the vector cache over restarts | `Files` |
| `LinkCache` | links() and what invalidates it | `MCLinkCache`, `MCLinks`, `LinkCache_proofs` |
| `Canon` | the git store, step by step, with failures, crashes and the migration | `MCCanon`, `MCCanonRuns`, `Canon_proofs` |
| `SearchIndex` | the index, generations, reindex, `as_of` | `Query`, `SearchIndex_proofs` |
| `Query` | search_in and the blend of words and vectors, over a generation of `SearchIndex` | `MCSearchIndex`, `SearchIndex_proofs` |
| `ExportPromise` | abstract: what an export promises | `History` (`INSTANCE ... WITH`) |
| `Ordering` | a finite set of numbers as a sequence, defined so that the prover can look into it | `ExportPromise`, `History` |
| `History` | the history index, export, diff | `MCHistory`, `History_proofs` |
| `Tasks` | the task rules under concurrent requests | `MCTasks`, `Tasks_proofs` |
| `Reads` | get, list and brief read without a lock while a write goes on | `Rules` |
| `Board` | incidents and stamps; listings, brief, links, places | `Rules` (`INSTANCE`) |
| `Agenda` | deadlines and what reminds of them | `Rules` (`INSTANCE`) |
| `Mcp` | POST /mcp in front of the API | `Rules` (`INSTANCE`) |
| `AuthBook` | the token book, its copy, the decisions | `Files` |
| `Files` | the two files beside the repository: `AuthBook`, or an instance of `VectorFile` | `MCFiles`, `Files_proofs` |
| `Rules` | what readers and writers are promised: `Reads`, or an instance of `Agenda`, `Board` or `Mcp` | `MCRules`, `Rules_proofs` |

Each module models one component with the part of `main.rs` that drives it, and
represents the other components by what they are to it: in `Vectors` a commit is
one step, in `LinkCache` and `Reads` it is the steps that a lock-free reader can
tell apart or that can fail, in `Canon` every step that can fail or be the last
before a crash. In `Board`, where nothing overlaps a write, all of it is one
step, and in `Mcp` two: what the handler does, and the audit line with the
answer.

Modules that share no state are put side by side: `Files` and `Rules` have a
variable `part` that never changes, and each behaviour is one of the named part;
the others stand still. Nothing interacts there, and TLC's state spaces are
added, not multiplied; the theorems about these parts are about `FilesSpec` and
`RulesSpec`. `MCFiles` and `MCRules` add the bounds, and `MCRules` a second
instance of `Reads`. In the same way `MCLinks` and `MCCanonRuns` run one module
with several sets of constants, and `MCTasks` one with two sets of requests.

### Vectors

A vector is represented by the text it was computed from, the cache by the set
of texts. The atomic steps are the stretches between two awaits: `Commit` /
`Retract` run under the writer lock, `BeginUpsert` / `Invalidate` take the
ticket and let the lock go, `Lookup`, `Embed`, `Embedded`, `StoreVector`,
`Install` are `finish_upsert`, and `TakeCache` to `FinishRebuild` are
`finish_rebuild`, which keeps the cache lock across every chunk. A numbering of
the tickets of a rebuild is any (`Numberings`), for it follows a listing's
order. Faults: the model fails on a batch; the future is dropped at an await
(the client hung up), be it after its ticket or at the await of the ticket
itself. In that last case the write is committed and has no ticket; the history
variable `missed` holds its key until the key is next written or the vectors are
rebuilt, and the two truth properties speak of all other keys.

`VectorPromise` has two variables, the published text of each key and the vector
on display: a write changes the first and empties the second in one step, a
rebuild does that for every key, and a landing vector is always the published
text's. The refinement maps `published` to the text the newest ticket stands for
(a history variable) and `shown` to itself.

### VectorFile

A file is the sequence of its fields - magic, fingerprint, dimension, then hash
and vector in turn - as far as it was written. A flush writes a second file,
which may fail anywhere, and renames it; the process may die at any step, and a
loss of power cuts off what was not on disk. The model's directory may be
replaced at any time, between `LoadModel` and `Open` too. `mixed` holds the
models under whose fingerprint another model's vectors may have been kept in
that way.

### LinkCache

Content is a version number, an index the version of each key it was built from.
`links()` is split at every read: generation, kept index, notes, each file of
the tree, the listing and the walk of the first build, the check, the
installation, the settling of the notes; a build may fail at each. A write is
split at each effect a reader can see - the file emptied, filled, committed,
removed, its removal committed, noted - and may fail at each (`MayFail`): a
failed commit leaves the git index as it was, or staged for the next commit, or
is made and answered as an error. A DELETE of knowledge waits at `invalidate`,
where it can be dropped. Four history variables mark where the code departs from
exactness, so that the properties can say it of everything else: `hungUp` is the
key of such a dropped DELETE; `lost` are the incidents and tasks whose file went
without a committed removal, which nothing notes; `behind` are the builders that
read a kept index or notes which another builder has replaced since, and
`overtaken` says that one of these installed.

### Canon

For each key the file at its two possible paths (`kind` layout and the old
`flat` one) in the working tree, the git index on disk and HEAD, with the newest
version `latest_version` finds. Requests decide on the working tree (`File`),
write the file, stage, commit, and go on to archive when they close; `mem` is
the operation's own git index, which is why a failed write can leave a staged
path behind. The initial states are all flat layouts over `FlatKeys` (none in
today's layout) with committed files and strays. `answered` remembers the last answer of
each key; the properties relate it to what git holds. `faulty` remembers that a
step has failed or the process has died in one: two of the properties hold until
then.

### SearchIndex and Query

HEAD's history is a sequence of commits (key, write or remove, clock). Documents
carry the commit that wrote them, the clock and the sequence number. `writer`,
`docs`, `gen` and `held` are the four stages of a document: added, committed,
published, in a search's hands. The reference definition of an `as_of` answer,
`CurrentAt`, is told by the history alone; `CurrentVersion` is the code's, by
sequence numbers and tombstones.

`Query` adds no state. A question is of one of four kinds (now, history, as of a
time, in a window), with the versions that pass its filters, those its words
find, an order and a limit. A list is a function from what it lists to its
place, `Placed` by an order, `Cut` at a number, taken `Among` some; `SearchIn` is search_in with its world of documents,
its budget of candidates and the collapse to one version per key. `Asked` is the
reference, told by the history. `Hybrid` blends the hits of the generation the
search holds with the list of the vectors and fetches what only these name from
the generation that is live by then (`Score` is the reciprocal rank with its
fractions brought to one denominator).

### History

A commit is its line (itself and its ancestors, as the set of their numbers,
which grow as commits are made), the texts of all keys after it and which of
them are in the flat layout. An index has the versions of each key newest first. `MoveHead` is somebody who resets the branch on the
server. Exports ask for pages with a cursor; each request extends the cached
index under its mutex, reads the rows it needs and answers a page, is refused,
or retries. `ExportPromise` has only the commits and what each client has got:
the beginning of the one listing of that commit, which it reads off the texts of
the ancestors without any index. `KeepsSnapshot` is its specification. The diff
is an operator: `DefaultSides` and `Side`.

### Tasks, Board, Agenda

`Tasks`: `Upserted`, `Transitioned`, `Resolved` are what each handler makes of
the stored version; `Valid` is `Entry::validate`; `ChainOK` the walk over
parents, with `Ancestors` defined as the least set the walk visits. A request is
split where the lock is taken, after `build`, after the commit and after the
archive.

`Board`: time is the number of versions; `Stamped` is `stamp_timeline`, used by
filing and closing. The views are operators over the stored entries: the
listings, the sections of the brief, the link index both ways, the tallies of
services and hosts and the impact of one.

`Agenda`: time passes in steps of half a day, over the dates of callers in three
zones. `Apply` and `Valid` are the partial update of a deadline, `Item` what a
caller is told of it, `Block` the capped block on every answer, `BriefBlock` the
section of the brief, `Listing` the calendar.

### Reads

One writer, any number of readers, who never meet but in the writer's state
(the runs have one). A version is its number; `shut` are those with a closing
status. A write empties the file, fills it, commits, updates the index, and for
a closed entry removes the file and commits that; each may fail, and leaves a
file that cannot be read (`torn`), a path in git's index (`staged`) or documents
in the index writer (`pending`) to the next. A get asks whether there is a file,
opens it or else looks at the cached history and at the newest version. A list
asks the index for `ListLimit` entries, then looks for each file, then shows the
first `PageLimit`; the brief, which has neither limit, walks the history in
between. (Its three searches, one per kind, are one look at the index; what
changes between them is a key that is changed meanwhile.) `slipped` and `broken`
mark what the code leaves open: a removal not yet committed when the history was
read, a key that a step of a write failed for. `LeftOut` says when a live entry
may be missing from a listing.

### Mcp

A request is a batch of messages; each call finds its tool, makes a request of
it (`RouteOf`, `Body`), is forwarded with an attribution and the caller's rights
to a handler (`Forward`), and is recorded and answered when that has answered
(`Finish`); a notification is not. `HangUp` is a client that goes in between,
where a write waits for its embedding: the change stays, the line and the answer
are never written. Of an entry the fields are kept
that a write may leave unnamed: tags, date, assignee, status. Values are named,
empty, null or of the wrong type.

### AuthBook

Commands lock, load, change, save and unlock; a request takes the file's time,
compares it with the copy's, reads the file, stores the copy, and is decided.
Each of these is a step, and nothing orders a request against a command. `since`
is the book on file when the request began; `Blurred` says that two saves bore
the same time.

## 3. Runs

| Run | Expect | Properties | Bounds |
|---|---|---|---|
| vectors_faults | pass | TypeOK, NoOutdatedVector, KeepsPromise | 2 keys, 2 texts, 3 tasks, 4 requests, chunks of 1, every fault; symmetric |
| vectors_live | pass | NothingForgotten, AllEmbedded | 3 requests, chunks of 2 so that a last chunk is short, no faults, fairness |
| links | pass | KeptTreeExact, KeptIndexExact, ArchiveRemembered, AnswerExact | 2 keys; two builders with 2 writes and 2 builds, or with one write that may fail and 3 builds; one builder with failing steps, 3 writes and 2 builds, or 2 and 3; DELETEs may be dropped; symmetric |
| links_race | violation | IndexAlwaysExact | 2 builders, no DELETE dropped |
| canon | pass | TypeOK, AckedDurable, RemovedForGood, CleanArchivedIsLatest, CleanInStep | 2 keys, 3 contents; today's layout with failures and crashes at every step; every flat layout without any |
| canon_kept | violation | ArchivedIsLatest | a failing commit |
| index_faults | pass | TypeOK, SnapshotExact, HeadsExact, SearchAnswers | 2 keys, 3 commits, a clock of 2 values that may step back, reindex at any time, failing writes and reindexes, crashes; every question with limits of 1 and 2, a budget of 1 |
| index_partial | violation | GenerationComplete | 2 commits, a failing reindex |
| tasks | pass | TypeOK, Forest, TreeAgrees, NoLostUpdate | 2 clients; 3 tasks and 5 requests about parents, or 1 task and 3 requests out of all; symmetric |
| history | pass | TypeOK, IndexIsHistory, FailsForCause, DiffTellsTheLastChange, KeepsSnapshot | 2 keys that were in the flat layout, 5 commits, one rewritten HEAD, 2 exports in pages of one row; symmetric |
| files | pass | TypeOK, DecidedByTheBook, ChangesAreAuthorised, CacheHolds, NoChangeLost | a principal, 2 tokens, 2 commands, 2 requests, 3 times; 2 texts, 2 models of different length, 3 starts, one loss of power |
| rules | pass | RemindersHold, GetIsCurrent, ListingIsSettled, ViewsAgree, ToolsAnswer, LateStaysLate, StampsStand, ChangesAreNamed | see below |

`rules` holds five parts. *Agenda*: two tasks, a block of one line, three zones,
days of two halves up to the sixth half. *Few* and *Many* are `Reads` cut in two
ways: two versions of a note and one task, every step of which may fail; three
versions, none of which fails, of three tasks of which a listing looks at two
and shows one. *Board*: two incidents, two task keys of which one is only pointed at, a
runbook, 5 versions. *Mcp*: a note, an incident and a task, batches of two, each
optional argument named, empty, null or left out; a note written under
attributions by the call, the client and the headers.

Why the bounds are enough. *Vectors*: a stale vector takes one late embedding
and one newer ticket; three tasks give an upsert, a rebuild and a second writer
at once, four requests let a key be written, retracted and written again under
a rebuild, and every ticket comparison is between two. *LinkCache*: two keys,
one of each sort, with three writes let one key be filed, archived and reopened
between two builds; three builds give a first, an incremental and one that
builds on that, and a failing write is met by the builds before and after it. *Canon*: nothing bounds the number of requests - the state
space is finite - so every sequence of failures and retries over two keys is
covered. *SearchIndex*: three commits hold write,
retract, write of one key, or two keys interleaved, with a complete or a failed
reindex between any two of them (four commits give 2.9 million states and no
other answer). *Query*: with two keys and three versions a busy key has two that
match, so a limit of one would crowd the other out; a budget of one cuts either
list of a blend. *Tasks*: the shortest
circle that a check of one step up would miss runs through three tasks; a lost
update takes two clients and three requests (file, and two changes). *History*:
two commits are the migration's; three more and a rewritten HEAD give a cached
index on a line that is gone while an export is between its pages. *AuthBook*: a
stale copy takes two requests and one save between their steps; a lost change
two commands; three times let one be used twice or not. *VectorFile*: three
starts give a file written under one model, read under another and under the
first again. *Reads*: a get misses only what one write changes between its
looks, and two of them suffice for a failed step and what the next write makes
of it; three tasks are what one limit of two and one of one can tell apart.
*Board*: five versions
take a report through open, mitigated, closed, archived and filed again.
*Agenda*: the calendar of two zones differs by a day at every moment. The
bounds `MaxOps`, `MaxWrites`, `MaxBuilds`, `MaxCommits`, `MaxRewrites`,
`MaxCommands`, `MaxStarts`, `MaxLosses`, `MaxBatch` and `Horizon` count what
their names say and are in the guards of the actions that begin them.

Deadlock is checked in every run but `files` and `rules`, whose parts end when
their bound is reached; the `Served` and `Idle` steps of the others stand for a
bounded run that is over, so a deadlock TLC reports is one of the code's locks.

Fairness (`FairSpec` of `Vectors`): weak fairness of each task's own next step.
It says that tokio polls a woken task again and that an embedding returns. Weak
fairness is enough although tasks contend for locks: tokio's locks are fair
queues, and in the bounded run the requests that could overtake a waiting one
run out. Whether a request comes is not assumed.

### What the violations show

Each run is an interleaving or a fault at which the code departs from what its
own comments say; `findings` in `PROJECT.json` quotes the line.

1. `links_race`: `links()` checks the generation and then installs; between the
   two a write and a newer build fit, and the older answer replaces the newer
   one whose notes are already settled. An archived entry is then missing from
   the kept index until it is archived again. The reads of the kept index and of
   the notes (main.rs 109-119) open the same window.
2. `canon_kept`: a retry after a failed commit finds the file already as asked,
   is answered `changed: false`, and - when it closes the entry - is archived
   although no commit holds the final version.
3. `index_partial`: a write after a failed reindex publishes its half.

Departures the models contain and the passing runs set apart, by a history
variable or by the faults they leave out:

- A write dropped at `begin_upsert` (main.rs 460) is committed and has no ticket:
  its old vector stays. `missed` in `Vectors`.
- A DELETE dropped at `invalidate` (main.rs 1827) leaves out the second
  `note_write`, so an index that read the file before is kept. `hungUp` in
  `LinkCache`.
- A removal whose commit fails after the file has gone (store.rs 332-333;
  archive_locked logs it, main.rs 726-727, and DELETE answers 500, 1834-1835) is
  never noted. An index that is kept forgets the entry, which a build from
  nothing still shows, until it is filed or archived again or the process starts
  anew; a file that was cut off while it was written is forgotten the same way.
  `lost` in `LinkCache`; main.rs 109-117 speaks of archives that were committed.
- A crash between the closing commit and the archive leaves a closed entry in
  the tree, and a path staged by a failed write is in the next write's commit:
  `CleanInStep` and `CleanArchivedIsLatest` are claimed until the first failure
  (`faulty`).
- A migration that dies after its renames is not resumed: HEAD keeps the old
  paths, where the archive later finds an outdated version. The part of `canon`
  with faults starts in today's layout.
- Archived, reopened and archived again: between the second removal of the file
  and its commit - or for good, if that commit fails - GET answers with the
  version of the first archive, where main.rs 170-172 promises the latest.
  `slipped` and `broken` in `Reads`.
- GET asks whether there is a file and then opens it (store.rs 227-232): an
  archive, or a write that has emptied the file, in between makes it answer 500
  (main.rs 1317) for an entry that is there. `GetIsCurrent` allows this only to
  a key that was touched meanwhile, or whose write failed.
- list_kind takes 500 entries of a kind from the index before it drops the
  archived ones (main.rs 1133), so a listing of a base with many archived
  entries can leave live ones out, although its default view is what is live;
  and it shows 50 unless the caller asks for up to 1000 (1168). `LeftOut` in
  `Reads`.
- An index update that fails after the commit (main.rs 505-514, 1821-1825)
  leaves the old hit and a closed entry in the tree, until the next write
  publishes what the writer still holds or a reindex. `broken` in `Reads`.
- A request dropped while its write waits for the embedding, or for the ticket
  (main.rs 460-467), has no line in the audit log, which is written after the
  handler (audit.rs 61-62). `HangUp` in `Mcp`: `ToolsAnswer` speaks of requests
  that are answered.
- Two saves of the token book under one file time leave a copy that is not
  looked at again until the next save. `Blurred` in `AuthBook`.
- A model replaced between `Embedder::load` and `model_fingerprint` (embed.rs
  391-392) has the old one's vectors kept under its name. `mixed` in
  `VectorFile`. The comment at embed.rs 258 speaks of appended records; the
  file is rewritten and renamed, and never synced.
- A host that an incident names twice is counted twice by `places` (links.rs
  251-256) and once by `impact` (links.rs 287): `TalliesAgree` leaves it out.
- A closing stamp stays at the first closing through a reopening by transition,
  and goes when a task is filed as live again. `StampsStand` says so.
- `unknown_knowledge` warns of archived incidents and tasks, which `related`
  still shows: `LinksHold` claims one direction only.
- kyb_add without tags clears a note's tags, by its replacing the whole entry;
  `ChangesAreNamed` is about incidents and tasks there.
- A blend filters what only the vectors name by ASCII case, where the index
  lower-cases all letters: in `Query` a version passes the filters or not.

## 4. Proofs

TLAPS proves these for every value of the constants.

| Theorem | Property | Assumes |
|---|---|---|
| `Vectors_proofs!TypeCorrect` | TypeOK | - |
| `Vectors_proofs!ImplementsPromise` | KeepsPromise | - |
| `Vectors_proofs!TicketsBeforeUnlock` | TicketBeforeUnlock | - |
| `Vectors_proofs!NeverOutdated` | NoOutdatedVector | - |
| `Vectors_proofs!NothingIsForgotten` | NothingForgotten | no faults (`Faults = {}`) |
| `LinkCache_proofs!KeptTreeStaysExact` | KeptTreeExact | - |
| `LinkCache_proofs!KeptIndexStaysExact`, `ArchiveIsRemembered`, `AnswersStayExact` | KeptIndexExact, ArchiveRemembered, AnswerExact | - |
| `Canon_proofs!CanonTypes`, `ArchivedStaysLatest`, `CanonStaysInStep` | TypeOK, CleanArchivedIsLatest, CleanInStep | - |
| `Canon_proofs!AckedStaysDurable`, `RemovedStaysRemoved` | AckedDurable, RemovedForGood | today's layout (`NothingFlat`) |
| `SearchIndex_proofs!IndexTyped`, `SnapshotsStayExact`, `HeadsStayExact` | TypeOK, SnapshotExact, HeadsExact | - |
| `SearchIndex_proofs!SearchesAnswer` | SearchAnswers | - |
| `History_proofs!HistoryTyped`, `IndexStaysHistory`, `ExportsFailForCause`, `DiffStaysTrue` | TypeOK, IndexIsHistory, FailsForCause, DiffTellsTheLastChange | - |
| `History_proofs!PagesKeepSnapshot` | KeepsSnapshot (`Spec => Promise!Spec`) | - |
| `Tasks_proofs!TasksTyped`, `ParentsStayForest`, `TreeStaysLive`, `UpdatesAreNotLost` | TypeOK, Forest, TreeAgrees, NoLostUpdate | - |
| `Files_proofs!BookTyped`, `ChangesSurvive`, `BookDecides`, `ChangesNeedTokens` | TypeOK, NoChangeLost, DecidedByTheBook, ChangesAreAuthorised | - |
| `Files_proofs!CacheIsOwn` | CacheHolds | - |
| `Rules_proofs!GetsAreCurrent`, `ListingsSettle` | GetIsCurrent, ListingIsSettled | - |
| `Rules_proofs!Reminded`, `LateForGood` | RemindersHold, LateStaysLate | - |
| `Rules_proofs!StampsForGood`, `ViewsAreOne` | StampsStand, ViewsAgree | - |
| `Rules_proofs!ToolsAnswered`, `ChangesNamed` | ToolsAnswer, ChangesAreNamed | - |

`NothingFlat` is needed: a migration interrupted after its renames breaks both
properties of `Canon` (see above). So is the absence of faults for
`NothingForgotten`: an embedding that fails is not tried again. All theorems
also use the named assumption on the constants of their module (keys are finite,
sentinels are not values, and so on), which TLC evaluates. Where a property
speaks of the states before a failure only - `faulty` in `Canon`, a generation
that is `sound` or a writer not `damaged` in `SearchIndex`, `overtaken` in
`LinkCache`, `broken` in `Reads` - the specification of the theorem still has
every failure in it.

The arguments. Each invariant below was an invariant of a TLC run before it was
proved.

*Vectors*: `NoOutdatedVector` is not inductive, for a late
embedding installs whatever its job says. `TicketInv` adds the one fact the
scheme rests on, `TicketTruth`: a ticket that is still the newest of its key
carries the published text. A new ticket outdates all others of its key because
numbers never come back (`generation` only grows, `i.gen \in 1 .. generation`).
`CommitInv` then ties what is published to what is committed through the writer
lock, for every key but the `missed` ones. `NothingForgotten` is inductive with these once it is
known that no key is `missed` and that a task before its ticket has no jobs
(`OnItsWayInv`).

*LinkCache*: `ScanInv` says that a build of the current generation has
read what is in the tree while nobody writes; a write bumps the generation
before its first and after its last effect, so no older build can have it; a
dropped DELETE never reaches the second, which is why the argument runs over the
keys not in `hungUp`. `KeptTreeExact` follows even though check and installation
are two steps and whatever fails. For the archive `ArchInv` follows each key
separately that is not `lost`: either the kept index shows its last archived
version, or a note of it is pending, or a builder that is not `behind` has read
that note and not yet settled it. Which
builders are `behind` is exactly what the run `links_race` makes use of.

*Canon*: `TypesInv` holds from any layout and through any failure. `ReqInv` says how far the request has come (what of it is in the tree,
the index, HEAD); `AckInv` and `GoneInv` strengthen the two properties with the
git index, without which a later commit could undo an answer. `CleanInv` is the
state until the first failure: between the steps of a request tree, index and
HEAD differ by this request alone (`OwnInv`), and during a migration by the moves
and removals it has in hand. The theorems about it are of the form *the step is
into a state without a failure, so it came from one*.

*SearchIndex*: `ContentInv` says up to which commit of the log the writer's
documents and tombstones tell the history (`InStep`), at each step of a write and
of a reindex; `NumberInv` that every number given out from now on is new, after
incremental steps as after a renumbering; `GenerationInv` that what is published
and what a search holds is exact for a commit the log still has. `SnapshotLemma`
is the algorithm: by sequence numbers and tombstones `CurrentVersion` finds in
such documents what the log alone says, even when the clock steps back.

*Query*: `AnswerInv` is `IndexInv` and that the published and the held
generation are what the log says (`Exact`). The rest is about lists.
`SearchLemma` says what search_in finds and in which place: the versions a
question asks for, one of a key, the best of those its words rank. A list that is cut or taken among
fewer keeps its order, and its places are counted anew (`StayingLemma`). That the reciprocal ranks of a blend
put a hit of both lists above one that trails it in both is shown with the
fractions brought to one denominator (`OutscoresLemma`), and `HybridLemma` that
what only the vectors name is fetched from the live generation, which is exact
too, though it may be a later one.

*Reads*: `WriterInv` relates file, history, git index and search index at each
step of the write in hand; `ReaderInv` says of each reader what its rows and its
history can be, given who has touched the key since it asked. A get looks four
times; that its last look cannot be older than its first rests on `Told`, which
says of each history that nothing is removed twice and that it has a newest
removal - a fact carried from commit to commit.

*Agenda*: `AgendaInv` has little more than that each deadline is well formed
(`Dated`); what is hard is the block. That a late task is left out only for late
ones is an argument by counting: a line of the block has a place, a task left
out has at least `BlockCap` before it, and no task that is not late goes before a late
one. `LateForGood` needs that the day in a zone never falls as time goes on.

*Board*: `BoardInv` says that what is stored is valid, bears only the stamps of
its kind, and that the tree holds nothing closed. The two stamping properties
are a case split over what a write names. For the tallies the incidents that a
place is counted for and those that its impact lists are shown to be one set;
for the links, that what an entry points at and what points at it are one
relation; for the brief, that a section cut at a number leaves out only what
ranks no higher than what it keeps.

*Mcp*: `ToolsAnswer` with the ranges of a request and its log (`McpInv`) is
inductive: each message answers its own number, and one forwarded call logs one
line when it finishes. `DoingSound` says of the call in hand what its line and
answer will need: that its tool was listed, who it is put down to, and that it
is of a sort that is recorded if it has changed an entry. `AttributionLemma` is about what that line names: a session comes with the
agent it was given for. `ChangesNamed` follows from what a tool's body has in
it: no field that its arguments leave unnamed, so the rewrite keeps what is
stored.

*History*: `HistInv` has three parts beside the types. `LineInv` is the shape of
the commits: the line of an ancestor is the line up to it, and a commit on top
of a flat layout moves files without changing a text. `WalksInv`: every index
there is, cached or in a request's hands, is the walk of its head's line
(`Walked`) - `ExtendedLemma` shows that extending such an index over the commits
since gives the walk again, and that one whose head is off the line is dropped.
`PageOk` relates what a client asks to what it has: its rows are a beginning of
the promised listing, its cursor is their last key, and an index that is about
to answer covers the commit asked for if HEAD does and was not moved meanwhile.
From there `RowLemma` shows each row read off the index equal to the row the
promise reads off the texts, `PageLemma` that the keys after the cursor are the
listing's next ones, and `NextStep` that every step is a step of the promise or
leaves it alone. The sorted sequences are those of `Ordering`, whose facts -
each member once, in order, and no other sequence does that - are proved first.

*Tasks*: `Forest`
is stated without paths - every non-empty set of tasks has one whose parent is
outside - which makes one change of parent an argument about one set
(`HangUnder`); `TreeInv` adds the task being archived.

*AuthBook*: books are
ordered by `Extends`. `CommandInv` says that what the holder of the lock is
about to save extends the book on file, which is `NoChangeLost`. `PastInv` says
that every book ever saved is below the one on file and that every time somebody
holds was some book's; `ViewInv`, claimed while no two saves bore one time, that
the copy is no older than the book its time stands for, and that book no older
than a request that took this time. Reading after the time was taken can only
make the copy newer, which is why storing it under the earlier time is right.

*VectorFile*: a file read back is not what was written but a beginning of it.
`Kept` says what every beginning of a file ever written is: of one model, with
that model's length, and each whole pair a text and its vector - save for the
models in `mixed`. It is kept by every cut (`KeptCut`), so neither a failing
flush nor a loss of power can break it. `MapInv` says the same of what is in
memory, `FileInv` ties the two: what is not dirty is what reading the file
gives, and before the renaming what reading the second file gives.

No induction scheme can be cited, for it takes an operator. Where an argument
needs the last commit before a point or the least counterexample it takes the
least element of a set of naturals (`WFMin` with `NatLessThanWellFounded`, the
lemmas `Least` and `Greatest` of `SearchIndex_proofs`).

Only model-checked: liveness (`AllEmbedded`), for `ENABLED` is out of the
prover's reach. The recursive choices in `Agenda`, `Board`, `Mcp` and `Query`
are written with counting, `CHOOSE` and quantifiers, so that the prover can look
into them; TLC evaluates the same definitions.

## 5. Not modelled, and why

Reading the environment, JSON, Markdown and front matter, tokenising and
scoring, recognising links in a text, secret patterns and similar-key
suggestions are formatting or pure string functions. The web UI, the activity
page with its `recent_commits` and the file of the audit log show what others
decide. Histories with merges: the server makes none, and neither `history_index`
nor the models say what a version of both sides would be. Header values that are
not ASCII, which attribution drops; the wording of recommendations; blocks filled
with zeros after a loss of power. The CLI, the skill, the installers and the
site are outside the process. Git and Tantivy are modelled from how they are
used: `idx.write`, `write_tree` and `commit` of git are atomic each, and a
Tantivy commit is all or nothing.

## 6. Plan

Done: the modules of section 2 and the proofs of section 4; every property of a
passing run but the liveness has its theorem. Next, in this order:

1. Liveness of `LinkCache` and `History` under the fairness of `Vectors`: an
   answer comes however many writes arrive.
2. An abstract specification of `LinkCache`, as `VectorPromise` is one of
   `Vectors`: a links answer is that of some moment of the request.
3. `Canon` and `SearchIndex` composed: a crash between the git commit and the
   index commit, and the start that brings the index up to HEAD again.
