---------------------------------- MODULE Tasks ------------------------------
(* Tasks and what may be done to them: upsert_task, transition_task and     *)
(* close_entry of src/src/main.rs, DELETE of a task, and the checks of      *)
(* commit_locked (Entry::validate, validate_task_parent_chain).             *)
(*                                                                          *)
(* Requests queue for one writer lock.  The holder reads the stored version *)
(* - the file in the tree or, for an archived task, the newest version in   *)
(* history - builds the next one from it, checks and commits it, and        *)
(* archives the task in the same critical section if it is closed now.      *)
(* What git does meanwhile, and when it fails, is in Canon.                 *)
(*                                                                          *)
(* Of the content only what the rules speak of is kept.  Time is the number *)
(* of versions committed.                                                   *)
EXTENDS Naturals, FiniteSets

CONSTANTS Keys,        \* task keys
          Clients,     \* requests in flight at once
          Nobody,      \* no client; also no assignee
          Agents,      \* who may hold a task
          None,        \* no parent
          NoTask,      \* a key that was never written
          Keep,        \* a field the request does not name
          Live, Closed,\* the live and the closing statuses
          Blocked,     \* the live status that may carry a reason
          Requests,    \* what clients ask for
          MaxWrites    \* bound: requests

Statuses == Live \union Closed
Parents == Keys \union {None}
Holders == Agents \union {Nobody}

\* reason, outcome: whether there is one.  closedAt: resolved_at, 0 if empty.
Entries == [status : Statuses, parent : Parents, assignee : Holders,
            reason : BOOLEAN, outcome : BOOLEAN, closedAt : Nat]

Upserts == [op : {"upsert"}, key : Keys, status : Statuses, parent : Parents,
            assignee : Holders, reason : BOOLEAN, outcome : BOOLEAN]
Transitions == [op : {"transition"}, key : Keys, status : Live \union {Keep},
                parent : Parents \union {Keep}, assignee : Holders \union {Keep},
                reason : BOOLEAN \union {Keep}]
Resolves == [op : {"resolve"}, key : Keys, status : Statuses, outcome : BOOLEAN]
Removes == [op : {"remove"}, key : Keys]

ASSUME TasksAssumption ==
    /\ Requests \subseteq Upserts \union Transitions \union Resolves \union Removes
    /\ Blocked \in Live /\ Live \intersect Closed = {}
    /\ None \notin Keys /\ NoTask \notin Entries
    /\ Nobody \notin Clients /\ Nobody \notin Agents
    /\ Keep \notin Live \union Keys \union {None} \union Holders \union BOOLEAN
    /\ MaxWrites \in Nat

VARIABLES
    stored,  \* stored_version of each key
    live,    \* the keys with a file in the working tree
    writer,  \* who holds the writer lock
    pc, req, \* each client's progress and request
    entry,   \* the version each client has built
    now,     \* versions committed so far
    asked,   \* requests so far
    parked   \* history: keys archived by DELETE and not written since

vars == <<stored, live, writer, pc, req, entry, now, asked, parked>>

Init ==
    /\ stored = [k \in Keys |-> NoTask]
    /\ live = {}
    /\ writer = Nobody
    /\ pc = [c \in Clients |-> "idle"]
    /\ req = [c \in Clients |-> NoTask]
    /\ entry = [c \in Clients |-> NoTask]
    /\ now = 0 /\ asked = 0
    /\ parked = {}

-----------------------------------------------------------------------------
(* What a request makes at time t of the stored version *)

Given(field, old) == IF field = Keep THEN old ELSE field

\* upsert_task: the task is sent whole; only the closing stamp is inherited.
Upserted(r, old, t) ==
    [status |-> r.status, parent |-> r.parent, assignee |-> r.assignee,
     reason |-> r.reason, outcome |-> r.outcome,
     closedAt |-> IF r.status \notin Closed THEN 0
                  ELSE IF old # NoTask /\ old.closedAt # 0 THEN old.closedAt
                  ELSE t + 1]

\* transition_task: what the request does not name stays as stored; a reason
\* survives only inside the block it describes.
Transitioned(r, old) ==
    LET status == Given(r.status, old.status)
    IN [old EXCEPT !.status = status,
                   !.parent = Given(r.parent, @),
                   !.assignee = Given(r.assignee, @),
                   !.reason = status = Blocked /\ Given(r.reason, @)]

\* Mutant: an outcome the request leaves out is cleared.
ResolvedBare(r, old, t) ==
    [old EXCEPT !.status = r.status, !.outcome = r.outcome,
                !.reason = @ /\ r.status = Blocked,
                !.closedAt = IF r.status \in Closed /\ @ = 0 THEN t + 1 ELSE @]

\* close_entry with stamp_timeline.
Resolved(r, old, t) ==
    [old EXCEPT !.status = r.status, !.outcome = @ \/ r.outcome,
                !.reason = @ /\ r.status = Blocked,
                !.closedAt = IF r.status \in Closed /\ @ = 0 THEN t + 1 ELSE @]

Built(r, old, t) ==
    CASE r.op = "upsert" -> Upserted(r, old, t)
      [] r.op = "transition" -> Transitioned(r, old)
      [] r.op = "resolve" -> Resolved(r, old, t)

\* transition_task and close_entry need a task to start from; without a
\* status a transition needs one that is live and in the tree (present).
Applies(r, old, present) ==
    /\ r.op \in {"transition", "resolve"} => old # NoTask
    /\ r.op = "transition" /\ r.status = Keep => old.status \in Live /\ present
    /\ r.op = "remove" => present

\* Entry::validate
Valid(k, e) ==
    /\ e.reason => e.status = Blocked
    /\ e.status \in Closed => e.outcome
    /\ e.parent # k

-----------------------------------------------------------------------------
(* The parent chain *)

Parent(k) == IF stored[k] = NoTask THEN None ELSE stored[k].parent

\* What the walk up from p visits: p and every parent of what it visits.
Ancestors(p) ==
    {q \in Keys : \A S \in SUBSET Keys :
        p \in S /\ (\A k \in S : Parent(k) \in Keys => Parent(k) \in S) => q \in S}

\* Mutant: one step up is looked at.
ChainOKShallow(k, p) == p \in Keys => p # k /\ Parent(p) # k

\* validate_task_parent_chain: it must not come to k, nor go round elsewhere.
ChainOK(k, p) ==
    /\ k \notin Ancestors(p)
    /\ \A q \in Ancestors(p) : q \notin Ancestors(Parent(q))

-----------------------------------------------------------------------------
(* A request *)

Ask(c, r) ==
    /\ pc[c] = "idle" /\ asked < MaxWrites
    /\ asked' = asked + 1
    /\ req' = [req EXCEPT ![c] = r]
    /\ pc' = [pc EXCEPT ![c] = "waiting"]
    /\ UNCHANGED <<stored, live, writer, entry, now, parked>>

\* Mutant: a request does not wait for the one being served.
AcquireShared(c) ==
    /\ pc[c] = "waiting"
    /\ writer' = c
    /\ pc' = [pc EXCEPT ![c] = "locked"]
    /\ UNCHANGED <<stored, live, req, entry, now, asked, parked>>

Acquire(c) ==
    /\ pc[c] = "waiting" /\ writer = Nobody
    /\ writer' = c
    /\ pc' = [pc EXCEPT ![c] = "locked"]
    /\ UNCHANGED <<stored, live, req, entry, now, asked, parked>>

\* The request is answered and the lock goes.
Finish(c) ==
    /\ writer' = Nobody
    /\ pc' = [pc EXCEPT ![c] = "idle"]
    /\ req' = [req EXCEPT ![c] = NoTask]
    /\ entry' = [entry EXCEPT ![c] = NoTask]

\* build, with the lock already held.
Build(c) ==
    /\ pc[c] = "locked" /\ req[c].op # "remove"
    /\ Applies(req[c], stored[req[c].key], req[c].key \in live)
    /\ entry' = [entry EXCEPT ![c] = Built(req[c], stored[req[c].key], now)]
    /\ pc' = [pc EXCEPT ![c] = "commit"]
    /\ UNCHANGED <<stored, live, writer, req, now, asked, parked>>

Acceptable(c) ==
    LET k == req[c].key
        e == entry[c]
    IN Valid(k, e) /\ (e.parent # None => ChainOK(k, e.parent))

\* Refused: not applicable, not valid, or a parent that would close a circle.
Refuse(c) ==
    /\ \/ pc[c] = "locked" /\ ~Applies(req[c], stored[req[c].key], req[c].key \in live)
       \/ pc[c] = "commit" /\ ~Acceptable(c)
    /\ Finish(c)
    /\ UNCHANGED <<stored, live, now, asked, parked>>

IsClosed(e) == e # NoTask /\ e.status \in Closed

\* Mutant: the lock is released before the archival, so another write may come
\* in between.
CommitReleases(c) ==
    LET k == req[c].key
        e == entry[c]
    IN /\ pc[c] = "commit" /\ Acceptable(c)
       /\ stored' = [stored EXCEPT ![k] = e]
       /\ live' = live \union {k}
       /\ now' = now + 1
       /\ parked' = parked \ {k}
       /\ writer' = Nobody
       /\ pc' = [pc EXCEPT ![c] = IF IsClosed(e) THEN "archive" ELSE "idle"]
       /\ UNCHANGED <<req, entry, asked>>

\* commit_locked: a version that says nothing new about a live task is not
\* committed.  A closing write keeps the lock and archives.
Commit(c) ==
    LET k == req[c].key
        e == entry[c]
    IN /\ pc[c] = "commit" /\ Acceptable(c)
       /\ IF k \in live /\ stored[k] = e THEN UNCHANGED <<stored, live, now, parked>>
          ELSE /\ stored' = [stored EXCEPT ![k] = e]
               /\ live' = live \union {k}
               /\ now' = now + 1
               /\ parked' = parked \ {k}
       /\ IF IsClosed(e)
          THEN pc' = [pc EXCEPT ![c] = "archive"] /\ UNCHANGED <<writer, req, entry>>
          ELSE Finish(c)
       /\ UNCHANGED asked

\* archive_locked
Archive(c) ==
    /\ pc[c] = "archive"
    /\ live' = live \ {req[c].key}
    /\ Finish(c)
    /\ UNCHANGED <<stored, now, asked, parked>>

\* DELETE archives a task as it is.
Remove(c) ==
    /\ pc[c] = "locked" /\ req[c].op = "remove"
    /\ Applies(req[c], stored[req[c].key], req[c].key \in live)
    /\ live' = live \ {req[c].key}
    /\ parked' = parked \union {req[c].key}
    /\ Finish(c)
    /\ UNCHANGED <<stored, now, asked>>

Idle ==
    /\ asked = MaxWrites /\ \A c \in Clients : pc[c] = "idle"
    /\ UNCHANGED vars

Next ==
    \/ \E c \in Clients :
         \/ \E r \in Requests : Ask(c, r)
         \/ Acquire(c) \/ Build(c) \/ Refuse(c) \/ Commit(c) \/ Archive(c) \/ Remove(c)
    \/ Idle

Spec == Init /\ [][Next]_vars

-----------------------------------------------------------------------------
(* Properties *)

\* Every variable has its type; the lock is held by the one request under way.
TypeOK ==
    /\ stored \in [Keys -> Entries \union {NoTask}]
    /\ live \subseteq Keys /\ parked \subseteq Keys
    /\ writer \in Clients \union {Nobody}
    /\ pc \in [Clients -> {"idle", "waiting", "locked", "commit", "archive"}]
    /\ req \in [Clients -> Requests \union {NoTask}]
    /\ entry \in [Clients -> Entries \union {NoTask}]
    /\ now \in Nat /\ asked \in Nat
    /\ \A c \in Clients : pc[c] \in {"locked", "commit", "archive"} <=> writer = c

\* Following parents from any task comes to an end: no set of tasks has all its
\* parents in itself.  Archived tasks and parents written later count too
\* (main.rs validate_task_parent_chain).
Forest ==
    \A S \in SUBSET Keys : S # {} => \E k \in S : Parent(k) \notin S

\* While nobody writes, exactly the live tasks are in the tree, but for those
\* archived by DELETE: no close archives a task reopened behind it (main.rs
\* locked_write, archive_locked).
TreeAgrees ==
    writer = Nobody =>
        live = {k \in Keys \ parked : stored[k] # NoTask /\ stored[k].status \in Live}

\* What a partial update does not name.
Kept(r, old, new) ==
    /\ r.op = "transition" =>
         /\ r.status = Keep => new.status = old.status
         /\ r.parent = Keep => new.parent = old.parent
         /\ r.assignee = Keep => new.assignee = old.assignee
         /\ r.reason = Keep => (new.reason <=> old.reason /\ new.status = Blocked)
         /\ new.outcome = old.outcome /\ new.closedAt = old.closedAt
    /\ r.op = "resolve" =>
         /\ new.parent = old.parent /\ new.assignee = old.assignee
         /\ new.outcome = (old.outcome \/ r.outcome)
         /\ old.closedAt # 0 => new.closedAt = old.closedAt

CommitKeeps ==
    \A c \in Clients : pc[c] = "commit" /\ pc'[c] # "commit" /\ stored' # stored =>
        Kept(req[c], stored[req[c].key], stored'[req[c].key])

\* A partial update changes the version that was current when it was committed
\* in nothing but the fields it names: two of them are a strict sequence and
\* neither is lost (main.rs transition_task, close_entry).
NoLostUpdate == [][CommitKeeps]_vars
=============================================================================
