----------------------------- MODULE Tasks_proofs ----------------------------
(* Theorems about Tasks, for any number of tasks, clients and requests: the *)
(* parents form a forest, the tree holds what is live, and no partial       *)
(* update is lost.                                                          *)
EXTENDS Tasks, TLAPS

Steps == {"idle", "waiting", "locked", "commit", "archive"}
Holding == {"locked", "commit", "archive"}

Types ==
    /\ stored \in [Keys -> Entries \union {NoTask}]
    /\ live \subseteq Keys /\ parked \subseteq Keys
    /\ pc \in [Clients -> Steps]
    /\ req \in [Clients -> Requests \union {NoTask}]
    /\ entry \in [Clients -> Entries \union {NoTask}]
    /\ now \in Nat /\ asked \in Nat

\* The lock is held by the one client that is past the queue.
Exclusive ==
    /\ writer \in Clients \union {Nobody}
    /\ \A c \in Clients : pc[c] \in Holding <=> writer = c

\* What the holder has built is still built from the current version.
Fresh ==
    \A c \in Clients :
        /\ pc[c] # "idle" => req[c] \in Requests
        /\ pc[c] = "commit" =>
             /\ req[c].op # "remove" /\ Applies(req[c], stored[req[c].key], req[c].key \in live)
             /\ entry[c] = Built(req[c], stored[req[c].key], now) /\ entry[c] \in Entries
        /\ pc[c] = "archive" =>
             /\ stored[req[c].key] # NoTask /\ stored[req[c].key].status \in Closed
             /\ req[c].key \notin parked

Archiving == {k \in Keys : \E c \in Clients : pc[c] = "archive" /\ req[c].key = k}

TreeInv ==
    \A k \in Keys \ Archiving :
        k \in live <=> k \notin parked /\ stored[k] # NoTask /\ stored[k].status \in Live

TasksInv == Types /\ Exclusive /\ Fresh /\ TreeInv /\ Forest

LEMMA RequestTypes ==
    ASSUME NEW r \in Requests
    PROVE  /\ r.key \in Keys /\ r.op \in {"upsert", "transition", "resolve", "remove"}
           /\ r.op = "upsert" => r \in Upserts
           /\ r.op = "transition" => r \in Transitions
           /\ r.op = "resolve" => r \in Resolves
BY TasksAssumption DEF Upserts, Transitions, Resolves, Removes

\* A request of any kind makes an entry of the stored one.
LEMMA BuiltType ==
    ASSUME NEW r \in Requests, r.op # "remove", NEW old \in Entries \union {NoTask},
           NEW present, Applies(r, old, present), NEW t \in Nat
    PROVE  Built(r, old, t) \in Entries
<1>1. CASE r.op = "upsert"
  <2>1. r \in Upserts
    BY <1>1, RequestTypes
  <2>2. Built(r, old, t) = Upserted(r, old, t)
    BY <1>1 DEF Built
  <2>3. old # NoTask => old.closedAt \in Nat
    BY DEF Entries
  <2> QED BY <2>1, <2>2, <2>3 DEF Upserted, Upserts, Entries
<1>2. CASE r.op = "transition"
  <2>1. r \in Transitions /\ old \in Entries
    BY <1>2, RequestTypes DEF Applies
  <2>2. Built(r, old, t) = Transitioned(r, old)
    BY <1>2 DEF Built
  <2>3. /\ Given(r.status, old.status) \in Statuses /\ Given(r.parent, old.parent) \in Parents
        /\ Given(r.assignee, old.assignee) \in Holders
    BY <2>1 DEF Given, Transitions, Entries, Statuses
  <2>4. (Given(r.status, old.status) = Blocked /\ Given(r.reason, old.reason)) \in BOOLEAN
    OBVIOUS
  <2> QED BY <2>1, <2>2, <2>3, <2>4 DEF Transitioned, Entries
<1>3. CASE r.op = "resolve"
  <2>1. r \in Resolves /\ old \in Entries
    BY <1>3, RequestTypes DEF Applies
  <2>2. Built(r, old, t) = Resolved(r, old, t)
    BY <1>3 DEF Built
  <2> DEFINE outcome == old.outcome \/ r.outcome
             reason == old.reason /\ r.status = Blocked
             stamp == IF r.status \in Closed /\ old.closedAt = 0 THEN t + 1 ELSE old.closedAt
  <2>3. outcome \in BOOLEAN /\ reason \in BOOLEAN
    OBVIOUS
  <2>4. stamp \in Nat /\ r.status \in Statuses
    BY <2>1 DEF Resolves, Entries
  <2>5. Resolved(r, old, t) = [old EXCEPT !.status = r.status, !.outcome = outcome,
                                       !.reason = reason, !.closedAt = stamp]
    BY DEF Resolved
  <2> HIDE DEF outcome, reason, stamp
  <2> QED BY <2>1, <2>2, <2>3, <2>4, <2>5, ZenonT(60) DEF Entries
<1> QED BY <1>1, <1>2, <1>3, RequestTypes

-----------------------------------------------------------------------------
\* If the walk up from p does not come to k, hanging k under p closes no circle.
LEMMA HangUnder ==
    ASSUME Types, Forest, NEW k \in Keys, NEW e, stored' = [stored EXCEPT ![k] = e],
           NEW p, p = IF e = NoTask THEN None ELSE e.parent,
           p # None => ChainOK(k, p)
    PROVE  Forest'
<1>1. /\ Parent(k)' = p
      /\ \A j \in Keys \ {k} : Parent(j)' = Parent(j)
  BY DEF Parent, Types
<1> SUFFICES ASSUME NEW S \in SUBSET Keys, S # {}, \A j \in S : Parent(j)' \in S
             PROVE  FALSE
  BY DEF Forest
<1>2. CASE k \notin S
  BY <1>1, <1>2 DEF Forest
<1>3. CASE k \in S
  <2>1. p \in S /\ p \in Keys /\ k \notin Ancestors(p)
    BY <1>1, <1>3, TasksAssumption DEF ChainOK
  <2> DEFINE T == S \intersect Ancestors(p)
  <2>2. p \in T
    BY <2>1 DEF Ancestors
  <2>3. ASSUME NEW j \in T PROVE Parent(j) \in T
    <3>1. Parent(j) \in S
      BY <1>1, <2>1
    <3>2. Parent(j) \in Ancestors(p)
      BY <3>1 DEF Ancestors
    <3> QED BY <3>1, <3>2
  <2> QED BY <2>2, <2>3 DEF Forest
<1> QED BY <1>2, <1>3

-----------------------------------------------------------------------------
(* One lemma per action.  Actions that leave stored alone leave Forest. *)

LEMMA SameParents == ASSUME Forest, UNCHANGED stored PROVE Forest'
<1>1. \A k \in Keys : Parent(k)' = Parent(k)
  BY DEF Parent
<1> QED BY <1>1 DEF Forest

LEMMA InitInv == Init => TasksInv
<1> SUFFICES ASSUME Init PROVE TasksInv
  OBVIOUS
<1>1. Types
  BY DEF Init, Types, Steps
<1>2. Exclusive /\ Fresh /\ TreeInv
  BY TasksAssumption DEF Init, Exclusive, Fresh, TreeInv, Holding, Archiving
<1>3. Forest
  BY TasksAssumption DEF Init, Forest, Parent
<1> QED BY <1>1, <1>2, <1>3 DEF TasksInv

LEMMA AskInv ==
    ASSUME TasksInv, NEW c \in Clients, NEW r \in Requests, Ask(c, r) PROVE TasksInv'
<1> USE DEF TasksInv
<1>1. Types'
  BY DEF Ask, Types, Steps
<1>2. Exclusive'
  BY DEF Ask, Types, Exclusive, Holding
<1>3. Fresh' /\ Archiving' = Archiving
  BY DEF Ask, Types, Fresh, Archiving
<1>4. TreeInv'
  BY <1>3 DEF Ask, TreeInv
<1>5. Forest'
  BY SameParents DEF Ask
<1> QED BY <1>1, <1>2, <1>3, <1>4, <1>5

LEMMA AcquireInv ==
    ASSUME TasksInv, NEW c \in Clients, Acquire(c) PROVE TasksInv'
<1> USE DEF TasksInv
<1>1. Types'
  BY DEF Acquire, Types, Steps
<1>2. Exclusive'
  BY TasksAssumption DEF Acquire, Types, Exclusive, Holding
<1>3. Fresh' /\ Archiving' = Archiving
  BY DEF Acquire, Types, Fresh, Archiving
<1>4. TreeInv'
  BY <1>3 DEF Acquire, TreeInv
<1>5. Forest'
  BY SameParents DEF Acquire
<1> QED BY <1>1, <1>2, <1>3, <1>4, <1>5

LEMMA BuildInv ==
    ASSUME TasksInv, NEW c \in Clients, Build(c) PROVE TasksInv'
<1> USE DEF TasksInv
<1>1. req[c] \in Requests /\ req[c].key \in Keys
  BY RequestTypes DEF Build, Fresh
<1>2. Built(req[c], stored[req[c].key], now) \in Entries
  <2>1. stored[req[c].key] \in Entries \union {NoTask} /\ now \in Nat
    BY <1>1 DEF Types
  <2> QED BY <1>1, <2>1, BuiltType DEF Build
<1>3. Types'
  BY <1>2 DEF Build, Types, Steps
<1>4. Exclusive'
  BY DEF Build, Types, Exclusive, Holding
<1>5. Fresh' /\ Archiving' = Archiving
  BY <1>1, <1>2 DEF Build, Types, Fresh, Archiving
<1>6. TreeInv'
  BY <1>5 DEF Build, TreeInv
<1>7. Forest'
  BY SameParents DEF Build
<1> QED BY <1>3, <1>4, <1>5, <1>6, <1>7

\* While c holds the lock nobody else is past the queue.
LEMMA Alone ==
    ASSUME Exclusive, NEW c \in Clients, pc[c] \in Holding
    PROVE  writer = c /\ \A d \in Clients \ {c} : pc[d] \notin Holding
BY DEF Exclusive

LEMMA RefuseInv ==
    ASSUME TasksInv, NEW c \in Clients, Refuse(c) PROVE TasksInv'
<1> USE DEF TasksInv
<1>1. pc[c] \in {"locked", "commit"} /\ \A d \in Clients \ {c} : pc[d] \notin Holding
  BY Alone DEF Refuse, Holding
<1>2. Types'
  BY DEF Refuse, Finish, Types, Steps
<1>3. Exclusive'
  BY <1>1, TasksAssumption DEF Refuse, Finish, Types, Exclusive, Holding
<1>4. Fresh' /\ Archiving' = Archiving
  BY <1>1 DEF Refuse, Finish, Types, Fresh, Archiving, Holding
<1>5. TreeInv'
  BY <1>4 DEF Refuse, TreeInv
<1> QED BY <1>2, <1>3, <1>4, <1>5, SameParents DEF Refuse

LEMMA CommitInv ==
    ASSUME TasksInv, NEW c \in Clients, Commit(c) PROVE TasksInv'
<1> USE DEF TasksInv
<1> DEFINE k == req[c].key
           e == entry[c]
<1>1. pc[c] = "commit" /\ \A d \in Clients \ {c} : pc[d] \notin Holding
  BY Alone DEF Commit, Holding
<1>2. k \in Keys /\ e \in Entries /\ e # NoTask /\ e.status \in Statuses /\ req[c] \in Requests
  BY <1>1, RequestTypes, TasksAssumption DEF Fresh, Entries
<1>3. Archiving = {}
  BY <1>1 DEF Archiving, Holding
<1>4. (IsClosed(e) => stored'[k] = e /\ k \notin parked')
      /\ stored'[k] = e /\ stored' = [stored EXCEPT ![k] = e]
  <2>1. CASE k \in live /\ stored[k] = e
    <3>1. stored[k].status \in Live /\ k \notin parked
      BY <1>2, <1>3, <2>1 DEF TreeInv
    <3>2. ~IsClosed(e)
      BY <2>1, <3>1, TasksAssumption DEF IsClosed
    <3>3. stored' = stored
      BY <2>1 DEF Commit
    <3> QED BY <1>2, <2>1, <3>2, <3>3 DEF Types
  <2>2. CASE ~(k \in live /\ stored[k] = e)
    <3>1. stored' = [stored EXCEPT ![k] = e] /\ parked' = parked \ {k}
      BY <2>2 DEF Commit
    <3> QED BY <1>2, <3>1 DEF Types
  <2> QED BY <2>1, <2>2
<1>5. Types'
  <2>1. stored' \in [Keys -> Entries \union {NoTask}]
    BY <1>2, <1>4 DEF Types
  <2>2. live' \subseteq Keys /\ parked' \subseteq Keys /\ now' \in Nat
    BY <1>2 DEF Commit, Types
  <2>3. pc' \in [Clients -> Steps] /\ req' \in [Clients -> Requests \union {NoTask}]
        /\ entry' \in [Clients -> Entries \union {NoTask}] /\ asked' \in Nat
    BY DEF Commit, Finish, Types, Steps
  <2> QED BY <2>1, <2>2, <2>3 DEF Types
<1>6. Exclusive'
  BY <1>1, TasksAssumption DEF Commit, Finish, Types, Exclusive, Holding
<1>7. Fresh'
  <2> SUFFICES ASSUME NEW d \in Clients
               PROVE  /\ pc'[d] # "idle" => req'[d] \in Requests
                      /\ pc'[d] # "commit"
                      /\ pc'[d] = "archive" =>
                           /\ stored'[req'[d].key] # NoTask /\ stored'[req'[d].key].status \in Closed
                           /\ req'[d].key \notin parked'
    BY DEF Fresh
  <2>1. CASE d # c
    BY <1>1, <2>1 DEF Commit, Finish, Types, Fresh, Holding
  <2>2. CASE d = c /\ IsClosed(e)
    <3>1. pc'[c] = "archive" /\ req' = req
      BY <2>2 DEF Commit, Types
    <3> QED BY <1>2, <1>4, <2>2, <3>1 DEF IsClosed
  <2>3. CASE d = c /\ ~IsClosed(e)
    BY <2>3 DEF Commit, Finish, Types
  <2> QED BY <2>1, <2>2, <2>3
<1>8. TreeInv'
  <2> SUFFICES ASSUME NEW j \in Keys \ Archiving'
               PROVE  j \in live' <=> j \notin parked' /\ stored'[j] # NoTask /\ stored'[j].status \in Live
    BY DEF TreeInv
  <2>1. CASE j # k
    <3>1. stored'[j] = stored[j] /\ (j \in live' <=> j \in live) /\ (j \in parked' <=> j \in parked)
      BY <1>4, <2>1 DEF Commit, Types
    <3> QED BY <1>3, <3>1 DEF TreeInv
  <2>2. CASE j = k
    <3>1. ~IsClosed(e)
      <4> SUFFICES ASSUME IsClosed(e) PROVE k \in Archiving'
        BY <2>2
      <4>1. pc'[c] = "archive" /\ req' = req
        BY DEF Commit, Types
      <4> QED BY <1>2, <4>1 DEF Archiving
    <3>2. e.status \in Live
      BY <1>2, <3>1 DEF IsClosed, Statuses
    <3>3. k \in live' /\ k \notin parked'
      BY <1>2, <1>3 DEF Commit, TreeInv
    <3> QED BY <1>2, <1>4, <2>2, <3>2, <3>3
  <2> QED BY <2>1, <2>2
<1>9. Forest'
  BY <1>2, <1>4, HangUnder DEF Commit, Acceptable
<1> QED BY <1>5, <1>6, <1>7, <1>8, <1>9

LEMMA ArchiveInv ==
    ASSUME TasksInv, NEW c \in Clients, Archive(c) PROVE TasksInv'
<1> USE DEF TasksInv
<1> DEFINE k == req[c].key
<1>1. pc[c] = "archive" /\ \A d \in Clients \ {c} : pc[d] \notin Holding
  BY Alone DEF Archive, Holding
<1>2. Types'
  BY DEF Archive, Finish, Types, Steps
<1>3. Exclusive'
  BY <1>1, TasksAssumption DEF Archive, Finish, Types, Exclusive, Holding
<1>4. Fresh'
  BY <1>1 DEF Archive, Finish, Types, Fresh, Holding
<1>5. Archiving \subseteq {k} /\ stored[k].status \notin Live
  BY <1>1, TasksAssumption DEF Archiving, Holding, Fresh
<1>6. TreeInv'
  BY <1>5 DEF Archive, TreeInv
<1> QED BY <1>2, <1>3, <1>4, <1>6, SameParents DEF Archive

LEMMA RemoveInv ==
    ASSUME TasksInv, NEW c \in Clients, Remove(c) PROVE TasksInv'
<1> USE DEF TasksInv
<1> DEFINE k == req[c].key
<1>1. pc[c] = "locked" /\ \A d \in Clients \ {c} : pc[d] \notin Holding
  BY Alone DEF Remove, Holding
<1>2. k \in Keys
  BY <1>1, RequestTypes DEF Fresh
<1>3. Types'
  BY <1>2 DEF Remove, Finish, Types, Steps
<1>4. Exclusive'
  BY <1>1, TasksAssumption DEF Remove, Finish, Types, Exclusive, Holding
<1>5. Fresh'
  BY <1>1 DEF Remove, Finish, Types, Fresh, Holding
<1>6. Archiving = {}
  BY <1>1 DEF Archiving, Holding
<1>7. TreeInv'
  BY <1>6 DEF Remove, TreeInv
<1> QED BY <1>3, <1>4, <1>5, <1>7, SameParents DEF Remove

LEMMA StutterInv == ASSUME TasksInv, UNCHANGED vars PROVE TasksInv'
<1> USE DEF TasksInv, vars
<1>1. Types' /\ Exclusive'
  BY DEF Types, Exclusive
<1>2. Fresh'
  BY DEF Fresh
<1>3. TreeInv'
  BY DEF TreeInv, Archiving
<1>4. Forest'
  BY SameParents
<1> QED BY <1>1, <1>2, <1>3, <1>4

THEOREM TasksInductive == Spec => []TasksInv
<1>1. TasksInv /\ [Next]_vars => TasksInv'
  BY AskInv, AcquireInv, BuildInv, RefuseInv, CommitInv, ArchiveInv, RemoveInv, StutterInv
     DEF Next, Idle
<1> QED BY <1>1, InitInv, PTL DEF Spec

-----------------------------------------------------------------------------
(* The theorems *)

\* Every variable keeps its type and one request at a time is past the queue.
THEOREM TasksTyped == Spec => []TypeOK
<1>1. TasksInv => TypeOK
  BY DEF TasksInv, Types, Exclusive, Steps, Holding, TypeOK
<1> QED BY <1>1, TasksInductive, PTL

\* The parents of tasks never form a circle, whatever interleaving of writes,
\* removals and re-parentings led here (main.rs validate_task_parent_chain under
\* the writer lock).
THEOREM ParentsStayForest == Spec => []Forest
<1>1. TasksInv => Forest
  BY DEF TasksInv
<1> QED BY <1>1, TasksInductive, PTL

\* Between writes the working tree holds the live tasks, less those archived by
\* DELETE (main.rs locked_write, archive_locked).
THEOREM TreeStaysLive == Spec => []TreeAgrees
<1>1. TasksInv => TreeAgrees
  <2> SUFFICES ASSUME TasksInv, writer = Nobody
               PROVE  live = {k \in Keys \ parked : stored[k] # NoTask /\ stored[k].status \in Live}
    BY DEF TreeAgrees
  <2>1. Archiving = {}
    BY TasksAssumption DEF TasksInv, Exclusive, Holding, Archiving
  <2> QED BY <2>1 DEF TasksInv, TreeInv, Types
<1> QED BY <1>1, TasksInductive, PTL

\* What a partial update builds keeps what it does not name.
LEMMA BuiltKeeps ==
    ASSUME NEW r \in Requests, r.op # "remove", NEW old \in Entries \union {NoTask},
           NEW present, Applies(r, old, present), NEW t
    PROVE  Kept(r, old, Built(r, old, t))
<1>1. CASE r.op = "upsert"
  BY <1>1 DEF Kept
<1>2. CASE r.op = "transition"
  <2>1. old \in Entries /\ Built(r, old, t) = Transitioned(r, old)
    BY <1>2 DEF Applies, Built
  <2> QED BY <1>2, <2>1, ZenonT(60) DEF Kept, Transitioned, Given, Entries
<1>3. CASE r.op = "resolve"
  <2>1. old \in Entries /\ Built(r, old, t) = Resolved(r, old, t)
    BY <1>3 DEF Applies, Built
  <2> QED BY <1>3, <2>1 DEF Kept, Resolved, Entries
<1> QED BY <1>1, <1>2, <1>3, RequestTypes

\* No partial update undoes a write it did not see (main.rs transition_task and
\* close_entry read the stored version under the lock they commit under).
THEOREM UpdatesAreNotLost == Spec => NoLostUpdate
<1>1. TasksInv /\ [Next]_vars => [CommitKeeps]_vars
  <2> SUFFICES ASSUME TasksInv, [Next]_vars, NEW c \in Clients,
                      pc[c] = "commit", pc'[c] # "commit", stored' # stored
               PROVE  Kept(req[c], stored[req[c].key], stored'[req[c].key])
    BY DEF CommitKeeps
  <2>1. Commit(c)
    <3>1. PICK d \in Clients : Commit(d)
      BY DEF Next, Idle, vars, Ask, Acquire, Build, Refuse, Archive, Remove
    <3>2. d = c
      BY <3>1 DEF Commit, TasksInv, Exclusive, Holding
    <3> QED BY <3>1, <3>2
  <2>2. req[c] \in Requests /\ req[c].op # "remove" /\ req[c].key \in Keys
        /\ Applies(req[c], stored[req[c].key], req[c].key \in live) /\ entry[c] = Built(req[c], stored[req[c].key], now)
    BY RequestTypes DEF TasksInv, Fresh
  <2>3. stored[req[c].key] \in Entries \union {NoTask}
        /\ stored'[req[c].key] = entry[c]
    BY <2>1, <2>2 DEF Commit, TasksInv, Types
  <2> QED BY <2>2, <2>3, BuiltKeeps
<1> QED BY <1>1, TasksInductive, PTL DEF Spec, NoLostUpdate
=============================================================================
