--------------------------------- MODULE Board ---------------------------------
(* Incidents, and the views that say what is open: the listings of incidents  *)
(* and tasks and the stamps of their timeline (src/src/main.rs), the brief    *)
(* (brief.rs, brief_api.rs), and what links to what, which services and hosts *)
(* have something open and what that affects (links.rs).                      *)
(*                                                                            *)
(* A write is one step: whoever holds the writer lock checks, commits and     *)
(* archives, which Tasks and Canon take apart.  Time is the number of         *)
(* versions committed.                                                        *)
EXTENDS Naturals, Sequences, FiniteSets, Functions

CONSTANTS Incidents, TaskKeys, Notes,  \* keys, by kind, in byte order
          Filings,      \* what is filed: [key, entry]
          Moves,        \* statuses asked for: [op, key, status, solved]
          MaxWrites     \* bound: versions committed

Entries == Incidents \union TaskKeys \union Notes
Nil == 0               \* no key; no stamp

VARIABLES
    stored,  \* the last version of each key; <<>>: never written
    tree,    \* the keys with a file
    now      \* versions committed

vars == <<stored, tree, now>>

\* cites, mentions: of knowledge by a field, of anything by a link in the body,
\* some of them inside code.  detected, mitigated, closed: stamps.
Blank == [status |-> "", severity |-> "", service |-> "", hosts |-> <<>>, cites |-> {}, parent |-> Nil,
          mentions |-> {}, tags |-> {}, priority |-> "", solved |-> FALSE, reason |-> FALSE,
          detected |-> Nil, mitigated |-> Nil, closed |-> Nil]

IncidentStatuses == <<"open", "mitigated", "resolved">>
TaskStatuses == <<"open", "in_progress", "blocked", "done", "dropped">>
LiveStatuses == {"open", "in_progress", "blocked"}
Closing == {"resolved", "done", "dropped"}
Ranks == <<"critical", "high", "medium", "low">>

Records == [status : STRING, severity : STRING, service : STRING, hosts : Seq(STRING), cites : SUBSET Nat, parent : Nat,
            mentions : SUBSET [to : Nat, code : BOOLEAN], tags : SUBSET STRING, priority : STRING,
            solved : BOOLEAN, reason : BOOLEAN, detected : Nat, mitigated : Nat, closed : Nat]

\* Kinds are told by the prefix of the key.  No request names a stamp but that
\* of detection, and one that files a note names no more than text and tags.
BoardAssumption ==
    /\ Entries \subseteq Nat \ {Nil} /\ IsFiniteSet(Entries) /\ MaxWrites \in Nat
    /\ Incidents \intersect TaskKeys = {} /\ Notes \intersect (Incidents \union TaskKeys) = {}
    /\ \A f \in Filings :
         /\ f.key \in Entries /\ f.entry \in Records
         /\ f.entry.mitigated = Nil /\ f.entry.closed = Nil
         /\ f.key \notin Incidents => f.entry.detected = Nil
         /\ f.key \in Notes => f.entry.status = ""
    /\ Moves \subseteq [op : {"close", "transition"}, key : Entries, status : STRING, solved : BOOLEAN]

Init == stored = [k \in Entries |-> <<>>] /\ tree = {} /\ now = 0

-----------------------------------------------------------------------------
(* Writes *)

\* stored_version: the file, or of an incident or a task the last version.
HasVersion(k) == stored[k] # <<>> /\ (k \in tree \/ k \notin Notes)

IsClosed(e) == e.status \in Closing

\* Mutant: an upsert carries the stamps it was sent, and those are few.
StampedBare(k, e) ==
    [e EXCEPT !.detected = IF @ = Nil /\ k \in Incidents THEN now + 1 ELSE @,
              !.mitigated = IF @ = Nil /\ e.status = "mitigated" THEN now + 1 ELSE @,
              !.closed = IF @ = Nil /\ IsClosed(e) THEN now + 1 ELSE @]

\* stamp_timeline: an empty stamp is the stored one, and else set as the status
\* asks for it.
Stamped(k, e) ==
    LET old == IF HasVersion(k) THEN stored[k] ELSE Blank
        kept(new, was) == IF new # Nil THEN new ELSE was
        stamp(s, due) == IF s = Nil /\ due THEN now + 1 ELSE s
    IN [e EXCEPT !.detected = stamp(kept(@, old.detected), k \in Incidents),
                 !.mitigated = stamp(kept(@, old.mitigated), e.status = "mitigated"),
                 !.closed = stamp(kept(@, old.closed), IsClosed(e))]

\* upsert_incident; upsert_task, which keeps a closing stamp only for a task
\* that is closed; upsert.
Filed(k, e) ==
    IF k \in Incidents THEN Stamped(k, e)
    ELSE IF k \in TaskKeys /\ IsClosed(e)
    THEN [e EXCEPT !.closed = IF HasVersion(k) /\ stored[k].closed # Nil THEN stored[k].closed ELSE now + 1]
    ELSE e

\* close_entry: an outcome left out is the one recorded before.
Closed(k, m) ==
    Stamped(k, [stored[k] EXCEPT !.status = m.status, !.solved = @ \/ m.solved,
                                 !.reason = @ /\ m.status = "blocked"])

\* transition_task
Moved(k, m) == [stored[k] EXCEPT !.status = m.status, !.reason = @ /\ m.status = "blocked"]

\* Entry::validate
Valid(k, e) ==
    /\ k \in Incidents => /\ e.service # "" /\ e.severity \in Range(Ranks)
                          /\ e.status \in Range(IncidentStatuses)
    /\ k \in TaskKeys => /\ e.status \in Range(TaskStatuses)
                         /\ e.reason => e.status = "blocked"
                         /\ e.priority \in Range(Ranks) \union {""}
                         /\ e.parent \in TaskKeys \union {Nil} /\ e.parent # k
    /\ k \notin TaskKeys => e.priority = "" /\ ~e.reason /\ e.parent = Nil
    /\ IsClosed(e) => e.solved
    /\ e.cites \subseteq Entries

\* commit_locked and archive_locked; the content that is stored already is no
\* version, but a closed one still leaves the tree.
Put(k, e) ==
    /\ Valid(k, e)
    /\ IF k \in tree /\ stored[k] = e THEN UNCHANGED <<stored, now>>
       ELSE stored' = [stored EXCEPT ![k] = e] /\ now' = now + 1
    /\ tree' = IF IsClosed(e) THEN tree \ {k} ELSE tree \union {k}

File(f) == now < MaxWrites /\ Put(f.key, Filed(f.key, f.entry))

Move(m) ==
    /\ now < MaxWrites /\ HasVersion(m.key) /\ m.key \notin Notes
    /\ m.op = "transition" => m.key \in TaskKeys /\ m.status \in LiveStatuses
    /\ Put(m.key, IF m.op = "close" THEN Closed(m.key, m) ELSE Moved(m.key, m))

\* DELETE
Delete(k) == now < MaxWrites /\ k \in tree /\ tree' = tree \ {k} /\ now' = now + 1 /\ UNCHANGED stored

\* What a writer is told of links that lead nowhere: unknown_knowledge,
\* unknown_parent.
UnknownKnowledge(e) == e.cites \ tree
UnknownParent(e) == e.parent # Nil /\ ~HasVersion(e.parent)

Next ==
    \/ \E f \in Filings : File(f)
    \/ \E m \in Moves : Move(m)
    \/ \E k \in Entries : Delete(k)

Spec == Init /\ [][Next]_vars

-----------------------------------------------------------------------------
(* LinkIndex *)

\* build: the files, and the last version of every incident and task without.
Known == {k \in Entries : HasVersion(k)}

\* body_links: what code says is no link.
BodyLinks(e) == {m.to : m \in {n \in e.mentions : ~n.code}}

\* Mutant: an entry may link to itself, and an archived one to nothing.
OutgoingOfLive(k) ==
    LET e == stored[k] IN
    IF k \in tree THEN ({e.parent} \ {Nil}) \union e.cites \union BodyLinks(e) ELSE {}

\* outgoing: each target once.
Outgoing(k) == LET e == stored[k] IN (({e.parent} \ {Nil}) \union e.cites \union BodyLinks(e)) \ {k}

\* related
LinksOut(k) == IF k \in Known THEN Outgoing(k) ELSE {}
LinksIn(k) == {j \in Known : k \in Outgoing(j)}
Missing(k) == k \notin Known

\* Mutant: a status tells whether an entry is live, archived or not.
IsLiveByStatus(k) == k \notin Notes /\ ~IsClosed(stored[k])

\* Brief::live
IsLive(k) == k \in tree /\ k \notin Notes /\ ~IsClosed(stored[k])

\* Brief::rank
Rank(k) == IF IsLive(k) THEN IF k \in Incidents THEN 0 ELSE 1 ELSE IF k \in Notes THEN 2 ELSE 3

RankIn(order, v) == IF v \in Range(order) THEN CHOOSE i \in DOMAIN order : order[i] = v ELSE Len(order) + 1

\* places: a tally for every service and host that an incident names.
NamesOf(e) == <<e.service>> \o e.hosts
Tally(place, byHost) ==
    LET naming(k) == IF byHost THEN {i \in DOMAIN stored[k].hosts : stored[k].hosts[i] = place}
                     ELSE {i \in {1} : stored[k].service = place}
        all == {k \in Known \intersect Incidents : naming(k) # {}}
        times(S) == Cardinality(UNION {{<<k, i>> : i \in naming(k)} : k \in S})
        open == {k \in all : IsLive(k)}
        ranks == {RankIn(Ranks, stored[k].severity) : k \in open}
    IN [open |-> times(open), total |-> times(all),
        worst |-> IF open = {} THEN 0 ELSE CHOOSE r \in ranks : \A s \in ranks : r <= s]

\* impact: the incidents that name the place, the knowledge these cite, the
\* live tasks that point at one of either.
AtPlace(place, byHost) ==
    {k \in Known \intersect Incidents :
        IF byHost THEN place \in Range(stored[k].hosts) ELSE stored[k].service = place}
Runbooks(place, byHost) == (UNION {Outgoing(k) : k \in AtPlace(place, byHost)}) \intersect Known \intersect Notes
TasksAt(place, byHost) ==
    {k \in Known \intersect TaskKeys : IsLive(k) /\
        Outgoing(k) \intersect (AtPlace(place, byHost) \union Runbooks(place, byHost)) # {}}

-----------------------------------------------------------------------------
(* The listings and the brief *)

\* list_kind: every head of the kind, archived or not, or by its status; by
\* default what has a file.
Listing(kind, status, all) ==
    {k \in Known \intersect kind : IF status # "" THEN stored[k].status = status ELSE all \/ k \in tree}

\* Scope::admits
Admits(scope, e) ==
    /\ scope.tags \subseteq e.tags
    /\ scope.service = "" \/ e.service = scope.service \/ scope.service \in e.tags

OpenIncidents(scope) ==
    {k \in Incidents \intersect tree : stored[k].status \in {"open", "mitigated"} /\ Admits(scope, stored[k])}

\* is_active_work
ActiveWork(e) == e.status \in {"in_progress", "blocked"} \/ (e.status = "open" /\ e.priority \in {"high", "critical"})

Work(scope) ==
    {k \in TaskKeys \intersect tree :
        stored[k].status \in LiveStatuses /\ ActiveWork(stored[k]) /\ Admits(scope, stored[k])}

SeverityOf(k) == RankIn(Ranks, stored[k].severity)
StageOf(k) == RankIn(IncidentStatuses, stored[k].status)

\* Mutant: an open report before a mitigated one, whatever their severity.
IncidentBeforeByStatus(a, b) ==
    IF StageOf(a) # StageOf(b) THEN StageOf(a) < StageOf(b)
    ELSE IF SeverityOf(a) # SeverityOf(b) THEN SeverityOf(a) < SeverityOf(b)
    ELSE a < b

\* sort_incidents, the oldest of equals first; sort_work.
IncidentBefore(a, b) ==
    IF SeverityOf(a) # SeverityOf(b) THEN SeverityOf(a) < SeverityOf(b)
    ELSE IF StageOf(a) # StageOf(b) THEN StageOf(a) < StageOf(b)
    ELSE IF stored[a].detected # stored[b].detected THEN stored[a].detected < stored[b].detected
    ELSE a < b

BegunOf(k) == RankIn(<<"in_progress", "blocked", "open">>, stored[k].status)
UrgencyOf(k) == RankIn(Ranks, stored[k].priority)
WorkBefore(a, b) ==
    IF BegunOf(a) # BegunOf(b) THEN BegunOf(a) < BegunOf(b)
    ELSE IF UrgencyOf(a) # UrgencyOf(b) THEN UrgencyOf(a) < UrgencyOf(b)
    ELSE a < b

\* section: the first of the rows.
IncidentSection(scope, cap) ==
    LET rows == OpenIncidents(scope) IN {k \in rows : Cardinality({j \in rows : IncidentBefore(j, k)}) < cap}
WorkSection(scope, cap) ==
    LET rows == Work(scope) IN {k \in rows : Cardinality({j \in rows : WorkBefore(j, k)}) < cap}

-----------------------------------------------------------------------------
(* Properties *)

Everything == [tags |-> {}, service |-> ""]
Places == (UNION {Range(NamesOf(stored[k])) : k \in Known \intersect Incidents}) \ {""}

\* All views agree on what is open: the listing of what is there, without what
\* is closed, is what the link index calls live; among the incidents it is the
\* brief's section, and of the tasks those somebody is on, stuck or urgent
\* (list_kind, Brief::live, brief).
OpenIsOpen ==
    /\ {k \in Known : IsLive(k)} \intersect Incidents = OpenIncidents(Everything)
    /\ OpenIncidents(Everything) = Listing(Incidents, "", FALSE)
    /\ {k \in Known : IsLive(k)} \intersect TaskKeys = Listing(TaskKeys, "", FALSE)
    /\ Work(Everything) \subseteq Listing(TaskKeys, "", FALSE)
    /\ Listing(Incidents, "resolved", FALSE) \intersect tree = {}

\* A tally of places says what impact lists for that place, for every host but
\* one an incident names twice (places, impact).
TalliesAgree ==
    \A p \in Places, byHost \in BOOLEAN :
        (\A k \in AtPlace(p, byHost) : Cardinality({i \in DOMAIN stored[k].hosts : stored[k].hosts[i] = p}) <= 1) =>
            LET open == {k \in AtPlace(p, byHost) : IsLive(k)} IN
            /\ Tally(p, byHost).total = Cardinality(AtPlace(p, byHost))
            /\ Tally(p, byHost).open = Cardinality(open)
            /\ Tally(p, byHost).worst = RankIn(Ranks, "critical") <=>
                   \E k \in open : stored[k].severity = "critical"

\* A closed incident still says which runbook it used and which open tasks
\* follow it, and nothing points at itself; a parent a writer is told is unknown
\* is one the index misses, and so is every other link that leads nowhere
\* (build, outgoing, impact, unknown_parent).
LinksHold ==
    \A k \in Known :
        /\ \A to \in stored[k].cites \ {k} : k \in LinksIn(to)
        /\ k \notin LinksOut(k) \union LinksIn(k)
        /\ UnknownParent(stored[k]) <=> stored[k].parent # Nil /\ Missing(stored[k].parent)
        /\ {to \in stored[k].cites : Missing(to)} \subseteq UnknownKnowledge(stored[k])
        /\ k \in Incidents /\ stored[k].service # "" =>
             /\ stored[k].cites \intersect Known \intersect Notes \subseteq Runbooks(stored[k].service, FALSE)
             /\ LinksIn(k) \intersect Listing(TaskKeys, "", FALSE) \subseteq TasksAt(stored[k].service, FALSE)

\* However short the brief is cut, it shows no incident before a graver one, and
\* no task nobody has begun before one that is stuck (sort_incidents, sort_work).
GravestFirst ==
    \A cap \in 1 .. Cardinality(Incidents \union TaskKeys) :
        LET shown == IncidentSection(Everything, cap)
            work == WorkSection(Everything, cap)
        IN /\ \A k \in shown, j \in OpenIncidents(Everything) \ shown :
                SeverityOf(k) <= SeverityOf(j)
           /\ \A k \in work, j \in Work(Everything) \ work :
                stored[j].status = "blocked" => stored[k].status # "open"

ViewsAgree == OpenIsOpen /\ TalliesAgree /\ LinksHold /\ GravestFirst

\* What the server has stamped stands, whatever is written later, until the
\* writer names another time or files the task as a live one again; an
\* incident is always stamped as detected, a mitigated one as mitigated and
\* what is closed as closed, by the write that made it so at the latest
\* (stamp_timeline, upsert_task).
StampsStand ==
    [][\A k \in Entries : stored'[k] # stored[k] =>
         LET e == stored'[k]
             stands(was, is) == was = Nil \/ is = was
         IN /\ k \in Incidents => e.detected # Nil
            /\ e.status = "mitigated" => e.mitigated # Nil
            /\ IsClosed(e) => e.closed # Nil
            /\ HasVersion(k) =>
                 /\ stands(stored[k].detected, e.detected)
                      \/ \E f \in Filings : f.key = k /\ f.entry.detected = e.detected
                 /\ stands(stored[k].mitigated, e.mitigated)
                 /\ stands(stored[k].closed, e.closed) \/ (k \in TaskKeys /\ e.closed = Nil /\ ~IsClosed(e))]_vars
=============================================================================
