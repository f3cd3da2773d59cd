-------------------------------- MODULE MCRules -------------------------------
(* Rules, with reads in two sizes: few, two writes of the note and of one task *)
(* where every step may fail; many, three tasks written once each, of which a  *)
(* listing looks at two and shows one.                                         *)
EXTENDS Rules, TLC

(* Agenda: two tasks and a block of one line; days of two halves *)

MCZones == {-1, 0, 1}

MCWhens == {[kind |-> "day", at |-> 2, zone |-> 0]} \union {[kind |-> "at", at |-> 4, zone |-> z] : z \in {-1, 1}}

Kept == [due |-> Keep, expected |-> Keep, hard |-> Keep, remind |-> Keep, event |-> Keep]
Cleared == [Kept EXCEPT !.due = None, !.expected = None]
MCPatches ==
    {[Kept EXCEPT !.due = d] : d \in MCWhens \union {Keep, None, Garbage}}
    \union {[Kept EXCEPT !.expected = None], [Kept EXCEPT !.expected = [kind |-> "day", at |-> 2, zone |-> 0], !.event = TRUE]}
    \union {[p EXCEPT !.hard = b] : p \in {Kept, Cleared}, b \in BOOLEAN}
    \union {[Kept EXCEPT !.remind = n] : n \in {0, 4}}

-----------------------------------------------------------------------------
(* Board: two incidents, a task and a runbook *)

\* Board's Blank, outside the instance whose constants are made of it.
Bare == [status |-> "", severity |-> "", service |-> "", hosts |-> <<>>, cites |-> {}, parent |-> 0, mentions |-> {},
         tags |-> {}, priority |-> "", solved |-> FALSE, reason |-> FALSE, detected |-> 0, mitigated |-> 0, closed |-> 0]

Mention(to, code) == [to |-> to, code |-> code]
Incident(status, severity, hosts, cites) ==
    [Bare EXCEPT !.status = status, !.severity = severity, !.service = "s", !.hosts = hosts, !.cites = cites,
                  !.solved = status = "resolved"]
TaskOf(status, priority, parent, mentions) ==
    [Bare EXCEPT !.status = status, !.priority = priority, !.parent = parent, !.mentions = mentions, !.tags = {"s"},
                  !.reason = status = "blocked", !.solved = status = "done"]

MCFilings ==
    {[key |-> 1, entry |-> Incident(s, "low", <<"h">>, {4})] : s \in {"open", "mitigated", "resolved"}}
    \union {[key |-> 1, entry |-> [Incident("open", "low", <<>>, {1, 4}) EXCEPT !.detected = 90]],
            [key |-> 2, entry |-> Incident("mitigated", "critical", <<"h", "h">>, {3})],
            [key |-> 2, entry |-> Incident("open", "critical", <<"h">>, {})],
            [key |-> 2, entry |-> Incident("open", "unheard of", <<"h">>, {})],
            [key |-> 3, entry |-> TaskOf("open", "high", 5, {Mention(1, FALSE), Mention(2, TRUE)})],
            [key |-> 3, entry |-> TaskOf("blocked", "", 0, {Mention(4, FALSE), Mention(3, FALSE)})],
            [key |-> 3, entry |-> TaskOf("done", "", 0, {})],
            [key |-> 4, entry |-> [Bare EXCEPT !.mentions = {Mention(3, FALSE)}]]}

MCMoves ==
    {[op |-> "close", key |-> k, status |-> "resolved", solved |-> TRUE] : k \in {1, 2}}
    \union {[op |-> "close", key |-> 1, status |-> "mitigated", solved |-> FALSE],
            [op |-> "close", key |-> 3, status |-> "done", solved |-> TRUE],
            [op |-> "transition", key |-> 3, status |-> "in_progress", solved |-> FALSE]}

-----------------------------------------------------------------------------
(* Mcp: an incident and a task, written with every mixture of fields named,   *)
(* empty, null and left out; a note written under several attributions        *)

\* Mcp's values, outside the instance whose constants are made of them.
Null == "null"
Empty == "empty"
Odd == "odd"
Nobody == [agent |-> Empty, session |-> Empty, workspace |-> Empty]

By(agent, session) == [agent |-> agent, session |-> session, workspace |-> Empty]
MCDoors == {[readonly |-> FALSE, may |-> m] : m \in {"read", "write"}} \union {[readonly |-> TRUE, may |-> "write"]}
MCHeaders == {By("a", "s1")}

Plain(tool, key, args) == [tool |-> tool, key |-> key, args |-> args, ctx |-> Nobody, meta |-> Nobody]
Filed == [f \in {"title", "body", "service", "severity"} |-> "text"]
Solved == [f \in {"resolution"} |-> "text"]

\* One argument of those a write may leave out.
Ones(fields, values) == {<<>>} \union {[f \in {g} |-> v] : g \in fields, v \in values}

MCCalls ==
    {Plain(t, "note", [f \in {"q"} |-> "text"]) : t \in {"kyb_query", "kyb_get"}}
    \union {Plain("kyb_get", Null, <<>>), Plain("kyb_none", "note", <<>>), Plain("kyb_done", "task-a", <<>>)}
    \union {[Plain("kyb_add", "note", Filed) EXCEPT !.ctx = c, !.meta = By("b", "s3")] :
              c \in {Nobody, By("a", Empty), By(Empty, "s2")}}
    \union {Plain("kyb_add", "note", Filed)}
    \union {Plain("kyb_incident", "inc-a", a @@ Filed) : a \in Ones({"tags"}, {"x"})}
    \union {Plain("kyb_task", "task-a", a @@ Filed) :
              a \in Ones({"tags"}, {Null}) \union Ones({"due"}, {Null, Odd})}
    \union {Plain("kyb_task_status", "task-a", a) :
              a \in Ones({"due"}, {Null, "x"}) \union Ones({"assignee"}, {"x"}) \union Ones({"status"}, {"blocked"})}
    \union {Plain("kyb_resolve", "inc-a", Solved), Plain("kyb_done", "task-a", Solved)}

ASSUME Bare = B!Blank /\ <<Null, Empty, Odd, Nobody>> = <<M!Null, M!Empty, M!Odd, M!Nobody>>

-----------------------------------------------------------------------------
VARIABLE size

MCInit == RulesInit /\ size \in (IF part = "reads" THEN {"few", "many"} ELSE {"few"})

MCNext ==
    /\ RulesNext /\ UNCHANGED size
    /\ size = "few" => {w'.key, read'["r"].key} \subseteq {"note", "t1"} /\ written' <= 2
    /\ size = "many" => broken' = {} /\ read'["r"].pc \notin {"get", "brief"} /\ (w'.pc # "idle" => w'.key # "note")

MCSpec == MCInit /\ [][MCNext]_<<rulesVars, size>>
=============================================================================
