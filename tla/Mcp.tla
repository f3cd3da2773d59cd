---------------------------------- MODULE Mcp ----------------------------------
(* POST /mcp (src/src/mcp.rs): JSON-RPC messages, one or a batch, each call   *)
(* of a tool turned into a request to the API of the same process, which      *)
(* decides what the caller may do, writes the entry and, once the handler has *)
(* answered, the audit log.  A client that hangs up while the handler waits   *)
(* for the embedding of what it has written drops the request there.          *)
(*                                                                            *)
(* Of an entry the fields are kept that a write may leave unnamed.  What the  *)
(* API does under the writer lock is one step here; its steps are in Tasks    *)
(* and Canon.                                                                 *)
EXTENDS Naturals, Sequences, SequencesExt, FiniteSetsExt

CONSTANTS Keys,      \* of one note, one incident, one task
          Calls,     \* the tool calls clients make: [tool, key, args, ctx, meta];
                     \* the args are those without the key
          Doors,     \* how clients come: [readonly, may], may of a role or none
          Headers,   \* the attribution headers a request may carry
          MaxBatch   \* bound: messages in one request

Null == "null"    \* JSON null
Empty == "empty"  \* "" or []
Odd == "odd"      \* a value of the wrong type
Nobody == [agent |-> Empty, session |-> Empty, workspace |-> Empty]

VARIABLES
    entry,  \* what is stored of each key: a function of its fields; <<>>: never written
    post,   \* the request being answered
    log     \* the audit log since that request came

vars == <<entry, post, log>>

KindOf(k) == CASE k = "task-a" -> "task" [] k = "inc-a" -> "incident" [] OTHER -> "knowledge"

McpAssumption ==
    /\ Keys \subseteq {"note", "inc-a", "task-a"} /\ MaxBatch \in Nat \ {0}
    /\ \A c \in Calls : c.key \in Keys \union {Null} /\ "key" \notin DOMAIN c.args
    /\ \A d \in Doors : d.readonly \in BOOLEAN /\ d.may \in {"none", "read", "write"}

NoCall == [tool |-> "", key |-> Null, args |-> <<>>, ctx |-> Nobody, meta |-> Nobody]

NotDoing == [call |-> NoCall, by |-> Nobody, code |-> ""]

\* ids: which messages so far have an id; last: the newest one; doing: the call
\* the API has carried out and not yet recorded and answered; changed: the
\* messages that changed an entry.
NoPost == [open |-> FALSE, readonly |-> FALSE, may |-> "read", headers |-> Nobody,
           ids |-> <<>>, last |-> NoCall, out |-> <<>>, doing |-> NotDoing, changed |-> {}]

Init == entry = [k \in Keys |-> <<>>] /\ post = NoPost /\ log = <<>>

-----------------------------------------------------------------------------
(* tools/list *)

WriteTools == {"kyb_add", "kyb_incident", "kyb_resolve", "kyb_task", "kyb_task_status", "kyb_done"}

DeadlineArgs == {"due", "hard", "remind_days", "waits_on", "expected"}
Schema(required, optional) == [required |-> required, properties |-> required \union optional]

ReadTools == {"kyb_query", "kyb_get", "kyb_history", "kyb_diff", "kyb_tags", "kyb_health",
              "kyb_incidents", "kyb_tasks", "kyb_deadlines", "kyb_brief"}

\* tools: what each tool says it takes.
Schemas == [tool \in ReadTools \union WriteTools |->
    CASE tool = "kyb_query" -> Schema({"q"}, {"tag", "kind", "status", "service", "priority", "assignee",
            "parent_task", "history", "semantic", "recent", "limit", "as_of", "changed_between", "deadlines"})
      [] tool = "kyb_get" -> Schema({"key"}, {"at", "deadlines"})
      [] tool = "kyb_history" -> Schema({"key"}, {})
      [] tool = "kyb_diff" -> Schema({"key"}, {"from", "to"})
      [] tool \in {"kyb_tags", "kyb_health"} -> Schema({}, {})
      [] tool = "kyb_incidents" -> Schema({}, {"status", "service", "limit", "followups", "all", "deadlines"})
      [] tool = "kyb_tasks" -> Schema({}, {"status", "priority", "assignee", "parent_task", "limit",
            "followups", "all", "deadlines"})
      [] tool = "kyb_deadlines" -> Schema({}, {"within", "overdue", "hard", "tag", "assignee"})
      [] tool = "kyb_brief" -> Schema({}, {"tag", "service", "since", "limit"})
      [] tool = "kyb_add" -> Schema({"key", "title", "body"}, {"tags", "refs"})
      [] tool = "kyb_incident" -> Schema({"key", "title", "service", "severity", "body"},
            {"hosts", "knowledge", "tags", "refs", "status", "detection", "affected", "started_at",
             "detected_at", "resolution"})
      [] tool \in {"kyb_resolve", "kyb_done"} -> Schema({"key", "resolution"}, {"status"})
      [] tool = "kyb_task" -> Schema({"key", "title", "body"}, {"status", "priority", "blocked_reason",
            "assignee", "parent_task", "resolution", "knowledge", "tags", "refs"} \union DeadlineArgs)
      [] tool = "kyb_task_status" -> Schema({"key"}, {"status", "assignee", "parent_task",
            "blocked_reason"} \union DeadlineArgs)]

\* Mutant: a read-only client is offered every tool.
ListedAll(readonly) == DOMAIN Schemas

\* What a client is offered.
Listed(readonly) == IF readonly THEN DOMAIN Schemas \ WriteTools ELSE DOMAIN Schemas

-----------------------------------------------------------------------------
(* Who is calling *)

\* The value of a field in the first of some of the sources that names one.
FirstNamed(sources, some, field) ==
    LET named == {i \in some : sources[i][field] # Empty}
    IN IF named = {} THEN Empty ELSE sources[Min(named)][field]

\* Mutant: a session is taken from whoever names one.
SessionOfAny(sources, agent) == FirstNamed(sources, DOMAIN sources, "session")

\* The session of the source that names the agent or, if that names none, of
\* the first that does and names no other agent.
SessionOf(sources, agent) ==
    LET theirs == {i \in DOMAIN sources : sources[i].agent \in {Empty, agent}}
        naming == {i \in theirs : sources[i].agent = agent /\ \A j \in 1 .. i - 1 : sources[j].agent = Empty}
        own == FirstNamed(sources, naming, "session")
    IN IF own # Empty THEN own ELSE FirstNamed(sources, theirs, "session")

\* attribution, of the hook's _ctx, the client's _meta and the headers.
Attribution(sources) ==
    LET agent == FirstNamed(sources, DOMAIN sources, "agent")
    IN [agent |-> agent, session |-> SessionOf(sources, agent),
        workspace |-> FirstNamed(sources, DOMAIN sources, "workspace")]

-----------------------------------------------------------------------------
(* plan: a tool call as a request *)

Route(method, path, required) == [method |-> method, path |-> path, required |-> required]
NoRoute == Route("none", "", {})

RouteOf(tool) ==
    CASE tool = "kyb_query" -> Route("GET", "/search", {"q"})
      [] tool = "kyb_get" -> Route("GET", "/knowledge/{key}", {"key"})
      [] tool = "kyb_diff" -> Route("GET", "/knowledge/{key}/diff", {"key"})
      [] tool = "kyb_history" -> Route("GET", "/knowledge/{key}/history", {"key"})
      [] tool = "kyb_tags" -> Route("GET", "/tags", {})
      [] tool = "kyb_health" -> Route("GET", "/healthz", {})
      [] tool = "kyb_incidents" -> Route("GET", "/incidents", {})
      [] tool = "kyb_tasks" -> Route("GET", "/tasks", {})
      [] tool = "kyb_deadlines" -> Route("GET", "/deadlines", {})
      [] tool = "kyb_brief" -> Route("GET", "/brief", {})
      [] tool = "kyb_add" -> Route("POST", "/knowledge", {"key", "title", "body"})
      [] tool = "kyb_incident" -> Route("POST", "/incidents", {"key", "title", "service", "severity", "body"})
      [] tool = "kyb_resolve" -> Route("POST", "/incidents/{key}/resolve", {"key", "resolution"})
      [] tool = "kyb_task" -> Route("POST", "/tasks", {"key", "title", "body"})
      [] tool = "kyb_task_status" -> Route("POST", "/tasks/{key}/transition", {"key"})
      [] tool = "kyb_done" -> Route("POST", "/tasks/{key}/resolve", {"key", "resolution"})
      [] OTHER -> NoRoute

\* text_arg: whether there is a text.
Texts(a) == {f \in DOMAIN a : a[f] \notin {Null, Empty, Odd}}

\* Mutant: a null names a field.
NamedByNull(a) == DOMAIN a

\* A null is a field left out.
Named(a) == {f \in DOMAIN a : a[f] # Null}

\* The fields that travel.
Sent(tool, a) ==
    CASE tool = "kyb_add" -> {"tags"}
      [] tool = "kyb_incident" -> {"status", "resolution"} \union (Named(a) \intersect {"tags"})
      [] tool = "kyb_task" ->
            {"status", "assignee", "resolution"} \union (Named(a) \intersect {"tags", "due"})
      [] tool = "kyb_task_status" ->
            (Texts(a) \intersect {"status"}) \union (Named(a) \intersect {"due", "assignee"})
      [] tool \in {"kyb_resolve", "kyb_done"} -> {"status", "resolution"}
      [] OTHER -> {}

Default(tool, f) ==
    IF f # "status" THEN Empty
    ELSE IF tool = "kyb_resolve" THEN "resolved" ELSE IF tool = "kyb_done" THEN "done" ELSE "open"

\* list_arg, text_arg; a transition passes the assignee on as it is.
Body(tool, a) ==
    [f \in Sent(tool, a) |->
        IF f \in Texts(a) THEN a[f]
        ELSE IF tool = "kyb_task_status" /\ f = "assignee" THEN a[f] ELSE Default(tool, f)]

Unplanned(c) ==
    LET required == RouteOf(c.tool).required IN
    IF RouteOf(c.tool) = NoRoute THEN "no such tool"
    ELSE IF \/ ~(required \ {"key"} \subseteq Texts(c.args))
            \/ "key" \in required /\ c.key = Null
    THEN "missing argument"
    ELSE IF c.tool \in {"kyb_task", "kyb_task_status"} /\ "due" \in Named(c.args) /\ c.args["due"] = Odd
    THEN "bad argument" ELSE "planned"

-----------------------------------------------------------------------------
(* The API *)

Live == {"open", "blocked", "mitigated"}
StatusesOf(kind) == IF kind = "task" THEN {"open", "blocked", "done"} ELSE {"open", "mitigated", "resolved"}

Blank == [status |-> Empty, tags |-> Empty, due |-> Empty, assignee |-> Empty]
StoredOf(k) == IF entry[k] = <<>> THEN Blank ELSE entry[k]

\* What a body makes of what is stored: an upsert of a note is the whole note,
\* one of an incident or a task keeps tags and deadline, a transition and a
\* closing keep whatever they do not name.
Written(k, body) ==
    [f \in DOMAIN Blank |-> IF f \in DOMAIN body /\ body[f] # Null THEN body[f] ELSE StoredOf(k)[f]]

\* The routes' checks and Entry::validate.
Accepts(path, k, body) ==
    /\ path = "/knowledge" => KindOf(k) = "knowledge"
    /\ path \in {"/incidents", "/incidents/{key}/resolve"} => KindOf(k) = "incident"
    /\ path \in {"/tasks", "/tasks/{key}/transition", "/tasks/{key}/resolve"} => KindOf(k) = "task"
    /\ path \in {"/incidents/{key}/resolve", "/tasks/{key}/resolve", "/tasks/{key}/transition"} => entry[k] # <<>>
    /\ path = "/tasks/{key}/transition" =>
         /\ DOMAIN body # {}
         /\ IF "status" \in DOMAIN body THEN body["status"] \in Live ELSE StoredOf(k).status \in Live
         /\ "assignee" \in DOMAIN body => body["assignee"] # Odd
    /\ "status" \in DOMAIN body => body["status"] \in StatusesOf(KindOf(k))
    /\ "status" \in DOMAIN body /\ body["status"] \notin Live => body["resolution"] # Empty

Exists(k) == k \in Keys /\ entry[k] # <<>>

\* need: everybody may ask for healthz, reading needs the read role.
May(role, method, path) ==
    path = "/healthz" \/ role = "write" \/ (role = "read" /\ method = "GET")

\* audit_mw: the polling routes are not recorded.
IsPolling(method, path) ==
    method = "GET" /\ path \in {"/healthz", "/tags", "/incidents", "/tasks", "/deadlines"}

\* The number of the message being dealt with.
Number == Len(post.ids) + 1

More == post.open /\ post.doing = NotDoing /\ Len(post.ids) < MaxBatch

Answered(c, what) ==
    [post EXCEPT !.ids = Append(@, TRUE), !.last = c, !.out = Append(@, [id |-> Number, what |-> what]),
                 !.doing = NotDoing]

\* forward: the one request a call becomes, with the caller's token and
\* attribution, as the handler of its route carries it out.  A refused caller
\* is recorded without them.
Forward(c, by) ==
    LET r == RouteOf(c.tool)
        body == Body(c.tool, c.args)
        code == IF ~May(post.may, r.method, r.path) THEN "forbidden"
                ELSE IF r.method = "POST" THEN IF Accepts(r.path, c.key, body) THEN "ok" ELSE "refused"
                ELSE IF "key" \in r.required /\ ~Exists(c.key) THEN "refused" ELSE "ok"
    IN /\ entry' = IF r.method = "POST" /\ code = "ok" THEN [entry EXCEPT ![c.key] = Written(c.key, body)] ELSE entry
       /\ post' = [post EXCEPT !.doing = [call |-> c, by |-> IF code = "forbidden" THEN Nobody ELSE by, code |-> code],
                               !.changed = IF entry' = entry THEN @ ELSE @ \union {Number}]
       /\ UNCHANGED log

\* audit_mw: when the handler has answered, its line is written, and the answer
\* goes back to the call.
Finish ==
    /\ post.doing # NotDoing
    /\ LET d == post.doing
           r == RouteOf(d.call.tool)
       IN /\ post' = Answered(d.call, d.code)
          /\ log' = IF IsPolling(r.method, r.path) THEN log ELSE Append(log, [n |-> Number, by |-> d.by])
    /\ UNCHANGED entry

-----------------------------------------------------------------------------
(* Messages *)

\* mcp_post: one message or a batch, with a token and attribution headers, to
\* the endpoint or its read-only form.
Post(readonly, may, h) ==
    /\ ~post.open
    /\ post' = [NoPost EXCEPT !.open = TRUE, !.readonly = readonly, !.may = may, !.headers = h]
    /\ UNCHANGED <<entry, log>>

\* Mutant: a call without an id is carried out like the rest, and not answered.
NotifyDone ==
    /\ More
    /\ post' = [post EXCEPT !.ids = Append(@, FALSE), !.last = NoCall]
    /\ UNCHANGED log
    /\ \E c \in Calls :
         /\ Unplanned(c) = "planned" /\ RouteOf(c.tool).method = "POST"
         /\ Accepts(RouteOf(c.tool).path, c.key, Body(c.tool, c.args))
         /\ entry' = [entry EXCEPT ![c.key] = Written(c.key, Body(c.tool, c.args))]

\* handle_one: a message without an id, whatever it asks for, is a
\* notification: neither answered nor carried out.
Notify ==
    /\ More
    /\ post' = [post EXCEPT !.ids = Append(@, FALSE), !.last = NoCall]
    /\ UNCHANGED <<entry, log>>

\* initialize, ping, tools/list and what is none of these.
Simple(method) ==
    /\ More
    /\ post' = Answered(NoCall, IF method = "other" THEN "no such method" ELSE method)
    /\ UNCHANGED <<entry, log>>

\* call_tool
Call(c) ==
    /\ More
    /\ IF post.readonly /\ c.tool \in WriteTools
       THEN post' = Answered(c, "read-only") /\ UNCHANGED <<entry, log>>
       ELSE IF Unplanned(c) # "planned"
       THEN post' = Answered(c, Unplanned(c)) /\ UNCHANGED <<entry, log>>
       ELSE Forward(c, Attribution(<<c.ctx, c.meta, post.headers>>))

\* The answers go out in the order of the messages; 202 if there are none.
Reply == post.open /\ post.doing = NotDoing /\ post' = NoPost /\ log' = <<>> /\ UNCHANGED entry

\* The request is dropped where a write waits after its commit (finish_upsert):
\* neither the line nor an answer is written.  Dropped elsewhere, waiting for
\* the writer lock or in a search, it is as if the batch had ended before the
\* message.
HangUp == Number \in post.changed /\ post' = NoPost /\ log' = <<>> /\ UNCHANGED entry

Next ==
    \/ \E d \in Doors, h \in Headers : Post(d.readonly, d.may, h)
    \/ Notify \/ (\E c \in Calls : Call(c)) \/ Finish
    \/ \E method \in {"initialize", "ping", "tools/list", "other"} : Simple(method)
    \/ Reply \/ HangUp

Spec == Init /\ [][Next]_vars

-----------------------------------------------------------------------------
(* Properties *)

\* What was asked for comes back once each and in order, notifications aside;
\* every call that reached the API and is no polling is in the audit log once by
\* the time it is answered, so that nothing an answered request changed is
\* missing there; and a session in it was named by a source that speaks of the
\* recorded agent, or of none (mcp_post, attribution, audit_mw).
AnsweredAndLogged ==
    LET c == post.last
        n == Len(post.ids)
        forwarded == post.out # <<>> /\ Last(post.out).id = n /\ Last(post.out).what \in {"ok", "refused", "forbidden"}
        logged == log # <<>> /\ Last(log).n = n
    IN /\ {post.out[i].id : i \in DOMAIN post.out} = {i \in DOMAIN post.ids : post.ids[i]}
       /\ \A i \in 1 .. Len(post.out) - 1 : post.out[i].id < post.out[i + 1].id
       /\ \A i \in 1 .. Len(log) - 1 : log[i].n < log[i + 1].n
       /\ logged <=> forwarded /\ ~IsPolling(RouteOf(c.tool).method, RouteOf(c.tool).path)
       /\ post.changed \subseteq {log[i].n : i \in DOMAIN log} \union (IF post.doing = NotDoing THEN {} ELSE {Number})
       /\ logged /\ Last(log).by.session # Empty =>
            \E s \in {c.ctx, c.meta, post.headers} :
              s.session = Last(log).by.session /\ s.agent \in {Empty, Last(log).by.agent}

\* A tool that was listed, called with the arguments its schema requires, is
\* never unknown, refused as a write or found to lack an argument; one that is
\* not listed is never carried out (tools: "the advertised surface and the
\* real surface cannot disagree").
ListedToolsWork ==
    LET c == post.last
        answers == {post.out[i].what : i \in {j \in DOMAIN post.out : post.out[j].id = Len(post.ids)}}
    IN c # NoCall =>
         IF c.tool \in Listed(post.readonly)
         THEN Schemas[c.tool].required \subseteq Texts(c.args) \union (IF c.key = Null THEN {} ELSE {"key"})
                => answers \intersect {"no such tool", "missing argument", "read-only"} = {}
         ELSE answers \subseteq {"no such tool", "read-only"}

\* A client may rely on the list and on the answers: the two above.
ToolsAnswer == AnsweredAndLogged /\ ListedToolsWork

\* A call changes one entry at most, only for a caller with the write role who
\* is not read-only and is told so, and leaves what it does not name: tags
\* and date in any write of an incident or a task, the assignee too in a
\* transition (plan: "a null that cleared would wipe a deadline on an ordinary
\* rewrite").
ChangesAreNamed ==
    [][entry' # entry =>
         LET c == post'.doing.call
             k == c.key
         IN /\ ~post.readonly /\ post.may = "write" /\ post'.doing.code = "ok"
            /\ \A j \in Keys \ {k} : entry'[j] = entry[j]
            /\ \A f \in {"tags", "due", "assignee"} :
                 entry'[k][f] # StoredOf(k)[f] =>
                   \/ f \in DOMAIN c.args /\ c.args[f] # Null
                   \/ f = "tags" /\ KindOf(k) = "knowledge"
                   \/ f = "assignee" /\ c.tool = "kyb_task"]_vars
=============================================================================
