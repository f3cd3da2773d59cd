--------------------------------- MODULE Rules --------------------------------
(* What readers and writers are promised, of four modules that share no state; *)
(* a behaviour is one of: reads while commits may fail (Reads), deadlines and  *)
(* reminders (Agenda), stamps, tallies and links (Board), tool calls (Mcp).    *)
EXTENDS Reads, Integers

CONSTANTS DatedKeys, Area, Zones, DayLen, Horizon, Whens, Patches,             \* Agenda
          RemindDays, RemindDaysHard, RemindDaysMax, ThisWeekDays, BlockCap, Keep, None, Garbage,
          Incidents, TaskKeys, Notes, Filings, Moves, BoardWrites,             \* Board
          McpKeys, Calls, Doors, Headers, MaxBatch                             \* Mcp

VARIABLES part,
          now, tasks,           \* Agenda
          stored, files, time,  \* Board
          entry, post, log      \* Mcp

agendaVars == <<now, tasks>>
boardVars == <<stored, files, time>>
mcpVars == <<entry, post, log>>

A == INSTANCE Agenda WITH Keys <- DatedKeys
B == INSTANCE Board WITH MaxWrites <- BoardWrites, tree <- files, now <- time
M == INSTANCE Mcp WITH Keys <- McpKeys

ASSUME RulesAssumption == A!AgendaAssumption /\ B!BoardAssumption /\ M!McpAssumption

RulesInit == part \in {"reads", "agenda", "board", "mcp"} /\ Init /\ A!Init /\ B!Init /\ M!Init

RulesNext ==
    /\ UNCHANGED part
    /\ \/ part = "reads" /\ Next /\ UNCHANGED <<agendaVars, boardVars, mcpVars>>
       \/ part = "agenda" /\ A!Next /\ UNCHANGED <<vars, boardVars, mcpVars>>
       \/ part = "board" /\ B!Next /\ UNCHANGED <<vars, agendaVars, mcpVars>>
       \/ part = "mcp" /\ M!Next /\ UNCHANGED <<vars, agendaVars, boardVars>>

rulesVars == <<part, vars, agendaVars, boardVars, mcpVars>>

RulesSpec == RulesInit /\ [][RulesNext]_rulesVars

-----------------------------------------------------------------------------
(* Properties *)

\* Agenda: no late task is left out of a block or a brief for one that is not
\* late, whatever the caller's calendar and area; and clearing the dates clears
\* the deadline, while one that is kept has a date (deadline.rs item, block,
\* list, apply, validate).
RemindersHold == part = "agenda" => A!LateIsTold /\ A!DeadlineGoesWhole

\* Agenda: time alone never takes a reminder back (deadline.rs item).
LateStaysLate == A!LateStaysLate

\* Board: the listings, the brief, the links and the tallies agree on what is
\* open, what it touches and what is gravest (links.rs, brief.rs, list_kind).
ViewsAgree == part = "board" => B!ViewsAgree

\* Board: a stamp once set in the timeline of an entry stands (stamp_timeline).
StampsStand == B!StampsStand

\* Mcp: every message with an id is answered once, every change is logged before
\* it is answered, and a listed tool called with what its schema requires is not
\* refused (mcp.rs, audit_mw).
ToolsAnswer == M!ToolsAnswer

\* Mcp: a tool call changes nothing that it does not name, and nothing for a
\* caller who may not write (mcp.rs).
ChangesAreNamed == M!ChangesAreNamed
=============================================================================
