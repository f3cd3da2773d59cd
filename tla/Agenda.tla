-------------------------------- MODULE Agenda --------------------------------
(* Deadlines: what a task says of its date, how a write changes that, and    *)
(* what the reminders make of it (src/src/deadline.rs): the block on every   *)
(* read and the listing (deadline_api.rs), the section of the brief          *)
(* (brief_api.rs).                                                           *)
(*                                                                           *)
(* Time is counted in parts of a day, DayLen of them; a zone is an offset in *)
(* such parts, and the date of an instant is its day in a zone.  A caller    *)
(* brings a date of its own, `today`.                                        *)
EXTENDS Integers, FiniteSets

CONSTANTS Keys,         \* task keys, in byte order
          Area,         \* the tasks that carry a tag some callers ask for
          Zones,        \* offsets from UTC
          DayLen,
          Horizon,      \* bound: the clock stops here
          Whens,        \* dates and instants a request may name
          Patches,      \* what requests say of a deadline
          RemindDays, RemindDaysHard, RemindDaysMax, ThisWeekDays, BlockCap,
          Keep,         \* a field the request does not name
          None,         \* no date; no reminder window of its own
          Garbage       \* what is no date

AgendaAssumption ==
    /\ Keys \subseteq Nat /\ IsFiniteSet(Keys) /\ Area \subseteq Keys
    /\ DayLen \in Nat \ {0} /\ Horizon \in Nat /\ BlockCap \in Nat \ {0}
    /\ RemindDays \in Nat /\ RemindDaysHard \in Nat /\ RemindDaysMax \in Nat /\ ThisWeekDays \in Nat
    /\ \A z \in Zones : z \in Int /\ z >= -DayLen /\ z <= DayLen
    /\ Whens \subseteq [kind : {"day", "at"}, at : Nat, zone : Zones \union {0}]
    /\ Keep # None /\ Garbage # None /\ Keep # Garbage /\ {Keep, None, Garbage} \intersect Whens = {}
    /\ {Keep, None} \intersect (Nat \union BOOLEAN) = {}
    /\ \A p \in Patches :
         /\ p.due \in Whens \union {Keep, None, Garbage} /\ p.expected \in Whens \union {Keep, None, Garbage}
         /\ p.hard \in BOOLEAN \union {Keep} /\ p.event \in BOOLEAN \union {Keep}
         /\ p.remind \in Nat \union {Keep, None}

VARIABLES now,    \* the clock of the server
          tasks   \* each task: whether it is live, and its deadline

vars == <<now, tasks>>

NoDeadline == [due |-> None, expected |-> None, hard |-> FALSE, remind |-> None, event |-> FALSE]

Init == now = DayLen /\ tasks = [k \in Keys |-> [live |-> FALSE, deadline |-> NoDeadline]]

-----------------------------------------------------------------------------
(* What a write makes of a deadline *)

Given(field, old) == IF field = Keep THEN old ELSE field

\* Mutant: what described a deadline stays behind when its date goes.
ApplyInPart(p, d) ==
    [due |-> Given(p.due, d.due), expected |-> Given(p.expected, d.expected),
     hard |-> Given(p.hard, d.hard), remind |-> Given(p.remind, d.remind),
     event |-> Given(p.event, d.event)]

\* DeadlinePatch::apply: named fields are set; without a date the rest of the
\* deadline goes with it, but for what this request names.
Apply(p, d) ==
    LET undated == Given(p.due, d.due) = None /\ Given(p.expected, d.expected) = None
        kept(old, empty) == IF undated THEN empty ELSE old
    IN [due |-> Given(p.due, d.due), expected |-> Given(p.expected, d.expected),
        hard |-> Given(p.hard, kept(d.hard, FALSE)),
        remind |-> Given(p.remind, kept(d.remind, None)),
        event |-> Given(p.event, kept(d.event, FALSE))]

\* Deadline::validate
Valid(d) ==
    \/ d = NoDeadline
    \/ /\ d.due # Garbage /\ d.expected # Garbage
       /\ d.due # None \/ d.expected # None
       /\ d.remind # None => d.remind <= RemindDaysMax

\* upsert_task and transition_task: what is not valid is refused.
Write(k, p) ==
    /\ Valid(Apply(p, tasks[k].deadline))
    /\ tasks' = [tasks EXCEPT ![k] = [live |-> TRUE, deadline |-> Apply(p, @.deadline)]]
    /\ UNCHANGED now

\* close_entry, or DELETE: the deadline stays in the record.
Close(k) ==
    /\ tasks[k].live
    /\ tasks' = [tasks EXCEPT ![k] = [live |-> FALSE, deadline |-> @.deadline]]
    /\ UNCHANGED now

Tick == now < Horizon /\ now' = now + 1 /\ UNCHANGED tasks

-----------------------------------------------------------------------------
(* What a caller is told *)

\* Clock: the server's instant and the caller's date.
Clock(today) == [now |-> now, today |-> today]
DateIn(t, z) == (t + z) \div DayLen
Here(z) == Clock(DateIn(now, z))

\* Deadline::effective, and whether it is provisional.
Effective(d) == IF d.due # None THEN d.due ELSE d.expected
Provisional(d) == d.due = None

\* Deadline::window
Remind(d) == IF d.remind # None THEN d.remind ELSE IF d.hard THEN RemindDaysHard ELSE RemindDays

DayOf(w) == IF w.kind = "day" THEN w.at ELSE DateIn(w.at, w.zone)

\* A today that is the date somewhere on Earth; any other is a question about
\* that day, which the calendar alone answers.
Present(c) == c.today - DateIn(c.now, 0) \in -1 .. 1

\* Mutant: the instant speaks only to a caller whose date is that of UTC.
OverdueUtc(w, c) ==
    c.today > DayOf(w) \/ (w.kind = "at" /\ c.today = DateIn(c.now, 0) /\ c.now > w.at)

Overdue(w, c) == c.today > DayOf(w) \/ (w.kind = "at" /\ Present(c) /\ c.now > w.at)

\* deadline::item
Item(k, c) ==
    LET d == tasks[k].deadline
        w == Effective(d)
        days == DayOf(w) - c.today
    IN [key |-> k, overdue |-> Overdue(w, c), hard |-> d.hard, provisional |-> Provisional(d),
        event |-> Provisional(d) /\ d.event, remind |-> Remind(d),
        days |-> IF Overdue(w, c) /\ days > 0 THEN 0 ELSE days]

\* open_items: the live tasks that have a date.
Items(c) == {Item(k, c) : k \in {j \in Keys : tasks[j].live /\ Effective(tasks[j].deadline) # None}}

\* Item::surfaced, Item::bucket, Item::in_scope
Surfaced(i) == i.overdue \/ i.days <= i.remind
Bucket(i) == IF i.overdue THEN 1 ELSE IF i.days <= ThisWeekDays THEN 2 ELSE 3
InScope(i, scoped) == scoped => i.key \in Area

Before(a, b) == a.days < b.days \/ (a.days = b.days /\ a.key < b.key)

\* Mutant: hard deadlines come first, late or not.
PrecedesHardFirst(a, b, scoped) ==
    IF a.hard # b.hard THEN a.hard
    ELSE IF a.overdue # b.overdue THEN a.overdue
    ELSE IF InScope(a, scoped) # InScope(b, scoped) THEN InScope(a, scoped)
    ELSE Before(a, b)

\* deadline::sort, and the caller's area first among its own kind.
Precedes(a, b, scoped) ==
    IF a.overdue # b.overdue THEN a.overdue
    ELSE IF InScope(a, scoped) # InScope(b, scoped) THEN InScope(a, scoped)
    ELSE IF a.hard # b.hard THEN a.hard
    ELSE Before(a, b)

\* deadline::block, uncut; the first n of such rows.
Due(c) == {i \in Items(c) : Surfaced(i)}
First(rows, scoped, n) == {i \in rows : Cardinality({j \in rows : Precedes(j, i, scoped)}) < n}
Block(c, scoped) == First(Due(c), scoped, BlockCap)

\* The brief's section: tasks of the area alone when one is named; the block
\* has its cap before the brief cuts it to the limit.
BriefBlock(c, scoped, limit) ==
    First(First({i \in Due(c) : InScope(i, scoped)}, FALSE, BlockCap), FALSE, limit)

\* GET /deadlines: within a number of days, late ones only, hard ones only.
Rows(c, within, late, hard, scoped) ==
    {i \in Items(c) : /\ i.overdue \/ i.days <= within
                      /\ (late => i.overdue) /\ (hard => i.hard) /\ InScope(i, scoped)}

\* The calendar, soonest first: the place of each row.
Sooner(a, b) ==
    IF a.days # b.days THEN a.days < b.days
    ELSE IF a.overdue # b.overdue THEN a.overdue
    ELSE IF a.hard # b.hard THEN a.hard
    ELSE a.key < b.key
Listing(rows) == [i \in rows |-> 1 + Cardinality({j \in rows : Sooner(j, i)})]

-----------------------------------------------------------------------------
Next == Tick \/ \E k \in Keys : Close(k) \/ \E p \in Patches : Write(k, p)

Spec == Init /\ [][Next]_vars

-----------------------------------------------------------------------------
(* Properties *)

Dates == 0 .. (Horizon \div DayLen + 1)

\* A moment that has passed is late, on the calendar of every caller who lives
\* in the present, and no days to it are left standing (deadline.rs item).
PassedIsLate ==
    \A z \in Zones : \A i \in Items(Here(z)) :
        LET w == Effective(tasks[i.key].deadline)
        IN /\ w.kind = "at" /\ now > w.at => i.overdue
           /\ i.overdue => i.days <= 0
           /\ i.days < 0 => i.overdue

\* Whatever today a caller sends and whatever area it asks for, no late task is
\* left out of the block or the brief while one that is not late is in (block).
BlockHidesNoLate ==
    \A today \in Dates, scoped \in BOOLEAN :
        LET c == Clock(today)
            late(shown, among) == (\E i \in among : i.overdue /\ i \notin shown) => \A i \in shown : i.overdue
        IN /\ late(Block(c, scoped), Items(c))
           /\ \A n \in 1 .. BlockCap + 1 :
                late(BriefBlock(c, scoped, n), {i \in Items(c) : InScope(i, scoped)})

\* The listing falls into its groups in order: late, this week, later (list).
BucketsInOrder ==
    \A today \in Dates, hard \in BOOLEAN :
        LET s == Listing(Rows(Clock(today), Horizon, FALSE, hard, FALSE))
        IN \A a, b \in DOMAIN s : s[a] < s[b] => Bucket(a) <= Bucket(b)

LateIsTold == PassedIsLate /\ BlockHidesNoLate /\ BucketsInOrder

Clearing == [due |-> None, expected |-> None, hard |-> Keep, remind |-> Keep, event |-> Keep]

\* Clearing the dates is accepted whatever else the deadline says, and leaves
\* nothing of it; and a deadline that is kept always has a date to remind of
\* (deadline.rs apply, validate).
DeadlineGoesWhole ==
    \A k \in Keys : LET d == tasks[k].deadline IN
        /\ Apply(Clearing, d) = NoDeadline
        /\ d # NoDeadline => Effective(d) \in Whens

\* Time alone never takes a reminder back: on the calendar of a caller in any
\* zone what was late stays late, what was near stays near, and the days left
\* never grow (deadline.rs item).
LateStaysLate ==
    [][now' # now => \A z \in Zones : \A i \in Items(Here(z)) : \E j \in Items(Here(z))' :
          /\ j.key = i.key /\ j.days <= i.days
          /\ (i.overdue => j.overdue) /\ (Surfaced(i) => Surfaced(j))]_vars
=============================================================================
