-------------------------------- MODULE AuthBook ------------------------------
(* Who may do what: src/src/auth.rs.  The book of principals is a file that *)
(* commands (kyb-server auth ...) change on the machine that holds it, and  *)
(* that the server reads through a copy keyed by the file's time.           *)
(*                                                                          *)
(* A command reads, changes and renames under an advisory lock; a request   *)
(* looks at the time of the file, then at the copy, then perhaps reads the  *)
(* file and replaces the copy, while other requests do the same.  Nothing   *)
(* orders a request against a command.                                      *)
EXTENDS Naturals

CONSTANTS Ids,         \* ids of principals
          Tokens,      \* what new_token may draw; never twice
          Start,       \* the book before the server and the commands start
          Stamps,      \* what a clock may stamp a file with
          Never,       \* the time of a file that is not there
          Commands,    \* commands running at once
          Requests,    \* requests being decided at once
          Nobody,      \* no principal; no holder of the lock; no token
          Mode,        \* KYB_AUTH
          Anon,        \* KYB_ANON: "read" or "none"
          Orders,      \* what commands are run
          MaxCommands, \* bound: commands
          ReadsFail    \* whether reading the book may fail

Roles == {"none", "read", "write", "admin"}
Rank(role) == CASE role = "none" -> 0 [] role = "read" -> 1
                [] role = "write" -> 2 [] role = "admin" -> 3

\* What need() asks for the routes, and "retract", DELETE of knowledge, which
\* takes another role than the route.  "page" is /, "open" the others that ask
\* nothing.
Needs == {"page", "open", "read", "write", "admin", "retract"}

Ops == [op : {"add"}, id : Ids, role : Roles \ {"none"}] \union [op : {"token", "revoke_id"}, id : Ids]
         \union [op : {"revoke_token"}, token : Tokens]

\* role: of each principal, "none" if there is no such.
Books == [role : [Ids -> Roles], gone : SUBSET Ids,
          owner : [Tokens -> Ids \union {Nobody}], dead : SUBSET Tokens]
NoBook == [role |-> [i \in Ids |-> "none"], gone |-> {},
           owner |-> [t \in Tokens |-> Nobody], dead |-> {}]

ASSUME AuthAssumption ==
    /\ Start \in Books
    /\ Nobody \notin Ids \union Tokens \union Commands
    /\ Never \notin Stamps
    /\ Mode \in {"off", "compat", "required"} /\ Anon \in {"none", "read"}
    /\ Orders \subseteq Ops
    /\ MaxCommands \in Nat /\ ReadsFail \in BOOLEAN

VARIABLES
    book,   \* the book as the file has it
    mtime,  \* the file's time
    lock,   \* holder of the advisory lock on the sibling file
    cmd,    \* each command: its step, what it does, the book it loaded, its stamp
    begun,  \* commands begun so far
    copy,   \* Auth.book: the time and the book it holds
    req,    \* each request: its step, token, need, the time and book it took
    minted, \* history: tokens drawn
    saved,  \* history: the book saved with each stamp
    since   \* history: the book on file when each request began

cmdVars == <<lock, cmd, begun, minted>>
fileVars == <<book, mtime, saved>>
reqVars == <<copy, req, since>>
vars == <<book, mtime, lock, cmd, begun, copy, req, minted, saved, since>>

NoCommand == [pc |-> "idle", op |-> [op |-> "list"], mem |-> NoBook]
NoRequest == [pc |-> "idle", token |-> Nobody, tag |-> Never, view |-> NoBook, blind |-> FALSE]

Init ==
    /\ book = Start /\ lock = Nobody
    /\ IF Start = NoBook THEN mtime = Never ELSE mtime \in Stamps
    /\ cmd = [c \in Commands |-> NoCommand] /\ begun = 0
    /\ copy = [tag |-> Never, book |-> NoBook]
    /\ req = [r \in Requests |-> NoRequest]
    /\ minted = {t \in Tokens : Start.owner[t] # Nobody}
    /\ saved = [s \in Stamps \union {Never} |->
                 (IF s = Never THEN {NoBook} ELSE {}) \union (IF s = mtime THEN {Start} ELSE {})]
    /\ since = [r \in Requests |-> NoBook]

-----------------------------------------------------------------------------
(* Commands *)

\* add, issue, revoke_token, revoke_principal: what each asks of the book ...
Accepts(b, o) ==
    CASE o.op = "add" -> b.role[o.id] = "none"
      [] o.op \in {"token", "revoke_id"} -> b.role[o.id] # "none" /\ o.id \notin b.gone
      [] o.op = "revoke_token" -> b.owner[o.token] # Nobody /\ o.token \notin b.dead

\* ... and makes of it, with a new token.
Changed(b, o, new) ==
    CASE o.op = "add" -> [b EXCEPT !.role[o.id] = o.role, !.owner[new] = o.id]
      [] o.op = "token" -> [b EXCEPT !.owner[new] = o.id]
      [] o.op = "revoke_token" -> [b EXCEPT !.dead = @ \union {o.token}]
      [] o.op = "revoke_id" -> [b EXCEPT !.gone = @ \union {o.id},
                                         !.dead = @ \union {t \in Tokens : b.owner[t] = o.id}]

RunCommand(c, o) ==
    /\ cmd[c].pc = "idle" /\ begun < MaxCommands
    /\ cmd' = [cmd EXCEPT ![c] = [NoCommand EXCEPT !.pc = "lock", !.op = o]]
    /\ begun' = begun + 1
    /\ UNCHANGED <<lock, minted, fileVars, reqVars>>

\* Mutant: the book is changed without the lock.
TakeUnlocked(c) ==
    /\ cmd[c].pc = "lock"
    /\ cmd' = [cmd EXCEPT ![c].pc = "load"]
    /\ UNCHANGED <<lock, begun, minted, fileVars, reqVars>>

TakeLock(c) ==
    /\ cmd[c].pc = "lock" /\ lock = Nobody
    /\ lock' = c
    /\ cmd' = [cmd EXCEPT ![c].pc = "load"]
    /\ UNCHANGED <<begun, minted, fileVars, reqVars>>

\* Book::load, and the change is made or refused in memory.
LoadBook(c) ==
    /\ cmd[c].pc = "load" /\ Accepts(book, cmd[c].op)
    /\ \E t \in IF cmd[c].op.op \in {"add", "token"} THEN Tokens \ minted ELSE {Nobody} :
         /\ cmd' = [cmd EXCEPT ![c].pc = "save", ![c].mem = Changed(book, cmd[c].op, t)]
         /\ minted' = minted \union ({t} \ {Nobody})
    /\ UNCHANGED <<lock, begun, fileVars, reqVars>>

\* The command is refused or fails - reading, writing or renaming - or dies.
\* Whichever it is, the system releases the lock.
EndCommand(c) ==
    /\ cmd[c].pc # "idle"
    /\ cmd' = [cmd EXCEPT ![c] = NoCommand]
    /\ lock' = IF lock = c THEN Nobody ELSE lock
    /\ UNCHANGED <<begun, minted, fileVars, reqVars>>

\* Book::save: a temporary file of its own is written, synced - so it has its
\* time - and renamed, which is the change.
Save(c, stamp) ==
    /\ cmd[c].pc = "save"
    /\ book' = cmd[c].mem /\ mtime' = stamp
    /\ saved' = [saved EXCEPT ![stamp] = @ \union {book'}]
    /\ cmd' = [cmd EXCEPT ![c].pc = "unlock"]
    /\ UNCHANGED <<lock, begun, minted, reqVars>>

-----------------------------------------------------------------------------
(* Requests *)

\* decide: what needs no look at the book is answered at once.
Begin(r, t) ==
    /\ req[r].pc = "idle"
    /\ req' = [req EXCEPT ![r] = [NoRequest EXCEPT
                !.pc = IF Mode = "off" \/ t = Nobody THEN "answer" ELSE "stat",
                !.token = t]]
    /\ since' = [since EXCEPT ![r] = book]
    /\ UNCHANGED <<copy, fileVars, cmdVars>>

\* Auth::book: the file's time, then the copy's ...
Stat(r) ==
    /\ req[r].pc = "stat"
    /\ req' = [req EXCEPT ![r].pc = "compare", ![r].tag = mtime]
    /\ UNCHANGED <<copy, since, fileVars, cmdVars>>

Compare(r) ==
    /\ req[r].pc = "compare"
    /\ req' = [req EXCEPT ![r] = IF copy.tag = req[r].tag
                                 THEN [@ EXCEPT !.pc = "answer", !.view = copy.book]
                                 ELSE [@ EXCEPT !.pc = "read"]]
    /\ UNCHANGED <<copy, since, fileVars, cmdVars>>

\* ... and the file itself when they differ.  Unreadable, it admits nobody.
ReadBook(r) ==
    /\ req[r].pc = "read"
    /\ \/ req' = [req EXCEPT ![r].pc = "store", ![r].view = book]
       \/ ReadsFail /\ req' = [req EXCEPT ![r].pc = "answer", ![r].blind = TRUE]
    /\ UNCHANGED <<copy, since, fileVars, cmdVars>>

\* Mutant: the copy is tagged with the file's time after it was read.
StoreTaggedLate(r) ==
    /\ req[r].pc = "store"
    /\ copy' = [tag |-> mtime, book |-> req[r].view]
    /\ req' = [req EXCEPT ![r].pc = "answer"]
    /\ UNCHANGED <<since, fileVars, cmdVars>>

\* The copy is replaced under the time taken before it was read.
Store(r) ==
    /\ req[r].pc = "store"
    /\ copy' = [tag |-> req[r].tag, book |-> req[r].view]
    /\ req' = [req EXCEPT ![r].pc = "answer"]
    /\ UNCHANGED <<since, fileVars, cmdVars>>

\* Mutant: a revoked token still finds its principal.
LookupRevoked(b, t) == IF t = Nobody THEN Nobody ELSE b.owner[t]

\* Book::lookup
Lookup(b, t) ==
    IF t = Nobody \/ t \in b.dead \/ b.owner[t] \in b.gone THEN Nobody ELSE b.owner[t]

\* The role a request for a route of that need is served with; "none": it is
\* refused as unknown.
ServedAs(q, need) ==
    IF Mode = "off" THEN "admin"
    ELSE IF q.token = Nobody
         THEN IF Mode = "compat" THEN "admin"
              ELSE IF Anon = "none" /\ need \in {"page", "open"} THEN "read" ELSE Anon
    ELSE IF Lookup(q.view, q.token) # Nobody THEN q.view.role[Lookup(q.view, q.token)]
    ELSE IF need = "page" THEN "read" ELSE "none"

\* Whether the route and the handler are satisfied with it.
Admitted(q, need) ==
    /\ ServedAs(q, need) # "none"
    /\ Rank(ServedAs(q, need)) >= CASE need \in {"page", "open"} -> 0
                                 [] need = "retract" -> Rank("admin")
                                 [] OTHER -> Rank(need)

Answered(r) ==
    /\ req[r].pc = "answer"
    /\ req' = [req EXCEPT ![r] = NoRequest]
    /\ since' = [since EXCEPT ![r] = NoBook]
    /\ UNCHANGED <<copy, fileVars, cmdVars>>

Command(c) ==
    \/ \E o \in Orders : RunCommand(c, o)
    \/ TakeLock(c) \/ LoadBook(c) \/ EndCommand(c)
    \/ \E s \in Stamps : Save(c, s)

Serve(r) ==
    \/ \E t \in Tokens \union {Nobody} : Begin(r, t)
    \/ Stat(r) \/ Compare(r) \/ ReadBook(r) \/ Store(r) \/ Answered(r)

Next == (\E c \in Commands : Command(c)) \/ (\E r \in Requests : Serve(r))

Spec == Init /\ [][Next]_vars

-----------------------------------------------------------------------------
(* Properties *)

Steps == {"idle", "stat", "compare", "read", "store", "answer"}

\* Every variable has its type, and one command at a time is between the lock
\* and its release.
TypeOK ==
    /\ book \in Books /\ mtime \in Stamps \union {Never}
    /\ lock \in Commands \union {Nobody}
    /\ cmd \in [Commands -> [pc : {"idle", "lock", "load", "save", "unlock"},
                             op : Orders \union {NoCommand.op}, mem : Books]]
    /\ \A c \in Commands : cmd[c].pc \notin {"idle", "lock"} <=> lock = c
    /\ begun \in Nat /\ minted \subseteq Tokens
    /\ copy \in [tag : Stamps \union {Never}, book : Books]
    /\ req \in [Requests -> [pc : Steps, token : Tokens \union {Nobody},
                             tag : Stamps \union {Never}, view : Books, blind : BOOLEAN]]
    /\ saved \in [Stamps \union {Never} -> SUBSET Books]
    /\ since \in [Requests -> Books]

\* c has every principal, token and revocation b has.
Extends(b, c) ==
    /\ \A i \in Ids : b.role[i] # "none" => c.role[i] = b.role[i]
    /\ b.gone \subseteq c.gone /\ b.dead \subseteq c.dead
    /\ \A t \in Tokens : b.owner[t] # Nobody => c.owner[t] = b.owner[t]

\* Two commands at once lose nothing of each other, and no command ever brings
\* back what another has revoked (auth.rs Book::update: "two commands editing
\* the book at the same time do not lose each other's change").
NoChangeLost == [][Extends(book, book')]_vars

\* Two saves bore one time: a coarse clock, or one set back.
Blurred == \E s \in Stamps \union {Never} : \E b, c \in saved[s] : b # c

\* A request is decided by a book at least as new as the one on file when it
\* began - a token revoked by then is refused, one issued by then is known,
\* "without a restart" (auth.rs Auth::book) - as long as no two saves bore one
\* time.  Without a readable book nobody is admitted by a token.
DecidedByTheBook ==
    \A r \in Requests : req[r].pc = "answer" /\ req[r].token # Nobody /\ Mode # "off" =>
        IF req[r].blind
        THEN \A n \in Needs : Admitted(req[r], n) => n = "page"
        ELSE ~Blurred => Extends(since[r], req[r].view)

\* With tokens required, whoever is admitted to change anything holds a token
\* that was issued to a principal of that role, and not revoked before the
\* request began (auth.rs decide, main.rs remove).
ChangesAreAuthorised ==
    \A r \in Requests, n \in {"write", "admin", "retract"} :
        Mode = "required" /\ ~Blurred /\ req[r].pc = "answer" /\ Admitted(req[r], n) =>
            LET id == req[r].view.owner[req[r].token]
            IN /\ req[r].token \in minted \ since[r].dead
               /\ id \in Ids \ since[r].gone
               /\ Rank(req[r].view.role[id]) >= Rank(IF n = "write" THEN "write" ELSE "admin")
=============================================================================
