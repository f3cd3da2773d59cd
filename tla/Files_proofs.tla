------------------------------- MODULE Files_proofs ----------------------------
(* Theorems about AuthBook, for any book, any number of commands and of       *)
(* requests, any clock and any failures: commands lose nothing of each other,  *)
(* and a request is decided by a book no older than itself.  And about         *)
(* VectorFile, for any texts, models, crashes and losses of power: the cache   *)
(* holds what the running model makes of its texts.                            *)
EXTENDS Files, Sequences, FiniteSetTheorems, TLAPS

Times == Stamps \union {Never}

\* Every token with an owner has been drawn.
Owned(b) == \A t \in Tokens : b.owner[t] # Nobody => t \in minted

MintInv ==
    /\ Owned(book) /\ Owned(copy.book)
    /\ \A c \in Commands : Owned(cmd[c].mem)
    /\ \A r \in Requests : Owned(req[r].view)

\* A command that is about to save has changed the book that is still on file.
CommandInv ==
    \A c \in Commands :
        /\ cmd[c].pc # "idle" => cmd[c].op \in Orders
        /\ cmd[c].pc = "save" => Extends(book, cmd[c].mem)

\* The book on file is the newest there was; every time somebody took was that
\* of a book.
PastInv ==
    /\ book \in saved[mtime] /\ saved[copy.tag] # {}
    /\ \A s \in Times : \A b \in saved[s] : Extends(b, book)
    /\ \A r \in Requests :
         /\ req[r].pc # "idle" => Extends(since[r], book)
         /\ req[r].pc \in {"compare", "read", "store"} => saved[req[r].tag] # {}
         /\ req[r].pc \in {"stat", "compare", "read"} => req[r].view = NoBook
         /\ req[r].blind => req[r].view = NoBook /\ req[r].pc = "answer"

\* A time tells its book: the copy is no older than its time says, and no time a
\* request has taken is older than the request.
ViewInv ==
    /\ \A b \in saved[copy.tag] : Extends(b, copy.book)
    /\ \A r \in Requests :
         /\ req[r].pc \in {"compare", "read", "store"} =>
              \A b \in saved[req[r].tag] : Extends(since[r], b)
         /\ req[r].pc = "store" => \A b \in saved[req[r].tag] : Extends(b, req[r].view)
         /\ req[r].pc = "answer" /\ req[r].token # Nobody /\ Mode # "off" /\ ~req[r].blind =>
              Extends(since[r], req[r].view)

AuthInv == TypeOK /\ MintInv /\ CommandInv /\ PastInv /\ (~Blurred => ViewInv)

-----------------------------------------------------------------------------
(* Books *)

LEMMA ExtendsItself == \A b \in Books : Extends(b, b)
  BY DEF Extends

LEMMA ExtendsOn ==
    ASSUME NEW b \in Books, NEW c \in Books, NEW d \in Books, Extends(b, c), Extends(c, d)
    PROVE  Extends(b, d)
  BY DEF Extends

LEMMA NoBookTyped == NoBook \in Books
  BY AuthAssumption DEF NoBook, Books, Roles

\* What a command makes of a book is a book, with everything the old one has.
LEMMA ChangedExtends ==
    ASSUME NEW b \in Books, NEW o \in Ops, Accepts(b, o), NEW t \in Tokens \union {Nobody},
           o.op \in {"add", "token"} => t \in Tokens /\ b.owner[t] = Nobody
    PROVE  Changed(b, o, t) \in Books /\ Extends(b, Changed(b, o, t))
<1>1. CASE o.op = "add"
  <2>1. o.id \in Ids /\ o.role \in Roles /\ t \in Tokens /\ b.owner[t] = Nobody
    BY <1>1 DEF Ops
  <2>2. b.role[o.id] = "none"
    BY <1>1 DEF Accepts
  <2>3. /\ [b.owner EXCEPT ![t] = o.id] \in [Tokens -> Ids \union {Nobody}]
        /\ [b.role EXCEPT ![o.id] = o.role] \in [Ids -> Roles]
    BY <2>1 DEF Books
  <2>4. Changed(b, o, t) = [role |-> [b.role EXCEPT ![o.id] = o.role], gone |-> b.gone,
                            owner |-> [b.owner EXCEPT ![t] = o.id], dead |-> b.dead]
    BY <1>1 DEF Changed, Books
  <2> QED
    BY <2>1, <2>2, <2>3, <2>4 DEF Books, Extends
<1>2. CASE o.op = "token"
  <2>1. o.id \in Ids /\ t \in Tokens /\ b.owner[t] = Nobody
    BY <1>2 DEF Ops
  <2>2. [b.owner EXCEPT ![t] = o.id] \in [Tokens -> Ids \union {Nobody}]
    BY <2>1 DEF Books
  <2>3. Changed(b, o, t) = [role |-> b.role, gone |-> b.gone, owner |-> [b.owner EXCEPT ![t] = o.id],
                            dead |-> b.dead]
    BY <1>2 DEF Changed, Books
  <2> QED
    BY <2>1, <2>2, <2>3 DEF Books, Extends
<1>3. CASE o.op = "revoke_id"
  <2>1. o.id \in Ids
    BY <1>3 DEF Ops
  <2>2. Changed(b, o, t) = [role |-> b.role, gone |-> b.gone \union {o.id}, owner |-> b.owner,
                            dead |-> b.dead \union {u \in Tokens : b.owner[u] = o.id}]
    BY <1>3 DEF Changed, Books
  <2>3. b.dead \union {u \in Tokens : b.owner[u] = o.id} \in SUBSET Tokens
    BY DEF Books
  <2> QED
    BY <2>1, <2>2, <2>3 DEF Books, Extends
<1>4. CASE o.op = "revoke_token"
  <2>1. o.token \in Tokens
    BY <1>4 DEF Ops
  <2>2. Changed(b, o, t) = [b EXCEPT !.dead = @ \union {o.token}]
    BY <1>4 DEF Changed
  <2> QED
    BY <2>1, <2>2 DEF Books, Extends
<1> QED
  BY <1>1, <1>2, <1>3, <1>4 DEF Ops

\* Only the new token gets an owner.
LEMMA ChangedOwns ==
    ASSUME NEW b \in Books, NEW o \in Ops, NEW t \in Tokens \union {Nobody},
           o.op \in {"add", "token"} => t \in Tokens, NEW u \in Tokens \ {t}
    PROVE  Changed(b, o, t).owner[u] = b.owner[u]
<1>1. CASE o.op = "add"
  BY <1>1 DEF Changed, Books
<1>2. CASE o.op = "token"
  BY <1>2 DEF Changed, Books
<1>3. CASE o.op = "revoke_id"
  BY <1>3 DEF Changed, Books
<1>4. CASE o.op = "revoke_token"
  BY <1>4 DEF Changed, Books
<1> QED
  BY <1>1, <1>2, <1>3, <1>4 DEF Ops

-----------------------------------------------------------------------------
(* Types *)

LEMMA StartInv == Init => AuthInv
<1> SUFFICES ASSUME Init PROVE AuthInv
  OBVIOUS
<1>0. Start \in Books /\ NoBook \in Books /\ Never \notin Stamps /\ mtime \in Times
  BY AuthAssumption, NoBookTyped DEF Init, Times
<1>1. TypeOK
  <2>1. \A s \in Times :
          (IF s = Never THEN {NoBook} ELSE {}) \union (IF s = mtime THEN {Start} ELSE {}) \in SUBSET Books
    BY <1>0
  <2>2. saved \in [Times -> SUBSET Books]
    BY <2>1 DEF Init, Times
  <2> QED
    BY <1>0, <2>2, AuthAssumption DEF TypeOK, Init, NoCommand, NoRequest, Times, Steps
<1>2. MintInv
  BY <1>0 DEF MintInv, Owned, Init, NoCommand, NoRequest, NoBook
<1>3. CommandInv
  BY DEF CommandInv, Init, NoCommand
<1>4. \A s \in Times : saved[s] = (IF s = Never THEN {NoBook} ELSE {}) \union (IF s = mtime THEN {Start} ELSE {})
  BY DEF Init, Times
<1>5. PastInv
  <2>1. book \in saved[mtime] /\ NoBook \in saved[Never]
    BY <1>0, <1>4 DEF Init, Times
  <2>2. Extends(NoBook, Start) /\ Extends(Start, Start)
    BY <1>0, ExtendsItself DEF Extends, NoBook
  <2> QED
    BY <1>0, <1>4, <2>1, <2>2 DEF PastInv, Init, NoRequest
<1>6. ViewInv
  <2>1. mtime = Never => Start = NoBook
    BY <1>0 DEF Init
  <2>2. \A b \in saved[Never] : b = NoBook
    BY <1>0, <1>4, <2>1 DEF Times
  <2> QED
    BY <1>0, <2>2, ExtendsItself DEF ViewInv, Init, NoRequest
<1> QED
  BY <1>1, <1>2, <1>3, <1>5, <1>6 DEF AuthInv

LEMMA CommandTyped ==
    ASSUME TypeOK, MintInv, CommandInv, NEW c \in Commands, Command(c)
    PROVE  TypeOK'
<1> DEFINE Type == [pc : {"idle", "lock", "load", "save", "unlock"}, op : Orders \union {NoCommand.op}, mem : Books]
           Inside(q) == q.pc \notin {"idle", "lock"}
<1>0. cmd[c] \in Type /\ book \in Books /\ begun \in Nat /\ minted \subseteq Tokens
  BY DEF TypeOK
<1>1. ASSUME NEW q \in Type, cmd' = [cmd EXCEPT ![c] = q], lock' \in Commands \union {Nobody},
             Inside(q) <=> lock' = c, \A d \in Commands \ {c} : lock' = d <=> lock = d,
             begun' \in Nat, minted' \subseteq Tokens,
             UNCHANGED fileVars \/ (\E s \in Stamps : Save(c, s) /\ book' \in Books), UNCHANGED reqVars
      PROVE  TypeOK'
  <2>1. book' \in Books /\ mtime' \in Times /\ saved' \in [Times -> SUBSET Books]
    BY <1>1 DEF TypeOK, Save, fileVars, Times
  <2>2. cmd' \in [Commands -> Type] /\ \A d \in Commands : Inside(cmd'[d]) <=> lock' = d
    BY <1>1 DEF TypeOK
  <2> QED
    BY <1>1, <2>1, <2>2 DEF TypeOK, reqVars, Times
<1>n. NoCommand \in Type
  BY NoBookTyped DEF NoCommand
<1> HIDE DEF Type
<1>2. ASSUME NEW o \in Orders, RunCommand(c, o) PROVE TypeOK'
  <2> DEFINE q == [NoCommand EXCEPT !.pc = "lock", !.op = o]
  <2>1. q \in Type /\ q.pc = "lock"
    BY <1>n DEF Type, NoCommand
  <2>2. cmd[c].pc = "idle" /\ cmd' = [cmd EXCEPT ![c] = q] /\ begun' = begun + 1
    BY <1>2 DEF RunCommand
  <2>3. lock # c /\ lock \in Commands \union {Nobody}
    BY <2>2 DEF TypeOK
  <2>4. UNCHANGED <<lock, minted>> /\ UNCHANGED fileVars /\ UNCHANGED reqVars
    BY <1>2 DEF RunCommand
  <2>5. begun' \in Nat /\ ~Inside(q)
    BY <1>0, <2>1, <2>2
  <2> HIDE DEF q, Inside
  <2> QED
    BY <1>0, <1>1, <2>1, <2>2, <2>3, <2>4, <2>5
<1>3. CASE TakeLock(c)
  <2> DEFINE q == [cmd[c] EXCEPT !.pc = "load"]
  <2>1. q \in Type /\ q.pc = "load"
    BY <1>0 DEF Type
  <2>2. cmd' = [cmd EXCEPT ![c] = q]
    BY <1>3 DEF TakeLock
  <2> HIDE DEF q
  <2> QED
    BY <1>0, <1>1, <1>3, <2>1, <2>2, AuthAssumption DEF TakeLock
<1>4. CASE LoadBook(c)
  <2>1. PICK t \in (IF cmd[c].op.op \in {"add", "token"} THEN Tokens \ minted ELSE {Nobody}) :
          /\ cmd' = [cmd EXCEPT ![c].pc = "save", ![c].mem = Changed(book, cmd[c].op, t)]
          /\ minted' = minted \union ({t} \ {Nobody})
    BY <1>4 DEF LoadBook
  <2>2. cmd[c].op \in Ops /\ cmd[c].pc = "load" /\ t \in Tokens \union {Nobody}
        /\ (cmd[c].op.op \in {"add", "token"} => t \in Tokens /\ t \notin minted)
    BY <1>4, AuthAssumption DEF LoadBook, CommandInv
  <2>3. Changed(book, cmd[c].op, t) \in Books
    BY <1>4, <2>2, ChangedExtends, AuthAssumption DEF TypeOK, LoadBook, MintInv, Owned
  <2> DEFINE q == [cmd[c] EXCEPT !.pc = "save", !.mem = Changed(book, cmd[c].op, t)]
  <2>4. q \in Type /\ q.pc = "save"
    BY <1>0, <2>3 DEF Type
  <2>5. cmd' = [cmd EXCEPT ![c] = q]
    BY <2>1
  <2>6. lock = c /\ minted' \subseteq Tokens
    BY <1>0, <2>1, <2>2 DEF TypeOK
  <2> HIDE DEF q
  <2> QED
    BY <1>0, <1>1, <1>4, <2>4, <2>5, <2>6 DEF LoadBook, TypeOK
<1>5. CASE EndCommand(c)
  <2>1. cmd' = [cmd EXCEPT ![c] = NoCommand] /\ NoCommand.pc = "idle"
    BY <1>5 DEF EndCommand, NoCommand
  <2>2. lock' \in Commands \union {Nobody} /\ lock' # c /\ \A d \in Commands \ {c} : lock' = d <=> lock = d
    BY <1>5, AuthAssumption DEF EndCommand, TypeOK
  <2> QED
    BY <1>0, <1>1, <1>n, <1>5, <2>1, <2>2 DEF EndCommand
<1>6. ASSUME NEW s \in Stamps, Save(c, s) PROVE TypeOK'
  <2> DEFINE q == [cmd[c] EXCEPT !.pc = "unlock"]
  <2>1. q \in Type /\ q.pc = "unlock"
    BY <1>0 DEF Type
  <2>2. cmd' = [cmd EXCEPT ![c] = q] /\ cmd[c].pc = "save" /\ lock = c /\ book' \in Books
    BY <1>0, <1>6 DEF Save, TypeOK
  <2> HIDE DEF q
  <2> QED
    BY <1>0, <1>1, <1>6, <2>1, <2>2 DEF Save, TypeOK
<1> QED
  BY <1>2, <1>3, <1>4, <1>5, <1>6 DEF Command

LEMMA ServeTyped ==
    ASSUME TypeOK, NEW r \in Requests, Serve(r)
    PROVE  TypeOK'
<1> DEFINE Type == [pc : Steps, token : Tokens \union {Nobody}, tag : Times, view : Books, blind : BOOLEAN]
<1>0. req[r] \in Type /\ mtime \in Times /\ book \in Books /\ copy.tag \in Times /\ copy.book \in Books
  BY DEF TypeOK, Times
<1>1. ASSUME NEW q \in Type, req' = [req EXCEPT ![r] = q], copy' = copy \/ Store(r),
             since' = since \/ (\E b \in Books : since' = [since EXCEPT ![r] = b]),
             UNCHANGED <<fileVars, cmdVars>>
      PROVE  TypeOK'
  <2>1. copy' \in [tag : Times, book : Books]
    BY <1>0, <1>1 DEF TypeOK, Store, Times
  <2> QED
    BY <1>1, <2>1 DEF TypeOK, fileVars, cmdVars, Times
<1> HIDE DEF Type
<1>2. ASSUME NEW t \in Tokens \union {Nobody}, Begin(r, t) PROVE TypeOK'
  <2> DEFINE q == [NoRequest EXCEPT !.pc = IF Mode = "off" \/ t = Nobody THEN "answer" ELSE "stat", !.token = t]
  <2>1. q \in Type
    BY NoBookTyped DEF NoRequest, Type, Times, Steps
  <2> QED
    BY <1>0, <1>1, <1>2, <2>1 DEF Begin
<1>3. CASE Stat(r)
  <2> DEFINE q == [req[r] EXCEPT !.pc = "compare", !.tag = mtime]
  <2>1. q \in Type
    BY <1>0 DEF Type, Steps
  <2>2. req' = [req EXCEPT ![r] = q]
    BY <1>3 DEF Stat
  <2> QED
    BY <1>1, <1>3, <2>1, <2>2 DEF Stat
<1>4. CASE Compare(r)
  <2> DEFINE q == IF copy.tag = req[r].tag THEN [req[r] EXCEPT !.pc = "answer", !.view = copy.book]
                                           ELSE [req[r] EXCEPT !.pc = "read"]
  <2>1. q \in Type
    BY <1>0 DEF Type, Steps
  <2>2. req' = [req EXCEPT ![r] = q]
    BY <1>4 DEF Compare
  <2> QED
    BY <1>1, <1>4, <2>1, <2>2 DEF Compare
<1>5. CASE ReadBook(r)
  <2>1. CASE req' = [req EXCEPT ![r].pc = "store", ![r].view = book]
    <3>1. [req[r] EXCEPT !.pc = "store", !.view = book] \in Type
      BY <1>0 DEF Type, Steps
    <3> QED
      BY <1>1, <1>5, <2>1, <3>1, ZenonT(60) DEF ReadBook
  <2>2. CASE req' = [req EXCEPT ![r].pc = "answer", ![r].blind = TRUE]
    <3>1. [req[r] EXCEPT !.pc = "answer", !.blind = TRUE] \in Type
      BY <1>0 DEF Type, Steps
    <3> QED
      BY <1>1, <1>5, <2>2, <3>1 DEF ReadBook
  <2> QED
    BY <1>5, <2>1, <2>2 DEF ReadBook
<1>6. CASE Store(r)
  <2>1. [req[r] EXCEPT !.pc = "answer"] \in Type
    BY <1>0 DEF Type, Steps
  <2> QED
    BY <1>1, <1>6, <2>1 DEF Store
<1>7. CASE Answered(r)
  <2>1. NoRequest \in Type
    BY NoBookTyped DEF NoRequest, Type, Times, Steps
  <2> QED
    BY <1>1, <1>7, <2>1, NoBookTyped DEF Answered
<1> QED
  BY <1>2, <1>3, <1>4, <1>5, <1>6, <1>7 DEF Serve

-----------------------------------------------------------------------------
(* Commands *)

LEMMA CommandMints ==
    ASSUME TypeOK, MintInv, CommandInv, NEW c \in Commands, Command(c)
    PROVE  MintInv'
<1>0. NoBook.owner = [t \in Tokens |-> Nobody]
  BY DEF NoBook
<1>1. ASSUME NEW o \in Orders, RunCommand(c, o) PROVE MintInv'
  <2>1. cmd' = [cmd EXCEPT ![c] = [NoCommand EXCEPT !.pc = "lock", !.op = o]]
    BY <1>1 DEF RunCommand
  <2>2. [NoCommand EXCEPT !.pc = "lock", !.op = o].mem = NoBook
    BY DEF NoCommand
  <2>3. \A d \in Commands : cmd'[d].mem = cmd[d].mem \/ cmd'[d].mem = NoBook
    BY <2>1, <2>2 DEF TypeOK
  <2> QED
    BY <1>0, <1>1, <2>3 DEF MintInv, Owned, RunCommand, fileVars, reqVars
<1>2. CASE TakeLock(c)
  <2>1. \A d \in Commands : cmd'[d].mem = cmd[d].mem
    BY <1>2 DEF TakeLock, TypeOK
  <2> QED
    BY <1>2, <2>1 DEF MintInv, Owned, TakeLock, fileVars, reqVars
<1>3. CASE LoadBook(c)
  <2>1. PICK t \in (IF cmd[c].op.op \in {"add", "token"} THEN Tokens \ minted ELSE {Nobody}) :
          /\ cmd' = [cmd EXCEPT ![c].pc = "save", ![c].mem = Changed(book, cmd[c].op, t)]
          /\ minted' = minted \union ({t} \ {Nobody})
    BY <1>3 DEF LoadBook
  <2>2. cmd[c].op \in Ops /\ t \in Tokens \union {Nobody} /\ book \in Books
        /\ (cmd[c].op.op \in {"add", "token"} => t \in Tokens)
    BY <1>3, AuthAssumption DEF LoadBook, CommandInv, TypeOK
  <2>3. \A u \in Tokens \ {t} : Changed(book, cmd[c].op, t).owner[u] = book.owner[u]
    BY <2>2, ChangedOwns
  <2>4. \A u \in Tokens : Changed(book, cmd[c].op, t).owner[u] # Nobody => u \in minted'
    BY <2>1, <2>3, AuthAssumption DEF MintInv, Owned
  <2>5. \A d \in Commands : cmd'[d].mem = IF d = c THEN Changed(book, cmd[c].op, t) ELSE cmd[d].mem
    BY <2>1 DEF TypeOK
  <2>6. minted \subseteq minted'
    BY <2>1
  <2> QED
    BY <1>3, <2>4, <2>5, <2>6 DEF MintInv, Owned, LoadBook, fileVars, reqVars
<1>4. CASE EndCommand(c)
  <2>1. \A d \in Commands : cmd'[d].mem = cmd[d].mem \/ cmd'[d].mem = NoBook
    BY <1>4 DEF EndCommand, TypeOK, NoCommand
  <2> QED
    BY <1>0, <1>4, <2>1 DEF MintInv, Owned, EndCommand, fileVars, reqVars
<1>5. ASSUME NEW s \in Stamps, Save(c, s) PROVE MintInv'
  <2>1. \A d \in Commands : cmd'[d].mem = cmd[d].mem
    BY <1>5 DEF Save, TypeOK
  <2> QED
    BY <1>5, <2>1 DEF MintInv, Owned, Save, reqVars
<1> QED
  BY <1>1, <1>2, <1>3, <1>4, <1>5 DEF Command

\* What is saved is what was loaded and changed: only the holder of the lock
\* saves, and nobody else is about to.
LEMMA CommandKeepsOrder ==
    ASSUME TypeOK, MintInv, CommandInv, NEW c \in Commands, Command(c)
    PROVE  CommandInv' /\ Extends(book, book')
<1>0. Extends(book, book)
  BY ExtendsItself DEF TypeOK
<1>1. ASSUME NEW o \in Orders, RunCommand(c, o) PROVE CommandInv' /\ book' = book
  <2> DEFINE q == [NoCommand EXCEPT !.pc = "lock", !.op = o]
  <2>1. q.pc = "lock" /\ q.op = o
    BY DEF NoCommand
  <2>2. cmd' = [cmd EXCEPT ![c] = q] /\ book' = book
    BY <1>1 DEF RunCommand, fileVars
  <2> HIDE DEF q
  <2> QED
    BY <2>1, <2>2 DEF CommandInv, TypeOK
<1>2. CASE TakeLock(c)
  <2>1. cmd' = [cmd EXCEPT ![c].pc = "load"] /\ cmd[c].pc = "lock" /\ book' = book
    BY <1>2 DEF TakeLock, fileVars
  <2>2. \A d \in Commands : IF d = c THEN cmd'[d].pc = "load" /\ cmd'[d].op = cmd[d].op ELSE cmd'[d] = cmd[d]
    BY <2>1 DEF TypeOK
  <2> QED
    BY <1>0, <2>1, <2>2 DEF CommandInv
<1>3. CASE LoadBook(c)
  <2>1. PICK t \in (IF cmd[c].op.op \in {"add", "token"} THEN Tokens \ minted ELSE {Nobody}) :
          cmd' = [cmd EXCEPT ![c].pc = "save", ![c].mem = Changed(book, cmd[c].op, t)]
    BY <1>3 DEF LoadBook
  <2>2. cmd[c].op \in Ops /\ cmd[c].op \in Orders /\ t \in Tokens \union {Nobody}
        /\ (cmd[c].op.op \in {"add", "token"} => t \in Tokens /\ t \notin minted)
    BY <1>3, AuthAssumption DEF LoadBook, CommandInv
  <2>3. Extends(book, Changed(book, cmd[c].op, t))
    BY <1>3, <2>2, ChangedExtends, AuthAssumption DEF TypeOK, LoadBook, MintInv, Owned
  <2>4. \A d \in Commands : /\ cmd'[d].op = cmd[d].op
                            /\ d # c => cmd'[d] = cmd[d]
    BY <2>1 DEF TypeOK
  <2>5. cmd'[c].mem = Changed(book, cmd[c].op, t)
    BY <2>1 DEF TypeOK
  <2>6. cmd[c].pc = "load" /\ book' = book
    BY <1>3 DEF LoadBook, fileVars
  <2> QED
    BY <1>0, <2>2, <2>3, <2>4, <2>5, <2>6 DEF CommandInv
<1>4. CASE EndCommand(c)
  <2>1. cmd' = [cmd EXCEPT ![c] = NoCommand] /\ NoCommand.pc = "idle" /\ book' = book
    BY <1>4 DEF EndCommand, NoCommand, fileVars
  <2>2. \A d \in Commands : IF d = c THEN cmd'[d].pc = "idle" ELSE cmd'[d] = cmd[d]
    BY <2>1 DEF TypeOK
  <2> QED
    BY <1>0, <2>1, <2>2 DEF CommandInv
<1>5. ASSUME NEW s \in Stamps, Save(c, s) PROVE CommandInv' /\ Extends(book, book')
  <2>1. lock = c /\ book' = cmd[c].mem /\ cmd' = [cmd EXCEPT ![c].pc = "unlock"] /\ cmd[c].pc = "save"
    BY <1>5 DEF Save, TypeOK
  <2>2. \A d \in Commands : /\ cmd'[d].op = cmd[d].op /\ cmd[c].op \in Orders
                            /\ cmd'[d].pc = IF d = c THEN "unlock" ELSE cmd[d].pc
                            /\ d # c => cmd[d].pc # "save"
    BY <2>1 DEF TypeOK, CommandInv
  <2> QED
    BY <2>1, <2>2 DEF CommandInv
<1> QED
  BY <1>0, <1>1, <1>2, <1>3, <1>4, <1>5 DEF Command, fileVars, TakeLock, LoadBook, EndCommand

LEMMA CommandKeepsPast ==
    ASSUME TypeOK, CommandInv, PastInv, ~Blurred => ViewInv, NEW c \in Commands, Command(c)
    PROVE  PastInv' /\ (~Blurred' => ViewInv')
<1>1. CASE UNCHANGED <<fileVars, reqVars>>
  BY <1>1 DEF PastInv, ViewInv, Blurred, fileVars, reqVars
<1>2. ASSUME NEW s \in Stamps, Save(c, s) PROVE PastInv' /\ (~Blurred' => ViewInv')
  <2>1. /\ book' = cmd[c].mem /\ mtime' = s /\ cmd[c].pc = "save"
        /\ saved' = [saved EXCEPT ![s] = @ \union {book'}] /\ UNCHANGED reqVars
    BY <1>2 DEF Save
  <2>2. book \in Books /\ book' \in Books /\ Extends(book, book')
    BY <2>1 DEF TypeOK, CommandInv
  <2>3. \A u \in Times : /\ saved[u] \subseteq Books /\ saved[u] \subseteq saved'[u]
                         /\ saved'[u] \subseteq saved[u] \union {book'}
                         /\ u # s => saved'[u] = saved[u]
    BY <2>1 DEF TypeOK, Times
  <2>4. book' \in saved'[s]
    BY <2>1 DEF TypeOK
  <2>5. \A r \in Requests : since[r] \in Books /\ req[r].tag \in Times
    BY DEF TypeOK, Times
  <2>6. \A u \in Times : \A b \in saved'[u] : Extends(b, book')
    BY <2>2, <2>3, ExtendsOn, ExtendsItself DEF PastInv
  <2>7. \A r \in Requests : req[r].pc # "idle" => Extends(since[r], book')
    BY <2>2, <2>5, ExtendsOn DEF PastInv
  <2>8. PastInv'
    BY <2>1, <2>3, <2>4, <2>5, <2>6, <2>7 DEF PastInv, reqVars, TypeOK, Times
  <2>9. ASSUME ~Blurred' PROVE ViewInv'
    <3>1. ~Blurred
      BY <2>3, <2>9 DEF Blurred, Times
    <3>2. \A u \in Times : saved[u] # {} => saved'[u] = saved[u]
      <4> SUFFICES ASSUME NEW u \in Times, NEW b \in saved[u] PROVE saved'[u] = saved[u]
        OBVIOUS
      <4>1. \A d \in saved'[u] : d = b
        BY <2>3, <2>9 DEF Blurred, Times
      <4> QED
        BY <2>3, <4>1
    <3>3. saved'[copy.tag] = saved[copy.tag]
      BY <3>2 DEF PastInv, TypeOK, Times
    <3>4. \A r \in Requests : req[r].pc \in {"compare", "read", "store"} =>
             saved'[req[r].tag] = saved[req[r].tag]
      BY <2>5, <3>2 DEF PastInv
    <3> QED
      BY <2>1, <3>1, <3>3, <3>4 DEF ViewInv, reqVars
  <2> QED
    BY <2>8, <2>9
<1> QED
  BY <1>1, <1>2 DEF Command, RunCommand, TakeLock, LoadBook, EndCommand, fileVars, reqVars

-----------------------------------------------------------------------------
(* Requests *)

LEMMA ServeMints ==
    ASSUME TypeOK, MintInv, NEW r \in Requests, Serve(r)
    PROVE  MintInv'
<1>0. Owned(NoBook)
  BY DEF Owned, NoBook
<1>1. UNCHANGED <<book, cmd, minted>>
  BY DEF Serve, Begin, Stat, Compare, ReadBook, Store, Answered, fileVars, cmdVars
<1>3. copy'.book = copy.book \/ copy'.book = req[r].view
  <2>1. CASE Store(r)
    BY <2>1 DEF Store
  <2> QED
    BY <2>1 DEF Serve, Begin, Stat, Compare, ReadBook, Answered
<1>2. \A q \in Requests : req'[q].view \in {req[q].view, copy.book, book, NoBook}
  <2>1. ASSUME NEW t \in Tokens \union {Nobody}, Begin(r, t)
        PROVE  \A q \in Requests : req'[q].view \in {req[q].view, NoBook}
    BY <2>1 DEF Begin, NoRequest, TypeOK
  <2>2. CASE Stat(r)
    BY <2>2 DEF Stat, TypeOK
  <2>3. CASE Compare(r)
    BY <2>3 DEF Compare, TypeOK
  <2>4. CASE ReadBook(r)
    BY <2>4 DEF ReadBook, TypeOK
  <2>5. CASE Store(r)
    BY <2>5 DEF Store, TypeOK
  <2>6. CASE Answered(r)
    BY <2>6, SMTT(30) DEF Answered, NoRequest, TypeOK
  <2> QED
    BY <2>1, <2>2, <2>3, <2>4, <2>5, <2>6 DEF Serve
<1> QED
  BY <1>0, <1>1, <1>2, <1>3 DEF MintInv, Owned

LEMMA ServeKeepsOrder ==
    ASSUME CommandInv, NEW r \in Requests, Serve(r)
    PROVE  CommandInv' /\ book' = book
  BY ZenonT(60) DEF CommandInv, Serve, Begin, Stat, Compare, ReadBook, Store, Answered, fileVars, cmdVars

\* Each step changes one request, and only Store the copy.
LEMMA ServeKeepsPast ==
    ASSUME TypeOK, PastInv, ~Blurred => ViewInv, NEW r \in Requests, Serve(r)
    PROVE  PastInv' /\ (~Blurred' => ViewInv')
<1>a. UNCHANGED <<book, mtime, saved>>
  BY DEF Serve, Begin, Stat, Compare, ReadBook, Store, Answered, fileVars
<1>0. (Blurred' <=> Blurred) /\ Extends(book, book) /\ book \in saved[mtime] /\ UNCHANGED <<book, mtime, saved>>
  BY <1>a, ExtendsItself DEF TypeOK, PastInv, Blurred
<1>1. ASSUME NEW t \in Tokens \union {Nobody}, Begin(r, t) PROVE PastInv' /\ (~Blurred' => ViewInv')
  <2> DEFINE q == [NoRequest EXCEPT !.pc = IF Mode = "off" \/ t = Nobody THEN "answer" ELSE "stat", !.token = t]
  <2>1. /\ q.pc = IF Mode = "off" \/ t = Nobody THEN "answer" ELSE "stat"
        /\ q.token = t /\ q.blind = FALSE /\ q.view = NoBook
    BY DEF NoRequest
  <2>2. req' = [req EXCEPT ![r] = q] /\ since' = [since EXCEPT ![r] = book] /\ copy' = copy
    BY <1>1 DEF Begin
  <2> HIDE DEF q
  <2>3. \A p \in Requests : IF p = r THEN req'[p] = q /\ since'[p] = book
                            ELSE req'[p] = req[p] /\ since'[p] = since[p]
    BY <2>2 DEF TypeOK
  <2> QED
    BY <1>0, <2>1, <2>2, <2>3, SMTT(30) DEF PastInv, ViewInv
<1>3. CASE Stat(r)
  <2>1. /\ req'[r].pc = "compare" /\ req'[r].tag = mtime /\ req[r].pc = "stat"
        /\ req'[r].blind = req[r].blind /\ req'[r].view = req[r].view
        /\ \A p \in Requests \ {r} : req'[p] = req[p]
        /\ UNCHANGED <<since, copy>>
    BY <1>3 DEF Stat, TypeOK
  <2>2. ~Blurred => \A b \in saved[mtime] : b = book
    BY <1>0 DEF Blurred, TypeOK
  <2> QED
    BY <1>0, <2>1, <2>2 DEF PastInv, ViewInv
<1>4. CASE Compare(r)
  <2>1. CASE copy.tag = req[r].tag
    <3>1. /\ req'[r].pc = "answer" /\ req'[r].tag = req[r].tag /\ req[r].pc = "compare"
          /\ req'[r].blind = req[r].blind /\ req'[r].view = copy.book
          /\ \A p \in Requests \ {r} : req'[p] = req[p]
          /\ UNCHANGED <<since, copy>>
      BY <1>4, <2>1 DEF Compare, TypeOK
    <3>2. since[r] \in Books /\ copy.book \in Books /\ saved[copy.tag] \subseteq Books /\ ~req[r].blind
      BY <3>1 DEF TypeOK, PastInv
    <3>3. ~Blurred => Extends(since[r], copy.book)
      <4> SUFFICES ASSUME ~Blurred PROVE Extends(since[r], copy.book)
        OBVIOUS
      <4>1. PICK b \in saved[copy.tag] : Extends(since[r], b) /\ Extends(b, copy.book)
        BY <2>1, <3>1 DEF PastInv, ViewInv
      <4> QED
        BY <3>2, <4>1, ExtendsOn
    <3> QED
      BY <1>0, <3>1, <3>2, <3>3 DEF PastInv, ViewInv
  <2>2. CASE copy.tag # req[r].tag
    <3>1. /\ req'[r].pc = "read" /\ req'[r].tag = req[r].tag /\ req[r].pc = "compare"
          /\ req'[r].blind = req[r].blind /\ req'[r].view = req[r].view
          /\ \A p \in Requests \ {r} : req'[p] = req[p]
          /\ UNCHANGED <<since, copy>>
      BY <1>4, <2>2 DEF Compare, TypeOK
    <3> QED
      BY <1>0, <3>1 DEF PastInv, ViewInv
  <2> QED
    BY <2>1, <2>2
<1>5. CASE ReadBook(r)
  <2>1. CASE req' = [req EXCEPT ![r].pc = "store", ![r].view = book]
    <3>1. /\ req'[r].pc = "store" /\ req'[r].tag = req[r].tag /\ req[r].pc = "read"
          /\ req'[r].blind = req[r].blind /\ req'[r].view = book
          /\ \A p \in Requests \ {r} : req'[p] = req[p]
          /\ UNCHANGED <<since, copy>>
      BY <1>5, <2>1 DEF ReadBook, TypeOK
    <3>2. req[r].tag \in Times /\ ~req[r].blind
      BY <3>1 DEF TypeOK, Times, PastInv
    <3> QED
      BY <1>0, <3>1, <3>2 DEF PastInv, ViewInv
  <2>2. CASE req' = [req EXCEPT ![r].pc = "answer", ![r].blind = TRUE]
    <3>1. /\ req'[r].pc = "answer" /\ req[r].pc = "read"
          /\ req'[r].blind /\ req'[r].view = req[r].view
          /\ \A p \in Requests \ {r} : req'[p] = req[p]
          /\ UNCHANGED <<since, copy>>
      BY <1>5, <2>2 DEF ReadBook, TypeOK
    <3> QED
      BY <1>0, <3>1 DEF PastInv, ViewInv
  <2> QED
    BY <1>5, <2>1, <2>2 DEF ReadBook
<1>6. CASE Store(r)
  <2>1. /\ req'[r].pc = "answer" /\ req[r].pc = "store"
        /\ req'[r].blind = req[r].blind /\ req'[r].view = req[r].view
        /\ \A p \in Requests \ {r} : req'[p] = req[p]
        /\ UNCHANGED since
        /\ copy'.tag = req[r].tag /\ copy'.book = req[r].view
    BY <1>6 DEF Store, TypeOK
  <2>2. /\ since[r] \in Books /\ req[r].view \in Books /\ saved[req[r].tag] \subseteq Books
        /\ saved[req[r].tag] # {} /\ ~req[r].blind
    BY <2>1 DEF TypeOK, PastInv
  <2>3. ~Blurred => Extends(since[r], req[r].view)
    <3> SUFFICES ASSUME ~Blurred PROVE Extends(since[r], req[r].view)
      OBVIOUS
    <3>1. PICK b \in saved[req[r].tag] : Extends(since[r], b) /\ Extends(b, req[r].view)
      BY <2>1, <2>2 DEF ViewInv
    <3> QED
      BY <2>2, <3>1, ExtendsOn
  <2> QED
    BY <1>0, <2>1, <2>2, <2>3, SMTT(30) DEF PastInv, ViewInv
<1>7. CASE Answered(r)
  <2>1. /\ req'[r].pc = "idle" /\ ~req'[r].blind
        /\ \A p \in Requests \ {r} : req'[p] = req[p] /\ since'[p] = since[p]
        /\ UNCHANGED copy
    BY <1>7 DEF Answered, NoRequest, TypeOK
  <2> QED
    BY <1>0, <2>1 DEF PastInv, ViewInv
<1> QED
  BY <1>1, <1>3, <1>4, <1>5, <1>6, <1>7 DEF Serve

-----------------------------------------------------------------------------
(* Theorems *)

LEMMA AuthStep == AuthInv /\ [Next]_vars => AuthInv' /\ Extends(book, book')
<1> SUFFICES ASSUME AuthInv, [Next]_vars PROVE AuthInv' /\ Extends(book, book')
  OBVIOUS
<1> USE DEF AuthInv
<1>1. ASSUME NEW c \in Commands, Command(c) PROVE AuthInv' /\ Extends(book, book')
  BY <1>1, CommandTyped, CommandMints, CommandKeepsOrder, CommandKeepsPast
<1>2. ASSUME NEW r \in Requests, Serve(r) PROVE AuthInv' /\ Extends(book, book')
  <2>1. AuthInv' /\ book' = book
    BY <1>2, ServeTyped, ServeMints, ServeKeepsOrder, ServeKeepsPast
  <2> QED
    BY <2>1, ExtendsItself DEF TypeOK
<1>3. CASE UNCHANGED vars
  <2>1. TypeOK'
    BY <1>3 DEF TypeOK, vars
  <2>2. MintInv' /\ CommandInv'
    BY <1>3 DEF MintInv, Owned, CommandInv, vars
  <2>3. PastInv' /\ (~Blurred' => ViewInv')
    BY <1>3 DEF PastInv, ViewInv, Blurred, vars
  <2>4. Extends(book, book')
    BY <1>3, ExtendsItself DEF TypeOK, vars
  <2> QED
    BY <2>1, <2>2, <2>3, <2>4
<1> QED
  BY <1>1, <1>2, <1>3 DEF Next

LEMMA AuthAlways == Spec => []AuthInv
<1>1. AuthInv /\ [Next]_vars => AuthInv'
  BY AuthStep
<1> QED
  BY StartInv, <1>1, PTL DEF Spec

\* Every variable keeps its type, and one command at a time is between taking
\* the book's lock and its release (Book::update).
THEOREM BookTyped == Spec => []TypeOK
<1>1. AuthInv => TypeOK
  BY DEF AuthInv
<1> QED
  BY AuthAlways, <1>1, PTL

\* However many commands run at once, fail or die, none loses what another has
\* added or revoked (Book::update).
THEOREM ChangesSurvive == Spec => NoChangeLost
<1>1. AuthInv /\ [Next]_vars => [Extends(book, book')]_vars
  BY AuthStep
<1> QED
  BY AuthAlways, <1>1, PTL DEF Spec, NoChangeLost

\* A book that is not there admits no token.
LEMMA NothingFound ==
    ASSUME NEW q, q.token \in Tokens, q.view = NoBook, Mode # "off", NEW n \in Needs, Admitted(q, n)
    PROVE  n = "page"
<1>1. Lookup(q.view, q.token) = Nobody /\ q.token # Nobody
  BY AuthAssumption DEF Lookup, NoBook
<1> QED
  BY <1>1 DEF Admitted, ServedAs

\* A token is found or refused by a book no older than the request, as long as a
\* time tells its book (Auth::book, Auth::decide).
THEOREM BookDecides == Spec => []DecidedByTheBook
<1>1. AuthInv => DecidedByTheBook
  <2> SUFFICES ASSUME AuthInv, NEW r \in Requests, req[r].pc = "answer", req[r].token # Nobody, Mode # "off"
               PROVE  IF req[r].blind THEN \A n \in Needs : Admitted(req[r], n) => n = "page"
                      ELSE ~Blurred => Extends(since[r], req[r].view)
    BY DEF DecidedByTheBook
  <2>1. req[r].token \in Tokens
    BY DEF AuthInv, TypeOK
  <2>2. req[r].blind => req[r].view = NoBook
    BY DEF AuthInv, PastInv
  <2>3. CASE req[r].blind
    BY <2>1, <2>2, <2>3, NothingFound
  <2>4. CASE ~req[r].blind
    BY <2>4, SMTT(30) DEF AuthInv, ViewInv
  <2> QED
    BY <2>3, <2>4
<1> QED
  BY AuthAlways, <1>1, PTL

\* With tokens required nobody changes anything but by a token drawn for a
\* principal of that role and not revoked before the request began (decide).
THEOREM ChangesNeedTokens == Spec => []ChangesAreAuthorised
<1>1. AuthInv => ChangesAreAuthorised
  <2> SUFFICES ASSUME AuthInv, NEW r \in Requests, NEW n \in {"write", "admin", "retract"},
                      Mode = "required", ~Blurred, req[r].pc = "answer", Admitted(req[r], n)
               PROVE  LET id == req[r].view.owner[req[r].token]
                      IN /\ req[r].token \in minted \ since[r].dead
                         /\ id \in Ids \ since[r].gone
                         /\ Rank(req[r].view.role[id]) >= Rank(IF n = "write" THEN "write" ELSE "admin")
    BY DEF ChangesAreAuthorised
  <2> DEFINE q == req[r]  role == ServedAs(q, n)
  <2>1. role # "none" /\ Rank(role) >= Rank(IF n = "write" THEN "write" ELSE "admin")
    BY DEF Admitted, Rank
  <2>2. role # "read"
    BY <2>1 DEF Rank
  <2>3. q.token # Nobody
    BY <2>1, <2>2, AuthAssumption DEF ServedAs
  <2>4. Lookup(q.view, q.token) # Nobody /\ role = q.view.role[Lookup(q.view, q.token)]
    BY <2>1, <2>2, <2>3 DEF ServedAs
  <2>5. /\ Lookup(q.view, q.token) = q.view.owner[q.token]
        /\ q.token \notin q.view.dead /\ q.view.owner[q.token] \notin q.view.gone
    BY <2>4 DEF Lookup
  <2>6. /\ q.token \in Tokens /\ q.view \in Books
        /\ q.view.owner[q.token] \in Ids
    BY <2>3, <2>4, <2>5 DEF AuthInv, TypeOK, Books
  <2>7. q.token \in minted
    BY <2>4, <2>5, <2>6 DEF AuthInv, MintInv, Owned
  <2>8. q.view # NoBook
    BY <2>4, <2>5, <2>6 DEF NoBook
  <2>9. Extends(since[r], q.view)
    BY <2>3, <2>8 DEF AuthInv, ViewInv, PastInv
  <2> HIDE DEF role
  <2> QED
    BY <2>1, <2>4, <2>5, <2>6, <2>7, <2>9, SMTT(30) DEF Extends
<1> QED
  BY AuthAlways, <1>1, PTL

-----------------------------------------------------------------------------
(* VectorFile: what a file and the cache may hold *)

Vectors == Models \X Texts
Fields == {Magic} \union Nat \union Texts \union Vectors
PlacesOf(f) == 1 .. Len(f)

\* A file as it was ever written, whatever was cut off of it: of one model, and
\* but for those fingerprinted as another the vectors are that model's.
Kept(f) ==
    /\ f \in Seq(Fields)
    /\ Len(f) >= 3 => f[2] \in Models /\ f[3] \in Nat \ {0}
    /\ Len(f) >= 3 /\ f[2] \notin mixed => f[3] = Dim[f[2]]
    /\ \A n \in PlacesOf(f) : n > 3 /\ n % 2 = 0 /\ n < Len(f) =>
         /\ f[n] \in Texts /\ f[n + 1] \in Vectors
         /\ f[2] \notin mixed => f[n + 1] = <<f[2], f[n]>>

CacheTyped ==
    /\ model \in Models /\ mixed \in SUBSET Models
    /\ pc \in {"down", "loading", "up", "writing"} /\ dirty \in BOOLEAN
    /\ loaded \in Nat /\ print \in Nat /\ dim \in Nat
    /\ DOMAIN map \in SUBSET Texts /\ map \in [DOMAIN map -> Vectors]
    /\ pc # "down" => loaded \in Models

\* Of a model it was not fingerprinted as the cache may hold anything.
MapInv ==
    pc \in {"up", "writing"} =>
        /\ print \in Models
        /\ dim = 0 => DOMAIN map = {}
        /\ print \notin mixed =>
             /\ print = loaded
             /\ dim # 0 => dim = Dim[print]
             /\ \A t \in DOMAIN map : map[t] = <<print, t>>

FileInv ==
    /\ Kept(file) /\ Kept(tmp)
    /\ pc = "up" /\ ~dirty => map = V!Read(file, print)
    /\ pc = "writing" => map = V!Read(tmp, print)

CacheInv == CacheTyped /\ MapInv /\ FileInv

LEMMA SameCount == \A S : V!Cardinality(S) = Cardinality(S)
BY DEF V!Cardinality, Cardinality

LEMMA SameFinite == \A S : V!IsFiniteSet(S) <=> IsFiniteSet(S)
BY DEF V!IsFiniteSet, IsFiniteSet

LEMMA Assumed == IsFiniteSet(Texts) /\ Models \subseteq Nat /\ Dim \in [Models -> Nat \ {0}]
BY FilesAssumption, SameFinite DEF V!VectorFileAssumption

\* What is cut off a file leaves one.
LEMMA KeptCut ==
    ASSUME NEW f, Kept(f), NEW n \in 0 .. Len(f)
    PROVE  Kept(SubSeq(f, 1, n))
<1> DEFINE g == SubSeq(f, 1, n)
<1>1. g \in Seq(Fields) /\ Len(g) = n /\ \A i \in 1 .. n : g[i] = f[i]
  BY DEF Kept
<1>2. Len(f) \in Nat /\ n \in Nat /\ n <= Len(f)
  BY DEF Kept
<1> HIDE DEF g
<1>3. ASSUME Len(g) >= 3 PROVE g[2] = f[2] /\ g[3] = f[3] /\ Len(f) >= 3
  BY <1>1, <1>2, <1>3
<1>4. ASSUME NEW i \in PlacesOf(g), i > 3, i % 2 = 0, i < Len(g)
      PROVE  g[i] = f[i] /\ g[i + 1] = f[i + 1] /\ i \in PlacesOf(f) /\ i < Len(f) /\ g[2] = f[2]
  BY <1>1, <1>2, <1>4 DEF PlacesOf
<1> QED BY <1>1, <1>3, <1>4 DEF Kept, g

\* What the cache reads from a file.
LEMMA ReadLemma ==
    ASSUME NEW f, Kept(f), NEW m
    PROVE  LET r == V!Read(f, m) IN
           /\ DOMAIN r \in SUBSET Texts /\ r \in [DOMAIN r -> Vectors]
           /\ ~V!Headed(f, m) => DOMAIN r = {}
           /\ m \notin mixed => \A t \in DOMAIN r : r[t] = <<m, t>>
<1> DEFINE r == V!Read(f, m)
           W == V!Whole(f)
           at(t) == CHOOSE n \in W : f[n] = t
<1>1. CASE ~V!Headed(f, m)
  <2>1. r = [t \in {} |-> <<>>]
    BY <1>1 DEF V!Read, V!Nothing
  <2> HIDE DEF r
  <2> QED BY <1>1, <2>1 DEF r
<1>2. CASE V!Headed(f, m)
  <2>1. r = [t \in {f[n] : n \in W} |-> f[at(t) + 1]]
    BY <1>2 DEF V!Read
  <2>2. DOMAIN r = {f[n] : n \in W} /\ \A t \in DOMAIN r : r[t] = f[at(t) + 1]
    BY <2>1
  <2>3. f[2] = m /\ DOMAIN f = PlacesOf(f)
    BY <1>2 DEF V!Headed, PlacesOf, Kept
  <2>4. \A n \in W : f[n] \in Texts /\ f[n + 1] \in Vectors /\ (m \notin mixed => f[n + 1] = <<m, f[n]>>)
    BY <2>3 DEF V!Whole, Kept
  <2>5. \A t \in DOMAIN r : at(t) \in W /\ f[at(t)] = t
    BY <2>2
  <2>6. r = [t \in DOMAIN r |-> r[t]]
    BY <2>1
  <2> HIDE DEF r, W, at
  <2>7. \A t \in DOMAIN r : r[t] \in Vectors /\ t \in Texts
    BY <2>2, <2>4, <2>5
  <2>8. m \notin mixed => \A t \in DOMAIN r : r[t] = <<m, t>>
    BY <2>2, <2>4, <2>5
  <2>9. r \in [DOMAIN r -> Vectors]
    BY <2>6, <2>7
  <2> QED BY <1>2, <2>7, <2>8, <2>9 DEF r
<1> QED BY <1>1, <1>2

\* The whole cache, in any order, is a file that says what is in it.
LEMMA ContentsLemma ==
    ASSUME CacheTyped, MapInv, pc = "up", dim # 0, NEW order \in V!Arrangements(DOMAIN map)
    PROVE  /\ Kept(V!Contents(order)) /\ Len(V!Contents(order)) \in Nat
           /\ V!Read(V!Contents(order), print) = map
<1> DEFINE c == V!Contents(order)
           N == Cardinality(DOMAIN map)
           D == DOMAIN map
<1>1. N \in Nat
  BY Assumed, FS_Subset, FS_CardinalityType DEF CacheTyped
<1>2. /\ order \in [1 .. N -> D]
      /\ \A t \in D : \E i \in 1 .. N : order[i] = t
  BY SameCount DEF V!Arrangements
<1>3. c = [i \in 1 .. 3 + 2 * N |->
             IF i <= 3 THEN <<Magic, print, dim>>[i]
             ELSE LET t == order[(i \div 2) - 1] IN IF i % 2 = 0 THEN t ELSE map[t]]
  BY SameCount DEF V!Contents
<1> HIDE DEF c, N, D
<1>4. DOMAIN c = 1 .. 3 + 2 * N /\ c[1] = Magic /\ c[2] = print /\ c[3] = dim
  BY <1>1, <1>3
<1>5. ASSUME NEW r \in 1 .. N
      PROVE  c[2 * r + 2] = order[r] /\ c[2 * r + 3] = map[order[r]] /\ order[r] \in D
  <2>1. 2 * r + 2 \in 1 .. 3 + 2 * N /\ 2 * r + 3 \in 1 .. 3 + 2 * N
    BY <1>1
  <2>2. (2 * r + 2) % 2 = 0 /\ (2 * r + 2) \div 2 = r + 1 /\ (2 * r + 3) % 2 = 1 /\ (2 * r + 3) \div 2 = r + 1
    OBVIOUS
  <2>3. c[2 * r + 2] = order[r]
    BY <1>3, <2>1, <2>2
  <2>4. c[2 * r + 3] = map[order[r]]
    BY <1>3, <2>1, <2>2
  <2> QED BY <1>2, <2>3, <2>4
<1>6. ASSUME NEW i \in DOMAIN c, i > 3, i % 2 = 0
      PROVE  \E r \in 1 .. N : i = 2 * r + 2 /\ i + 1 = 2 * r + 3
  <2> DEFINE r == (i \div 2) - 1
  <2>1. i \in Int /\ i = 2 * (i \div 2) + (i % 2)
    BY <1>1, <1>4
  <2>2. r \in 1 .. N /\ i = 2 * r + 2
    BY <1>1, <1>4, <1>6, <2>1
  <2> QED BY <2>2
<1>7. ASSUME NEW i \in DOMAIN c, i > 3, i % 2 = 1
      PROVE  \E r \in 1 .. N : i = 2 * r + 3
  <2> DEFINE r == (i \div 2) - 1
  <2>1. i \in Int /\ i = 2 * (i \div 2) + (i % 2)
    BY <1>1, <1>4
  <2>2. r \in 1 .. N /\ i = 2 * r + 3
    BY <1>1, <1>4, <1>7, <2>1, SMTT(30)
  <2> QED BY <2>2
<1>8. D \in SUBSET Texts /\ \A t \in D : map[t] \in Vectors
  BY DEF CacheTyped, D
<1>9. ASSUME NEW i \in 1 .. 3 + 2 * N PROVE c[i] \in Fields
  <2>1. CASE i \in {1, 2, 3}
    BY <1>4, <2>1 DEF CacheTyped, Fields
  <2>2. CASE i > 3
    <3>1. i % 2 = 0 \/ i % 2 = 1
      BY <1>1
    <3>2. PICK r \in 1 .. N : i = 2 * r + 2 \/ i = 2 * r + 3
      BY <1>4, <1>6, <1>7, <2>2, <3>1
    <3> QED BY <1>5, <1>8, <3>2 DEF Fields
  <2> QED BY <1>1, <2>1, <2>2
<1>10. c \in Seq(Fields) /\ Len(c) = 3 + 2 * N
  <2>1. c \in [1 .. 3 + 2 * N -> Fields]
    BY <1>3, <1>9
  <2> QED BY <1>1, <2>1
<1>11. V!Whole(c) = {i \in DOMAIN c : i > 3 /\ i % 2 = 0}
  BY <1>1, <1>4, <1>6, <1>10 DEF V!Whole
<1>12. ASSUME NEW i \in V!Whole(c) PROVE c[i] \in D /\ c[i + 1] = map[c[i]]
  BY <1>5, <1>6, <1>11, <1>12
<1>13. Kept(c)
  <2>1. print \in Models /\ dim \in Nat \ {0}
    BY DEF CacheTyped, MapInv
  <2>2. print \notin mixed => dim = Dim[print] /\ \A t \in D : map[t] = <<print, t>>
    BY DEF MapInv, D
  <2>3. ASSUME NEW n \in PlacesOf(c), n > 3, n % 2 = 0, n < Len(c)
        PROVE c[n] \in Texts /\ c[n + 1] \in Vectors /\ (c[2] \notin mixed => c[n + 1] = <<c[2], c[n]>>)
    <3>1. n \in V!Whole(c)
      BY <1>4, <1>10, <1>11, <2>3 DEF PlacesOf
    <3> QED BY <1>4, <1>8, <1>12, <2>2, <3>1
  <2> QED BY <1>4, <1>10, <2>1, <2>2, <2>3 DEF Kept
<1>14. V!Read(c, print) = map
  <2> DEFINE W == V!Whole(c)
             at(t) == CHOOSE n \in W : c[n] = t
  <2>1. V!Headed(c, print)
    BY <1>1, <1>4, <1>10 DEF V!Headed
  <2>2. V!Read(c, print) = [t \in {c[n] : n \in W} |-> c[at(t) + 1]]
    BY <2>1 DEF V!Read
  <2>3. ASSUME NEW t \in D PROVE \E n \in W : c[n] = t
    <3>1. PICK r \in 1 .. N : order[r] = t
      BY <1>2
    <3>2. 2 * r + 2 \in W
      BY <1>1, <1>4, <1>11
    <3> QED BY <1>5, <3>1, <3>2
  <2>4. {c[n] : n \in W} = D
    BY <1>12, <2>3
  <2>5. \A t \in D : at(t) \in W /\ c[at(t)] = t
    BY <2>3
  <2> HIDE DEF W, at
  <2>6. \A t \in D : c[at(t) + 1] = map[t]
    BY <1>12, <2>5 DEF W
  <2>7. map = [t \in D |-> map[t]]
    BY DEF CacheTyped, D
  <2>8. V!Read(c, print) = [t \in D |-> c[at(t) + 1]]
    BY <2>2, <2>4
  <2> QED BY <2>6, <2>7, <2>8
<1> QED BY <1>1, <1>10, <1>13, <1>14 DEF c

-----------------------------------------------------------------------------
(* VectorFile: its steps *)

\* A file stays one while no model is taken for one that it was not.
LEMMA KeptOn ==
    ASSUME NEW f, Kept(f), mixed \subseteq mixed'
    PROVE  Kept(f)'
BY DEF Kept, PlacesOf, Fields, Vectors

LEMMA CacheStarts == V!Init => CacheInv
<1> SUFFICES ASSUME V!Init PROVE CacheInv
  OBVIOUS
<1>0. Models \subseteq Nat
  BY Assumed
<1>1. Kept(<<>>)
  BY DEF Kept, PlacesOf
<1>2. DOMAIN map = {} /\ map \in [{} -> Vectors]
  BY DEF V!Init, V!Nothing
<1>3. CacheTyped
  BY <1>0, <1>2 DEF V!Init, CacheTyped
<1> QED BY <1>1, <1>3 DEF V!Init, CacheInv, MapInv, FileInv

LEMMA OpenStep == CacheInv /\ V!Open => CacheInv'
<1> SUFFICES ASSUME CacheInv, V!Open PROVE CacheInv'
  OBVIOUS
<1> DEFINE r == V!Read(file, model)
<1>0. Models \subseteq Nat
  BY Assumed
<1>1. /\ pc = "loading" /\ pc' = "up" /\ print' = model /\ map' = r /\ dirty' = FALSE
      /\ dim' = IF V!Headed(file, model) THEN file[3] ELSE 0
      /\ mixed' = IF loaded # model THEN mixed \union {model} ELSE mixed
      /\ UNCHANGED <<model, file, tmp, loaded>>
  BY DEF V!Open
<1>2. Kept(file) /\ Kept(tmp) /\ model \in Models /\ loaded \in Models /\ mixed \in SUBSET Models
  BY <1>1 DEF CacheInv, CacheTyped, FileInv
<1>3. /\ DOMAIN r \in SUBSET Texts /\ r \in [DOMAIN r -> Vectors]
      /\ ~V!Headed(file, model) => DOMAIN r = {}
      /\ model \notin mixed => \A t \in DOMAIN r : r[t] = <<model, t>>
  BY <1>2, ReadLemma
<1>4. V!Headed(file, model) =>
        file[3] \in Nat \ {0} /\ (model \notin mixed => file[3] = Dim[model])
  BY <1>2 DEF V!Headed, Kept
<1>5. Kept(file)' /\ Kept(tmp)'
  BY <1>1, <1>2, KeptOn
<1>6. map' = V!Read(file, print)'
  BY <1>1 DEF V!Read, V!Headed, V!Whole, V!Nothing
<1> HIDE DEF r
<1>7. CacheTyped'
  BY <1>0, <1>1, <1>2, <1>3, <1>4 DEF CacheTyped
<1>8. MapInv'
  BY <1>1, <1>2, <1>3, <1>4 DEF MapInv
<1>9. FileInv'
  BY <1>1, <1>5, <1>6 DEF FileInv
<1> QED BY <1>7, <1>8, <1>9 DEF CacheInv

LEMMA InsertStep == ASSUME NEW t \in Texts PROVE CacheInv /\ V!Insert(t) => CacheInv'
<1> SUFFICES ASSUME CacheInv, V!Insert(t) PROVE CacheInv'
  OBVIOUS
<1> DEFINE v == <<loaded, t>>
           d == IF dim = 0 THEN Dim[loaded] ELSE dim
<1>1. /\ pc = "up" /\ t \notin DOMAIN map /\ dim' = d
      /\ IF Dim[loaded] # d THEN UNCHANGED <<map, dirty>>
         ELSE map' = [u \in DOMAIN map \union {t} |-> IF u = t THEN v ELSE map[u]] /\ dirty' = TRUE
      /\ UNCHANGED <<model, file, tmp, pc, loaded, print, mixed>>
  BY DEF V!Insert, V!VectorOf, V!LengthOf
<1>2. loaded \in Models /\ Dim[loaded] \in Nat \ {0} /\ v \in Vectors /\ d \in Nat \ {0}
  BY <1>1, Assumed DEF CacheInv, CacheTyped, Vectors
<1>3. Kept(file)' /\ Kept(tmp)'
  BY <1>1, KeptOn DEF CacheInv, FileInv
<1>4. CASE Dim[loaded] # d
  <2>1. CacheTyped'
    BY <1>1, <1>2, <1>4 DEF CacheInv, CacheTyped
  <2>2. MapInv'
    BY <1>1, <1>2, <1>4 DEF CacheInv, MapInv
  <2>3. V!Read(file, print)' = V!Read(file, print)
    BY <1>1 DEF V!Read, V!Headed, V!Whole, V!Nothing
  <2>4. FileInv'
    BY <1>1, <1>3, <1>4, <2>3 DEF CacheInv, FileInv
  <2> QED BY <2>1, <2>2, <2>4 DEF CacheInv
<1>5. CASE Dim[loaded] = d
  <2>1. map' = [u \in DOMAIN map \union {t} |-> IF u = t THEN v ELSE map[u]] /\ dirty' = TRUE
    BY <1>1, <1>5
  <2>2. DOMAIN map' = DOMAIN map \union {t} /\ map' = [u \in DOMAIN map' |-> map'[u]]
        /\ map'[t] = v /\ \A u \in DOMAIN map : map'[u] = map[u]
    BY <1>1, <2>1
  <2>3. \A u \in DOMAIN map : map[u] \in Vectors /\ u \in Texts
    BY DEF CacheInv, CacheTyped
  <2> HIDE DEF v, d
  <2>4. map' \in [DOMAIN map' -> Vectors] /\ DOMAIN map' \in SUBSET Texts
    BY <1>2, <2>2, <2>3
  <2>5. CacheTyped'
    BY <1>1, <1>2, <2>1, <2>4 DEF CacheInv, CacheTyped
  <2>6. MapInv'
    BY <1>1, <1>2, <1>5, <2>2 DEF CacheInv, MapInv, v, d
  <2>7. FileInv'
    BY <1>1, <1>3, <2>1 DEF FileInv
  <2> QED BY <2>5, <2>6, <2>7 DEF CacheInv
<1> QED BY <1>4, <1>5

LEMMA WriteTmpStep == CacheInv /\ V!WriteTmp => CacheInv'
<1> SUFFICES ASSUME CacheInv, V!WriteTmp PROVE CacheInv'
  OBVIOUS
<1>1. /\ pc = "up" /\ dirty /\ dim # 0
      /\ UNCHANGED <<model, file, loaded, print, dim, map, dirty, mixed>>
  BY DEF V!WriteTmp
<1>2. PICK order \in V!Arrangements(DOMAIN map) : \E n \in 0 .. Len(V!Contents(order)) :
        /\ tmp' = SubSeq(V!Contents(order), 1, n)
        /\ pc' = IF n = Len(V!Contents(order)) THEN "writing" ELSE "up"
  BY DEF V!WriteTmp
<1> DEFINE c == V!Contents(order)
<1>3. Kept(c) /\ Len(c) \in Nat /\ V!Read(c, print) = map
  BY <1>1, ContentsLemma DEF CacheInv
<1> HIDE DEF c
<1>4. PICK n \in 0 .. Len(c) : tmp' = SubSeq(c, 1, n) /\ pc' = IF n = Len(c) THEN "writing" ELSE "up"
  BY <1>2 DEF c
<1>5. Kept(SubSeq(c, 1, n))
  BY <1>3, <1>4, KeptCut
<1>6. Kept(tmp)' /\ Kept(file)'
  <2>1. Kept(tmp')
    BY <1>4, <1>5
  <2>2. Kept(tmp)'
    BY <1>1, <2>1 DEF Kept, PlacesOf
  <2> QED BY <1>1, <2>2, KeptOn DEF CacheInv, FileInv
<1>7. n = Len(c) => tmp' = c
  BY <1>3, <1>4 DEF Kept
<1>8. ASSUME pc' = "writing" PROVE map' = V!Read(tmp, print)'
  <2>1. tmp' = c
    BY <1>4, <1>7, <1>8
  <2> QED BY <1>1, <1>3, <2>1 DEF V!Read, V!Headed, V!Whole, V!Nothing
<1>9. pc' \in {"up", "writing"}
  BY <1>4
<1>10. CacheTyped'
  BY <1>1, <1>9 DEF CacheInv, CacheTyped
<1>11. MapInv'
  BY <1>1, <1>9 DEF CacheInv, MapInv
<1>12. FileInv'
  BY <1>1, <1>6, <1>8 DEF FileInv
<1> QED BY <1>10, <1>11, <1>12 DEF CacheInv

LEMMA RenameStep == CacheInv /\ V!Rename => CacheInv'
<1> SUFFICES ASSUME CacheInv, V!Rename PROVE CacheInv'
  OBVIOUS
<1>1. /\ pc = "writing" /\ file' = tmp /\ tmp' = <<>> /\ dirty' = FALSE /\ pc' = "up"
      /\ UNCHANGED <<model, loaded, print, dim, map, mixed>>
  BY DEF V!Rename
<1>2. Kept(<<>>) /\ Kept(tmp)
  BY DEF Kept, PlacesOf, CacheInv, FileInv
<1>3. Kept(file)' /\ Kept(tmp)'
  BY <1>1, <1>2 DEF Kept, PlacesOf
<1>4. map' = V!Read(file, print)'
  BY <1>1 DEF CacheInv, FileInv, V!Read, V!Headed, V!Whole, V!Nothing
<1>5. CacheTyped'
  BY <1>1 DEF CacheInv, CacheTyped
<1>6. MapInv'
  BY <1>1 DEF CacheInv, MapInv
<1> QED BY <1>1, <1>3, <1>4, <1>5, <1>6 DEF CacheInv, FileInv

\* Whatever of the files is left when the process ends.
LEMMA DownStep ==
    ASSUME CacheInv, V!Down, NEW n \in 0 .. Len(file), NEW m \in 0 .. Len(tmp),
           file' = SubSeq(file, 1, n), tmp' = SubSeq(tmp, 1, m)
    PROVE  CacheInv'
<1>1. Kept(SubSeq(file, 1, n)) /\ Kept(SubSeq(tmp, 1, m))
  BY KeptCut DEF CacheInv, FileInv
<1>2. mixed' = mixed /\ model' = model
  BY DEF V!Down
<1>3. Kept(file)' /\ Kept(tmp)'
  <2>1. Kept(file') /\ Kept(tmp')
    BY <1>1
  <2> QED BY <1>2, <2>1 DEF Kept, PlacesOf
<1>4. DOMAIN map' = {} /\ map' \in [{} -> Vectors]
  BY DEF V!Down, V!Nothing
<1>5. CacheTyped'
  BY <1>2, <1>4 DEF CacheInv, CacheTyped, V!Down
<1> QED BY <1>3, <1>5 DEF CacheInv, MapInv, FileInv, V!Down

LEMMA CacheStep == CacheInv /\ [FilesNext]_<<part, vars, cacheVars>> => CacheInv'
<1> SUFFICES ASSUME CacheInv, [FilesNext]_<<part, vars, cacheVars>> PROVE CacheInv'
  OBVIOUS
<1>0. Kept(file) /\ Kept(tmp)
  BY DEF CacheInv, FileInv
<1>1. CASE UNCHANGED cacheVars
  <2>1. Kept(file)' /\ Kept(tmp)'
    BY <1>0, <1>1 DEF cacheVars, Kept, PlacesOf
  <2>2. V!Read(file, print)' = V!Read(file, print) /\ V!Read(tmp, print)' = V!Read(tmp, print)
    BY <1>1 DEF cacheVars, V!Read, V!Headed, V!Whole, V!Nothing
  <2>3. CacheTyped' /\ MapInv'
    BY <1>1 DEF cacheVars, CacheInv, CacheTyped, MapInv
  <2>4. FileInv'
    BY <1>1, <2>1, <2>2 DEF cacheVars, CacheInv, FileInv
  <2> QED BY <2>3, <2>4 DEF CacheInv
<1>2. ASSUME NEW m \in Models, V!Deploy(m) PROVE CacheInv'
  <2>1. model' = m /\ UNCHANGED <<file, tmp, pc, loaded, print, dim, map, dirty, mixed>>
    BY <1>2 DEF V!Deploy
  <2>2. Kept(file)' /\ Kept(tmp)'
    BY <1>0, <2>1 DEF Kept, PlacesOf
  <2>3. V!Read(file, print)' = V!Read(file, print) /\ V!Read(tmp, print)' = V!Read(tmp, print)
    BY <2>1 DEF V!Read, V!Headed, V!Whole, V!Nothing
  <2>4. CacheTyped' /\ MapInv'
    BY <2>1 DEF CacheInv, CacheTyped, MapInv
  <2>5. FileInv'
    BY <2>1, <2>2, <2>3 DEF CacheInv, FileInv
  <2> QED BY <2>4, <2>5 DEF CacheInv
<1>3. CASE V!LoadModel
  <2>1. /\ pc' = "loading" /\ loaded' = model
        /\ UNCHANGED <<model, file, tmp, print, dim, map, dirty, mixed>>
    BY <1>3 DEF V!LoadModel
  <2>2. Kept(file)' /\ Kept(tmp)'
    BY <1>0, <2>1, SMTT(30) DEF Kept, PlacesOf
  <2>3. CacheTyped'
    BY <2>1, Assumed DEF CacheInv, CacheTyped
  <2> QED BY <2>1, <2>2, <2>3 DEF CacheInv, MapInv, FileInv
<1>4. CASE V!Open
  BY <1>4, OpenStep
<1>5. CASE V!WriteTmp
  BY <1>5, WriteTmpStep
<1>6. CASE V!Rename
  BY <1>6, RenameStep
<1>7. CASE V!Crash
  <2>1. V!Down /\ file' = file /\ tmp' = tmp
    BY <1>7 DEF V!Crash
  <2>2. file \in Seq(Fields) /\ tmp \in Seq(Fields)
    BY <1>0 DEF Kept
  <2>3. Len(file) \in 0 .. Len(file) /\ Len(tmp) \in 0 .. Len(tmp)
    BY <2>2
  <2>4. file = SubSeq(file, 1, Len(file)) /\ tmp = SubSeq(tmp, 1, Len(tmp))
    BY <2>2
  <2> QED BY <2>1, <2>3, <2>4, DownStep
<1>8. CASE V!PowerLoss
  <2>1. V!Down
    BY <1>8 DEF V!PowerLoss
  <2>2. tmp \in Seq(Fields)
    BY <1>0 DEF Kept
  <2>3. \E n \in 0 .. Len(file) : file' = SubSeq(file, 1, n)
    BY <1>8 DEF V!PowerLoss
  <2>4. \E m \in 0 .. Len(tmp) : tmp' = SubSeq(tmp, 1, m)
    <3>1. PICK m \in {0, Len(tmp)} : tmp' = SubSeq(tmp, 1, m)
      BY <1>8 DEF V!PowerLoss
    <3>2. m \in 0 .. Len(tmp)
      BY <2>2, <3>1
    <3> QED BY <3>1, <3>2
  <2> QED BY <2>1, <2>3, <2>4, DownStep
<1>9. ASSUME NEW t \in Texts, V!Insert(t) PROVE CacheInv'
  BY <1>9, InsertStep
<1> QED BY <1>1, <1>2, <1>3, <1>4, <1>5, <1>6, <1>7, <1>8, <1>9 DEF FilesNext, V!Next

\* Through restarts, crashes, losses of power and replaced models the cache holds
\* what the running model makes of its texts, and what is not dirty is what the
\* next start reads (VectorCache::read, insert, flush).
THEOREM CacheIsOwn == FilesSpec => []CacheHolds
<1>1. FilesInit => CacheInv
  BY CacheStarts DEF FilesInit
<1>2. CacheInv /\ [FilesNext]_<<part, vars, cacheVars>> => CacheInv'
  BY CacheStep
<1>3. CacheInv => CacheHolds
  <2> SUFFICES ASSUME CacheInv PROVE V!OwnVectors /\ V!CleanIsKept
    BY DEF CacheHolds, V!CacheHolds
  <2>1. V!CleanIsKept
    BY DEF V!CleanIsKept, CacheInv, FileInv
  <2>2. ASSUME pc \in {"up", "writing"}, print \notin mixed, NEW t \in DOMAIN map
        PROVE  map[t] = V!VectorOf(loaded, t) /\ V!LengthOf(map[t]) = dim
    <3>1. map[t] = <<print, t>> /\ print = loaded /\ dim = Dim[print]
      BY <2>2 DEF CacheInv, MapInv
    <3> QED BY <3>1 DEF V!VectorOf, V!LengthOf
  <2> QED BY <2>1, <2>2 DEF V!OwnVectors
<1> QED BY <1>1, <1>2, <1>3, PTL DEF FilesSpec

-----------------------------------------------------------------------------
\* A behaviour of the composition is one of AuthBook, whose theorems hold of it.
LEMMA FilesAreBook == FilesSpec => Spec
<1>1. FilesInit => Init
  BY DEF FilesInit
<1>2. [FilesNext]_<<part, vars, cacheVars>> => [Next]_vars
  BY DEF FilesNext
<1> QED BY <1>1, <1>2, PTL DEF FilesSpec, Spec
=============================================================================
