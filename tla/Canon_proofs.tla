----------------------------- MODULE Canon_proofs ----------------------------
(* Theorems about Canon, for any keys and contents.  With every failure and  *)
(* crash: what was answered stays true, in a canon in the layout of today (a  *)
(* migration that dies after its renames leaves HEAD without what the tree    *)
(* has, and the next start does not resume it).  From any flat layout: until  *)
(* a step fails tree, index, HEAD and history stay in step.                   *)
EXTENDS Canon, TLAPS

NothingFlat == FlatKeys = {}

Serving == {"write_file", "stage", "commit", "index", "remove_file", "unstage",
            "commit_removal", "removed"}
Migrating == {"rename", "write_moves", "commit_moves", "drop_closed", "write_dropped",
              "commit_dropped", "migrated"}

-----------------------------------------------------------------------------
(* Types *)

\* Types whatever the layout was: what is staged is a whole file, for a torn
\* one only lies where the request in hand has yet to write.
TypesInv ==
    /\ TypeOK
    /\ \A k \in Keys : tree[k]["flat"] # Torn
    /\ pc \in Serving <=> \E k \in Keys : answered[k].what = "pending"
    /\ pc = "stage" => tree[req.key]["kind"] = req.content


Requests == [key : Keys, content : Contents \union {NoFile}, changed : BOOLEAN, dir : Dirs]

LEMMA NoRequestType ==
    /\ NoRequest \in Requests /\ NoTree \in GitTree /\ NoMoves \in [Keys -> Contents \union {NoFile}]
    /\ \A k \in Keys : NoTree[k] = NoFiles
BY CanonAssumption DEF NoRequest, Request, Requests, Dirs, NoTree, NoFiles, NoMoves, GitTree

LEMMA TypesInit == Init => TypesInv
<1> SUFFICES ASSUME Init PROVE TypesInv
  OBVIOUS
<1>1. PICK was \in [FlatKeys -> Contents], strays \in SUBSET FlatKeys :
        /\ tree = [k \in Keys |-> [d \in Dirs |->
                      IF k \in FlatKeys /\ d = "flat" THEN was[k] ELSE NoFile]]
        /\ head = [k \in Keys |-> IF k \in strays THEN NoFiles ELSE tree[k]]
        /\ index = head
        /\ latest = [k \in Keys |-> head[k]["flat"]]
  BY DEF Init
<1>2. tree \in GitTree /\ NoFiles \in [Dirs -> Contents \union {NoFile}]
  BY <1>1 DEF GitTree, NoFiles
<1>3. head \in GitTree
  BY <1>1, <1>2 DEF GitTree
<1>4. latest \in [Keys -> Contents \union {NoFile}]
  BY <1>1, <1>3 DEF GitTree, Dirs
<1>5. tree \in [Keys -> [Dirs -> Files]] /\ \A k \in Keys : tree[k]["flat"] # Torn
  BY <1>2, CanonAssumption DEF GitTree, Files, Dirs
<1>6. /\ pc = "down" /\ req \in Requests /\ mem \in GitTree /\ moves \in [Keys -> Contents \union {NoFile}]
      /\ answered = [k \in Keys |-> Unasked] /\ faulty = FALSE
  BY NoRequestType DEF Init
<1> QED BY <1>1, <1>3, <1>4, <1>5, <1>6 DEF TypesInv, TypeOK, Requests, Steps, Unasked, Answers, Serving

\* A request ends, with whatever answer.
LEMMA TypesDone ==
    ASSUME TypesInv, pc \in Serving, Done, UNCHANGED <<index, head, latest, moves>>,
           NEW what \in {"failed", "stored", "kept", "removed"}, NEW c \in Contents \union {NoFile},
           answered' = [answered EXCEPT ![req.key] = [what |-> what, content |-> c]],
           \/ tree' = tree
           \/ tree' = [tree EXCEPT ![req.key]["kind"] = Torn],
           faulty' \in BOOLEAN
    PROVE  TypesInv'
<1> USE DEF TypesInv
<1>1. /\ req.key \in Keys /\ "kind" \in Dirs /\ "flat" \in Dirs /\ Torn \in Files
      /\ answered[req.key].what = "pending"
  BY DEF TypeOK, Dirs, Files
<1>2. tree' \in [Keys -> [Dirs -> Files]] /\ \A k \in Keys : tree'[k]["flat"] # Torn
  <2>1. CASE tree' = [tree EXCEPT ![req.key]["kind"] = Torn]
    BY <1>1, <2>1 DEF TypeOK, Dirs
  <2>2. CASE tree' = tree
    BY <2>2 DEF TypeOK
  <2> QED BY <2>1, <2>2
<1>3. answered' \in [Keys -> Answers] /\ \A k \in Keys : answered'[k].what # "pending"
  BY <1>1 DEF TypeOK, Answers
<1>4. pc' = "idle" /\ req' \in Requests /\ mem' \in GitTree
  BY NoRequestType DEF Done
<1> QED BY <1>2, <1>3, <1>4 DEF TypeOK, Requests, Steps, Serving

\* The steps of requests.
LEMMA TypesServe ==
    ASSUME TypesInv, Serve, UNCHANGED faulty
    PROVE  TypesInv'
<1> USE CanonAssumption DEF TypesInv
<1>0. req \in Requests /\ req.key \in Keys /\ req.dir \in Dirs /\ "kind" \in Dirs /\ "flat" \in Dirs
  BY DEF TypeOK, Requests, Dirs
<1>1. ASSUME NEW k \in Keys, (\E c \in Contents : Upsert(k, c)) \/ Remove(k) PROVE TypesInv'
  <2>1. /\ UNCHANGED <<tree, index, head, latest, mem, moves>> /\ pc = "idle"
    BY <1>1 DEF Upsert, Remove, repo
  <2>2. PICK c \in Contents \union {NoFile}, changed \in BOOLEAN, what \in {"failed", "kept", "pending"} :
          /\ answered' = [answered EXCEPT ![k] = [what |-> what, content |-> c]]
          /\ what # "pending" => UNCHANGED <<pc, req>>
          /\ what = "pending" => pc' \in {"write_file", "remove_file"} /\ req' \in Requests /\ req'.key = k
    <3>1. CASE Remove(k)
      <4>1. Request(k, NoFile, TRUE) \in Requests /\ Request(k, NoFile, TRUE).key = k
        BY DEF Request, Requests, Dirs
      <4> QED BY <1>1, <3>1, <4>1 DEF Remove, Answer
    <3>2. ASSUME NEW c \in Contents, Upsert(k, c)
          PROVE  \E what \in {"failed", "kept", "pending"}, d \in {c, NoFile} :
                   /\ answered' = [answered EXCEPT ![k] = [what |-> what, content |-> d]]
                   /\ what # "pending" => UNCHANGED <<pc, req>>
                   /\ what = "pending" =>
                        pc' \in {"write_file", "remove_file"} /\ req' \in Requests /\ req'.key = k
      <4>1. \A changed \in BOOLEAN :
              Request(k, c, changed) \in Requests /\ Request(k, c, changed).key = k
        BY <3>2 DEF Request, Requests, Dirs
      <4> QED BY <3>2, <4>1 DEF Upsert, Answer
    <3> QED BY <1>1, <3>1, <3>2
  <2>3. answered' \in [Keys -> Answers] /\ \A j \in Keys : answered[j].what # "pending"
    BY <2>1, <2>2 DEF TypeOK, Answers
  <2>4. /\ what # "pending" => \A j \in Keys : answered'[j].what # "pending"
        /\ what = "pending" => /\ answered'[k].what = "pending"
                               /\ \A j \in Keys : answered'[j].what = "pending" => j = k
    BY <2>2, <2>3 DEF TypeOK, Answers
  <2> QED BY <2>1, <2>2, <2>3, <2>4 DEF TypeOK, Requests, Steps, Serving
<1>2. CASE WriteFile \/ RemoveFile
  <2>1. PICK d \in Dirs, f \in Contents \union {NoFile} :
          /\ tree' = [tree EXCEPT ![req.key][d] = f] /\ f \in Files
          /\ d = "kind" \/ f = NoFile
          /\ pc' = "stage" => f = req.content /\ d = "kind"
    <3>1. CASE WriteFile
      BY <1>0, <1>2, <3>1 DEF WriteFile, Requests, Files
    <3>2. CASE RemoveFile
      BY <1>0, <1>2, <3>2 DEF RemoveFile, Files, Existing
    <3> QED BY <1>2, <3>1, <3>2
  <2>2. /\ UNCHANGED <<index, head, latest, mem, moves, answered>>
        /\ req' \in Requests /\ req'.key = req.key /\ req'.content = req.content
        /\ pc \in Serving /\ pc' \in {"stage", "unstage"}
    BY <1>0, <1>2 DEF WriteFile, RemoveFile, Serving, Requests, Existing
  <2>3. /\ tree' \in [Keys -> [Dirs -> Files]]
        /\ \A k \in Keys : tree'[k]["flat"] # Torn
        /\ d = "kind" => tree'[req.key]["kind"] = f
    BY <1>0, <2>1 DEF TypeOK, Dirs
  <2> QED BY <2>1, <2>2, <2>3 DEF TypeOK, Requests, Steps, Serving
<1>3. CASE StageUpsert \/ Unstage
  <2>1. PICK d \in Dirs, f \in Contents \union {NoFile} : mem' = [index EXCEPT ![req.key][d] = f]
    BY <1>0, <1>3 DEF StageUpsert, Unstage, Stage, Requests
  <2>2. mem' \in GitTree
    BY <1>0, <2>1 DEF TypeOK, GitTree
  <2>3. /\ index' = mem' /\ UNCHANGED <<tree, head, latest, req, moves, answered>>
        /\ pc \in Serving /\ pc' \in {"commit", "commit_removal"}
    BY <1>3 DEF StageUpsert, Unstage, Stage, Serving
  <2> QED BY <2>2, <2>3 DEF TypeOK, Steps, Serving
<1>4. CASE CommitUpsert \/ CommitRemoval
  <2>1. /\ head' = mem /\ latest' = NewestWith(mem)
        /\ UNCHANGED <<tree, index, mem, moves, answered, req>>
        /\ pc \in Serving /\ pc' \in {"index", "removed"}
    BY <1>4 DEF CommitUpsert, CommitRemoval, Commit, Serving
  <2>2. latest' \in [Keys -> Contents \union {NoFile}]
    BY <2>1 DEF NewestWith, TypeOK, GitTree, Dirs
  <2> QED BY <2>1, <2>2 DEF TypeOK, Steps, Serving
<1>5. CASE IndexUpsert /\ req.content \in Closed
  BY <1>5 DEF IndexUpsert, repo, TypeOK, Steps, Serving
<1>6. CASE (IndexUpsert /\ req.content \notin Closed) \/ Removed
  <2>1. PICK what \in {"stored", "kept", "removed"}, c \in Contents \union {NoFile} :
          answered' = [answered EXCEPT ![req.key] = [what |-> what, content |-> c]]
    <3>1. Stored => answered' = [answered EXCEPT ![req.key] =
                       [what |-> IF req.changed THEN "stored" ELSE "kept", content |-> req.content]]
      BY DEF Stored, Answer
    <3>2. Stored \/ Answer(req.key, "removed", NoFile)
      BY <1>6 DEF IndexUpsert, Removed
    <3> QED BY <1>0, <3>1, <3>2 DEF Answer, Requests
  <2>2. Done /\ UNCHANGED <<tree, index, head, latest, moves>> /\ pc \in Serving
    BY <1>6 DEF IndexUpsert, Removed, repo, Serving
  <2>3. faulty' \in BOOLEAN
    BY DEF TypeOK
  <2> QED BY <2>1, <2>2, <2>3, TypesDone
<1> QED BY <1>1, <1>2, <1>3, <1>4, <1>5, <1>6 DEF Serve

LEMMA TypesFail ==
    ASSUME TypesInv, Fail, faulty' = TRUE
    PROVE  TypesInv'
<1> USE DEF TypesInv
<1>1. PICK what \in {"failed", "stored", "kept"}, c \in Contents \union {NoFile} :
        answered' = [answered EXCEPT ![req.key] = [what |-> what, content |-> c]]
  <2>1. Stored => answered' = [answered EXCEPT ![req.key] =
                     [what |-> IF req.changed THEN "stored" ELSE "kept", content |-> req.content]]
    BY DEF Stored, Answer
  <2>2. Stored \/ Answer(req.key, "failed", NoFile)
    BY DEF Fail, WriteFileFails, WriteFails, RemovalFails, Failed
  <2>3. req.content \in Contents \union {NoFile}
    BY DEF TypeOK
  <2> QED BY <2>1, <2>2, <2>3 DEF Answer
<1>2. /\ Done /\ UNCHANGED <<index, head, latest, moves>> /\ pc \in Serving
      /\ tree' = tree \/ tree' = [tree EXCEPT ![req.key]["kind"] = Torn]
  BY DEF Fail, WriteFileFails, WriteFails, RemovalFails, Failed, repo, Serving
<1> QED BY <1>1, <1>2, TypesDone

LEMMA TypesMigrate ==
    ASSUME TypesInv, Migrate, UNCHANGED faulty
    PROVE  TypesInv'
<1> USE CanonAssumption DEF TypesInv
<1>0. "kind" \in Dirs /\ "flat" \in Dirs
  BY DEF Dirs
<1>1. CASE Start
  <2>1. moves' \in [Keys -> Contents \union {NoFile}]
    BY <1>0, <1>1 DEF Start, TypeOK, Files
  <2>2. mem' \in GitTree /\ pc' \in {"idle", "rename"} /\ pc = "down"
    BY <1>1, NoRequestType DEF Start, TypeOK
  <2> QED BY <1>1, <2>1, <2>2 DEF Start, repo, TypeOK, Steps, Serving
<1>2. ASSUME NEW k \in Keys, Rename(k) \/ DropClosed(k) PROVE TypesInv'
  <2>1. PICK t \in [Dirs -> Contents \union {NoFile}] :
          \/ tree' = [tree EXCEPT ![k] = t] /\ mem' = [mem EXCEPT ![k] = t]
          \/ /\ tree' = [tree EXCEPT ![k]["kind"] = NoFile]
             /\ mem' = [mem EXCEPT ![k]["kind"] = NoFile]
    <3>1. CASE Rename(k)
      <4>1. [kind |-> tree[k]["flat"], flat |-> NoFile] \in [Dirs -> Contents \union {NoFile}]
        BY <1>0 DEF TypeOK, Files, Dirs
      <4> QED BY <3>1, <4>1 DEF Rename
    <3>2. CASE DropClosed(k)
      <4>1. NoFiles \in [Dirs -> Contents \union {NoFile}]
        BY DEF NoFiles
      <4> QED BY <3>2, <4>1 DEF DropClosed
    <3> QED BY <1>2, <3>1, <3>2
  <2>2. /\ tree' \in [Keys -> [Dirs -> Files]] /\ mem' \in GitTree
        /\ \A j \in Keys : tree'[j]["flat"] # Torn
    <3>1. CASE tree' = [tree EXCEPT ![k] = t] /\ mem' = [mem EXCEPT ![k] = t]
      <4>1. t \in [Dirs -> Files] /\ t["flat"] # Torn
        BY <1>0 DEF Files
      <4> QED BY <3>1, <4>1 DEF TypeOK, GitTree
    <3>2. CASE /\ tree' = [tree EXCEPT ![k]["kind"] = NoFile]
               /\ mem' = [mem EXCEPT ![k]["kind"] = NoFile]
      BY <1>0, <3>2 DEF TypeOK, GitTree, Files, Dirs
    <3> QED BY <2>1, <3>1, <3>2
  <2>3. /\ pc' \in Migrating /\ pc \in Migrating
        /\ UNCHANGED <<index, head, latest, req, moves, answered>>
    BY <1>2 DEF Rename, DropClosed, Migrating
  <2> QED BY <2>2, <2>3 DEF TypeOK, Steps, Serving, Migrating
<1>3. CASE WriteMoves \/ WriteDropped
  BY <1>3 DEF WriteMoves, WriteDropped, WriteIndex, TypeOK, Steps, Serving
<1>4. CASE CommitMoves \/ CommitDropped
  <2>1. /\ head' = mem /\ latest' = NewestWith(mem)
        /\ UNCHANGED <<tree, index, mem, moves, answered, req>>
        /\ pc \in Migrating /\ pc' \in Migrating
    BY <1>4 DEF CommitMoves, CommitDropped, Commit, Migrating
  <2>2. latest' \in [Keys -> Contents \union {NoFile}]
    BY <2>1 DEF NewestWith, TypeOK, GitTree, Dirs
  <2> QED BY <2>1, <2>2 DEF TypeOK, Steps, Serving, Migrating
<1>5. CASE Migrated
  <2>1. \A k \in Keys : answered[k].what # "pending"
    BY <1>5 DEF Migrated, Serving
  <2> QED BY <1>5, <2>1, NoRequestType DEF Migrated, Done, repo, TypeOK, Requests, Steps, Serving
<1> QED BY <1>1, <1>2, <1>3, <1>4, <1>5 DEF Migrate

LEMMA TypesStop ==
    ASSUME TypesInv, Stop \/ CrashWriting, faulty' \in BOOLEAN
    PROVE  TypesInv'
<1> USE DEF TypesInv
<1>1. /\ tree' \in [Keys -> [Dirs -> Files]] /\ \A k \in Keys : tree'[k]["flat"] # Torn
  <2>1. CASE Stop
    BY <2>1 DEF Stop, repo, TypeOK
  <2>2. CASE CrashWriting
    BY <2>2 DEF CrashWriting, TypeOK, Files, Dirs
  <2> QED BY <2>1, <2>2
<1>2. answered' \in [Keys -> Answers] /\ \A k \in Keys : answered'[k].what # "pending"
  <2>1. answered' = [k \in Keys |->
           IF answered[k].what = "pending" THEN [what |-> "failed", content |-> NoFile]
           ELSE answered[k]]
    BY DEF Stop, CrashWriting, Stopped
  <2> QED BY <2>1 DEF TypeOK, Answers
<1>3. /\ UNCHANGED <<index, head, latest>> /\ pc' = "down" /\ req' = NoRequest
      /\ mem' = NoTree /\ moves' = NoMoves
  BY DEF Stop, CrashWriting, Stopped, repo
<1> QED BY <1>1, <1>2, <1>3, NoRequestType DEF TypeOK, Requests, Steps, Serving

LEMMA TypesStep == TypesInv /\ [Next]_vars => TypesInv'
<1> SUFFICES ASSUME TypesInv, [Next]_vars PROVE TypesInv'
  OBVIOUS
<1>1. CASE UNCHANGED vars
  BY <1>1 DEF vars, TypesInv, TypeOK
<1>2. Stop => (faulty' = (faulty \/ pc # "idle") => faulty' \in BOOLEAN)
  OBVIOUS
<1> QED BY <1>1, <1>2, TypesServe, TypesFail, TypesMigrate, TypesStop DEF Next

\* Every variable keeps its type whatever fails and whatever the layout was: git
\* never holds a torn file, and a request is pending only while it is served.
THEOREM CanonTypes == Spec => []TypeOK
<1>1. TypesInv => TypeOK
  BY DEF TypesInv
<1> QED BY <1>1, TypesInit, TypesStep, PTL DEF Spec

-----------------------------------------------------------------------------
(* Answers stay true *)

\* No file of the flat layout is anywhere, so the migration has nothing to do.
NoFlat ==
    /\ \A k \in Keys : /\ tree[k]["flat"] = NoFile /\ index[k]["flat"] = NoFile
                       /\ head[k]["flat"] = NoFile /\ mem[k]["flat"] = NoFile
    /\ pc \in Serving \union {"down", "idle"}
    /\ pc \in Serving => req.dir = "kind"
    /\ moves = NoMoves

\* Where the file of an entry stored as c may be.
Allowed(c) == {c} \union (IF c \in Closed THEN {NoFile} ELSE {})

\* c is what history, HEAD, the index and the tree say of k.
Durable(k, c) ==
    /\ latest[k] = c
    /\ tree[k]["kind"] \in Allowed(c)
    /\ index[k]["kind"] \in Allowed(c)
    /\ head[k]["kind"] \in Allowed(c)

AckInv == \A k \in Keys : answered[k].what = "stored" => Durable(k, answered[k].content)

GoneInv ==
    \A k \in Keys : answered[k].what = "removed" =>
        tree[k]["kind"] = NoFile /\ index[k]["kind"] = NoFile /\ head[k]["kind"] = NoFile

\* How far the request has come.
ReqInv ==
    LET k == req.key
        c == req.content
    IN /\ pc \in {"write_file", "stage", "commit", "index"} => IsUpsert
       /\ pc \in {"stage", "commit", "index"} => tree[k]["kind"] = c
       /\ pc \in {"commit", "commit_removal"} => mem = index
       /\ pc = "commit" => index[k]["kind"] = c
       /\ pc = "index" => Durable(k, c)
       /\ pc \in {"remove_file", "unstage", "commit_removal", "removed"} =>
            /\ IsUpsert => c \in Closed
            /\ IsUpsert /\ req.changed => Durable(k, c)
       /\ pc = "remove_file" => tree[k]["kind"] # NoFile
       /\ pc \in {"unstage", "commit_removal", "removed"} => tree[k]["kind"] = NoFile
       /\ pc \in {"commit_removal", "removed"} => index[k]["kind"] = NoFile
       /\ pc = "removed" => head[k]["kind"] = NoFile

CanonInv == TypesInv /\ NoFlat /\ AckInv /\ GoneInv /\ ReqInv

-----------------------------------------------------------------------------
LEMMA CanonInit == NothingFlat /\ Init => CanonInv
<1> SUFFICES ASSUME NothingFlat, Init PROVE CanonInv
  OBVIOUS
<1>1. /\ tree = NoTree /\ head = NoTree /\ index = NoTree
      /\ latest = [k \in Keys |-> NoFile]
  BY DEF Init, NothingFlat, NoFiles, NoTree, Dirs
<1>2. /\ pc = "down" /\ mem = NoTree /\ moves = NoMoves /\ req = NoRequest
      /\ answered = [k \in Keys |-> Unasked]
  BY DEF Init
<1>3. NoFlat /\ AckInv /\ GoneInv /\ ReqInv
  BY <1>1, <1>2 DEF NoFlat, AckInv, GoneInv, ReqInv, NoTree, NoFiles, Dirs, Unasked, Serving
<1> QED BY <1>3, TypesInit DEF CanonInv

-----------------------------------------------------------------------------
\* A request is accepted, or answered at once from what is in the tree.
LEMMA AcceptCanon ==
    ASSUME CanonInv, NEW k \in Keys, (\E c \in Contents : Upsert(k, c)) \/ Remove(k), TypesInv'
    PROVE  CanonInv'
<1> USE DEF CanonInv, TypesInv
<1>1. /\ UNCHANGED <<tree, index, head, latest, mem, moves>> /\ pc = "idle"
  BY DEF Upsert, Remove, repo
<1>2. /\ File(k) = tree[k]["kind"]
      /\ Existing(k) = "flat" => tree[k]["kind"] = NoFile
  BY DEF File, Existing, NoFlat
<1> DEFINE Accepted(c, changed, step) ==
             /\ req' = [key |-> k, content |-> c, changed |-> changed, dir |-> "kind"]
             /\ pc' = step
             /\ answered' = [answered EXCEPT ![k] = [what |-> "pending", content |-> NoFile]]
           Refused(what, c) ==
             /\ UNCHANGED <<pc, req>>
             /\ answered' = [answered EXCEPT ![k] = [what |-> what, content |-> c]]
<1>3. \/ Refused("failed", NoFile)
      \/ \E c \in Contents :
           \/ Refused("kept", c)
           \/ Accepted(c, TRUE, "write_file")
           \/ c \in Closed /\ File(k) = c /\ Accepted(c, FALSE, "remove_file")
      \/ File(k) # NoFile /\ Accepted(NoFile, TRUE, "remove_file")
  BY DEF Upsert, Remove, Answer, Request
<1>4. CASE \E what \in {"failed", "kept"}, c \in Contents \union {NoFile} : Refused(what, c)
  <2>1. PICK what \in {"failed", "kept"}, c \in Contents \union {NoFile} : Refused(what, c)
    BY <1>4
  <2>2. NoFlat' /\ AckInv' /\ GoneInv'
    BY <1>1, <2>1 DEF NoFlat, AckInv, GoneInv, Durable, TypeOK
  <2>3. ReqInv'
    BY <1>1, <2>1 DEF ReqInv, Serving, IsUpsert
  <2> QED BY <2>2, <2>3
<1>5. CASE \E c \in Contents \union {NoFile}, changed \in BOOLEAN :
             \/ c # NoFile /\ Accepted(c, changed, "write_file")
             \/ /\ tree[k]["kind"] # NoFile /\ (c # NoFile => c \in Closed /\ ~changed)
                /\ Accepted(c, changed, "remove_file")
  <2>1. PICK c \in Contents \union {NoFile}, changed \in BOOLEAN, step \in {"write_file", "remove_file"} :
           /\ Accepted(c, changed, step)
           /\ step = "write_file" => c # NoFile
           /\ step = "remove_file" => tree[k]["kind"] # NoFile /\ (c # NoFile => c \in Closed /\ ~changed)
    BY <1>5
  <2>2. \A j \in Keys : answered[j].what # "pending"
    BY <1>1 DEF TypeOK
  <2>3. /\ answered' \in [Keys -> Answers]
        /\ answered'[k].what = "pending"
        /\ \A j \in Keys : answered'[j].what # "pending" => answered'[j] = answered[j]
        /\ \A j \in Keys : answered'[j].what = "pending" => j = k
    BY <2>1, <2>2 DEF TypeOK, Answers
  <2>4. NoFlat' /\ AckInv' /\ GoneInv'
    BY <1>1, <2>1, <2>3 DEF NoFlat, AckInv, GoneInv, Durable, Serving
  <2>5. ReqInv'
    BY <1>1, <2>1, <2>3 DEF ReqInv, IsUpsert
  <2> QED BY <2>4, <2>5
<1> QED BY <1>2, <1>3, <1>4, <1>5, CanonAssumption

\* What is known of the request while it is served.
LEMMA Served ==
    ASSUME CanonInv, pc \in Serving
    PROVE  /\ req.key \in Keys /\ req.content \in Contents \union {NoFile}
           /\ req.dir = "kind" /\ answered[req.key].what = "pending"
           /\ pc \notin {"down", "idle"}
BY DEF CanonInv, TypesInv, TypeOK, NoFlat, Serving

\* The file is written or removed: only the requested entry's file changes.
LEMMA FileCanon ==
    ASSUME CanonInv, WriteFile \/ RemoveFile, TypesInv'
    PROVE  CanonInv'
<1> DEFINE k == req.key
<1> USE DEF CanonInv, TypesInv
<1>1. /\ pc \in {"write_file", "remove_file"} /\ pc \in Serving
      /\ UNCHANGED <<index, head, latest, mem, moves, answered>>
  BY DEF WriteFile, RemoveFile, Serving
<1>2. k \in Keys /\ req.content \in Contents \union {NoFile} /\ req.dir = "kind"
  BY <1>1, Served
<1>3. PICK f \in Contents \union {NoFile} :
        /\ tree' = [tree EXCEPT ![k]["kind"] = f]
        /\ UNCHANGED req
        /\ \/ pc = "write_file" /\ f = req.content /\ pc' = "stage"
           \/ pc = "remove_file" /\ f = NoFile /\ pc' = "unstage"
  <2>1. CASE WriteFile
    BY <2>1, <1>2 DEF WriteFile
  <2>2. CASE RemoveFile
    <3>1. Existing(k) = "kind"
      BY <2>2 DEF RemoveFile, Existing, ReqInv
    <3>2. req' = req
      BY <2>2, <3>1, <1>2 DEF RemoveFile, TypeOK
    <3> QED BY <2>2, <3>1, <3>2 DEF RemoveFile
  <2> QED BY <2>1, <2>2
<1>4. /\ tree'[k]["kind"] = f
      /\ \A j \in Keys : tree'[j]["flat"] = tree[j]["flat"] /\ (j # k => tree'[j] = tree[j])
  BY <1>2, <1>3 DEF TypeOK, Dirs
<1>5. NoFlat'
  BY <1>1, <1>3, <1>4 DEF NoFlat, Serving
<1>6. answered[k].what = "pending"
  BY <1>1, Served
<1>7. AckInv' /\ GoneInv'
  BY <1>1, <1>4, <1>6 DEF AckInv, GoneInv, Durable
<1>8. ReqInv'
  BY <1>1, <1>2, <1>3, <1>4, <1>6 DEF ReqInv, IsUpsert, Durable, Allowed
<1> QED BY <1>5, <1>7, <1>8

\* The index follows the tree: only the requested entry's path changes.
LEMMA StageCanon ==
    ASSUME CanonInv, StageUpsert \/ Unstage, TypesInv'
    PROVE  CanonInv'
<1> DEFINE k == req.key
<1> USE DEF CanonInv, TypesInv
<1>1. /\ pc \in {"stage", "unstage"} /\ pc \in Serving
      /\ UNCHANGED <<tree, head, latest, req, moves, answered>>
      /\ mem' = index'
  BY DEF StageUpsert, Unstage, Stage, Serving
<1>2. /\ k \in Keys /\ req.content \in Contents \union {NoFile} /\ req.dir = "kind"
      /\ answered[k].what = "pending"
  BY <1>1, Served
<1>3. PICK f \in Contents \union {NoFile} :
        /\ index' = [index EXCEPT ![k]["kind"] = f]
        /\ \/ pc = "stage" /\ f = req.content /\ pc' = "commit"
           \/ pc = "unstage" /\ f = NoFile /\ pc' = "commit_removal"
  BY <1>2 DEF StageUpsert, Unstage, Stage, ReqInv
<1>4. /\ index'[k]["kind"] = f
      /\ \A j \in Keys : index'[j]["flat"] = index[j]["flat"] /\ (j # k => index'[j] = index[j])
  BY <1>2, <1>3 DEF TypeOK, GitTree, Dirs
<1>5. NoFlat'
  BY <1>1, <1>3, <1>4 DEF NoFlat, Serving
<1>6. AckInv' /\ GoneInv'
  BY <1>1, <1>2, <1>4 DEF AckInv, GoneInv, Durable
<1>7. ReqInv'
  BY <1>1, <1>2, <1>3, <1>4 DEF ReqInv, IsUpsert, Durable, Allowed
<1> QED BY <1>5, <1>6, <1>7

\* The commit makes HEAD the index: what is durable in one is in the other.
LEMMA CommitCanon ==
    ASSUME CanonInv, CommitUpsert \/ CommitRemoval, TypesInv'
    PROVE  CanonInv'
<1> DEFINE k == req.key
<1> USE DEF CanonInv, TypesInv
<1>1. /\ UNCHANGED <<tree, index, mem, moves, answered, req>>
      /\ head' = mem /\ latest' = NewestWith(mem)
      /\ \/ pc = "commit" /\ pc' = "index"
         \/ pc = "commit_removal" /\ pc' = "removed"
  BY DEF CommitUpsert, CommitRemoval, Commit
<1>2. pc \in Serving
  BY <1>1 DEF Serving
<1>3. k \in Keys /\ answered[k].what = "pending"
  BY <1>2, Served
<1>4. mem = index
  BY <1>1 DEF ReqInv
<1>5. \A j \in Keys : latest'[j] = IF index[j]["kind"] # NoFile THEN index[j]["kind"] ELSE latest[j]
  BY <1>1, <1>4 DEF NewestWith, NoFlat
<1>6. NoFlat'
  BY <1>1, <1>4 DEF NoFlat, Serving
<1>7. AckInv' /\ GoneInv'
  BY <1>1, <1>4, <1>5 DEF AckInv, GoneInv, Durable, Allowed
<1>8. ReqInv'
  BY <1>1, <1>3, <1>4, <1>5 DEF ReqInv, IsUpsert, Durable, Allowed
<1> QED BY <1>6, <1>7, <1>8

\* A closing write has been committed and goes on to archive.
LEMMA ArchiveCanon ==
    ASSUME CanonInv, IndexUpsert, req.content \in Closed, TypesInv'
    PROVE  CanonInv'
<1> USE DEF CanonInv, TypesInv
<1>1. /\ UNCHANGED <<tree, index, head, latest, mem, moves, req, answered>>
      /\ pc = "index" /\ pc' = "remove_file" /\ req.content # NoFile
  BY CanonAssumption DEF IndexUpsert, repo
<1>2. pc \in Serving /\ pc' \in Serving
  BY <1>1 DEF Serving
<1>3. NoFlat' /\ AckInv' /\ GoneInv'
  BY <1>1, <1>2 DEF NoFlat, AckInv, GoneInv, Durable
<1>4. ReqInv'
  BY <1>1, <1>2 DEF ReqInv, IsUpsert, Durable
<1> QED BY <1>3, <1>4

\* The request ends with an answer that is true, whatever became of the file.
LEMMA AnswerLemma ==
    ASSUME CanonInv, pc \in Serving, Done, UNCHANGED <<index, head, latest, moves>>,
           NEW what \in {"failed", "stored", "kept", "removed"},
           NEW c \in Contents \union {NoFile}, Answer(req.key, what, c),
           NEW f \in Files, tree' = [tree EXCEPT ![req.key]["kind"] = f],
           what = "stored" => Durable(req.key, c) /\ f \in Allowed(c),
           what = "removed" => /\ f = NoFile /\ index[req.key]["kind"] = NoFile
                               /\ head[req.key]["kind"] = NoFile, TypesInv'
    PROVE  CanonInv'
<1> DEFINE k == req.key
<1> USE DEF CanonInv, TypesInv
<1>1. k \in Keys /\ answered[k].what = "pending"
  BY Served
<1>2. pc' = "idle" /\ req' = NoRequest /\ mem' = NoTree
  BY DEF Done
<1>3. answered' = [answered EXCEPT ![k] = [what |-> what, content |-> c]]
  BY DEF Answer
<1>4. /\ tree'[k]["kind"] = f
      /\ \A j \in Keys : tree'[j]["flat"] = tree[j]["flat"] /\ (j # k => tree'[j] = tree[j])
  BY <1>1 DEF TypeOK, Dirs
<1>5. /\ answered' \in [Keys -> Answers]
      /\ answered'[k].what = what /\ answered'[k].content = c
      /\ \A j \in Keys : j # k => answered'[j] = answered[j]
      /\ \A j \in Keys : answered'[j].what # "pending"
  BY <1>1, <1>3 DEF TypeOK, Answers
<1>6. \A j \in Keys : NoTree[j]["flat"] = NoFile
  BY NoRequestType DEF NoFiles, Dirs
<1>7. NoFlat'
  BY <1>2, <1>4, <1>6 DEF NoFlat, Serving
<1>8. AckInv' /\ GoneInv'
  BY <1>1, <1>4, <1>5 DEF AckInv, GoneInv, Durable
<1>9. ReqInv'
  BY <1>2 DEF ReqInv, Serving
<1> QED BY <1>7, <1>8, <1>9

LEMMA EndCanon ==
    ASSUME CanonInv, (IndexUpsert /\ req.content \notin Closed) \/ Removed \/ Fail, TypesInv'
    PROVE  CanonInv'
<1> DEFINE k == req.key
           here == tree[k]["kind"]
<1>1. pc \in Serving
  BY DEF IndexUpsert, Removed, Fail, WriteFileFails, WriteFails, RemovalFails, Serving
<1>2. k \in Keys /\ req.content \in Contents \union {NoFile} /\ req.changed \in BOOLEAN
  BY <1>1, Served DEF CanonInv, TypesInv, TypeOK
<1>3. here \in Files /\ tree = [tree EXCEPT ![k]["kind"] = here]
  BY <1>2 DEF CanonInv, TypesInv, TypeOK, Dirs
<1>4. NoFile \in Files /\ Torn \in Files
  BY DEF Files
<1>5. Stored <=> Answer(k, IF req.changed THEN "stored" ELSE "kept", req.content)
  BY DEF Stored
<1>6. CASE IndexUpsert /\ req.content \notin Closed
  <2>1. /\ Done /\ Stored /\ UNCHANGED <<tree, index, head, latest, moves>>
        /\ Durable(k, req.content) /\ here \in Allowed(req.content)
    BY <1>6 DEF IndexUpsert, repo, CanonInv, ReqInv, Durable
  <2> QED BY <1>1, <1>2, <1>3, <1>5, <2>1, AnswerLemma
<1>7. CASE Removed
  <2>1. /\ Done /\ UNCHANGED <<tree, index, head, latest, moves>>
        /\ IF IsUpsert THEN Stored ELSE Answer(k, "removed", NoFile)
        /\ here = NoFile /\ index[k]["kind"] = NoFile /\ head[k]["kind"] = NoFile
        /\ IsUpsert /\ req.changed => Durable(k, req.content)
    BY <1>7 DEF Removed, repo, CanonInv, ReqInv
  <2>2. CASE IsUpsert
    BY <1>1, <1>2, <1>3, <1>5, <2>1, <2>2, AnswerLemma DEF Durable
  <2>3. CASE ~IsUpsert
    BY <1>1, <1>2, <1>3, <2>1, <2>3, AnswerLemma
  <2> QED BY <2>2, <2>3
<1>8. CASE WriteFileFails
  <2>1. /\ Done /\ UNCHANGED <<index, head, latest, moves>> /\ Answer(k, "failed", NoFile)
        /\ tree' = tree \/ tree' = [tree EXCEPT ![k]["kind"] = Torn]
    BY <1>8 DEF WriteFileFails, Failed
  <2> QED BY <1>1, <1>3, <1>4, <2>1, AnswerLemma
<1>9. CASE WriteFails
  <2>1. /\ Done /\ UNCHANGED <<tree, index, head, latest, moves>> /\ Answer(k, "failed", NoFile)
    BY <1>9 DEF WriteFails, Failed, repo
  <2> QED BY <1>1, <1>3, <2>1, AnswerLemma
<1>10. CASE RemovalFails
  <2>1. /\ Done /\ UNCHANGED <<tree, index, head, latest, moves>>
        /\ IF IsUpsert THEN Stored ELSE Answer(k, "failed", NoFile)
        /\ IsUpsert /\ req.changed => Durable(k, req.content)
    BY <1>10 DEF RemovalFails, repo, CanonInv, ReqInv
  <2>2. CASE IsUpsert
    BY <1>1, <1>2, <1>3, <1>5, <2>1, <2>2, AnswerLemma DEF Durable
  <2>3. CASE ~IsUpsert
    BY <1>1, <1>2, <1>3, <2>1, <2>3, AnswerLemma
  <2> QED BY <2>2, <2>3
<1> QED BY <1>6, <1>7, <1>8, <1>9, <1>10 DEF Fail

-----------------------------------------------------------------------------
\* The process stops or dies, wherever it is.
LEMMA StopCanon ==
    ASSUME CanonInv, Stop \/ CrashWriting, TypesInv'
    PROVE  CanonInv'
<1> DEFINE k == req.key
<1> USE DEF CanonInv, TypesInv
<1>1. /\ UNCHANGED <<index, head, latest>>
      /\ pc' = "down" /\ req' = NoRequest /\ mem' = NoTree /\ moves' = NoMoves
  BY DEF Stop, CrashWriting, Stopped, repo
<1>2. /\ tree' \in [Keys -> [Dirs -> Files]]
      /\ \A j \in Keys : /\ tree'[j]["flat"] = tree[j]["flat"]
                         /\ answered[j].what # "pending" => tree'[j] = tree[j]
  <2>1. CASE Stop
    BY <2>1 DEF Stop, repo, TypeOK
  <2>2. CASE CrashWriting
    <3>1. k \in Keys /\ answered[k].what = "pending"
      BY <2>2, Served DEF CrashWriting, Serving
    <3> QED BY <2>2, <3>1 DEF CrashWriting, TypeOK, Files, Dirs
  <2> QED BY <2>1, <2>2
<1>3. answered' = [j \in Keys |->
           IF answered[j].what = "pending" THEN [what |-> "failed", content |-> NoFile]
           ELSE answered[j]]
  BY DEF Stop, CrashWriting, Stopped
<1>4. /\ answered' \in [Keys -> Answers]
      /\ \A j \in Keys : answered'[j].what # "pending"
      /\ \A j \in Keys : answered'[j].what \in {"stored", "removed"} => answered'[j] = answered[j]
  BY <1>3 DEF TypeOK, Answers
<1>5. \A j \in Keys : NoTree[j]["flat"] = NoFile
  BY NoRequestType DEF NoFiles, Dirs
<1>6. NoFlat'
  BY <1>1, <1>2, <1>5 DEF NoFlat, Serving
<1>7. AckInv' /\ GoneInv'
  <2>1. \A j \in Keys : answered'[j].what \in {"stored", "removed"} =>
          answered'[j] = answered[j] /\ tree'[j] = tree[j]
    BY <1>2, <1>4
  <2> QED BY <1>1, <2>1 DEF AckInv, GoneInv, Durable
<1>8. ReqInv'
  BY <1>1 DEF ReqInv, Serving
<1> QED BY <1>6, <1>7, <1>8

\* It starts, and finds nothing to migrate.
LEMMA StartCanon ==
    ASSUME CanonInv, Migrate, TypesInv'
    PROVE  CanonInv'
<1> USE DEF CanonInv, TypesInv
<1>1. Start
  BY DEF Migrate, Rename, WriteMoves, WriteIndex, CommitMoves, DropClosed, WriteDropped,
         CommitDropped, Commit, Migrated, NoFlat, Serving
<1>2. moves' = NoMoves
  BY <1>1 DEF Start, NoFlat, NoMoves
<1>3. pc = "down" /\ pc' = "idle" /\ mem' = NoTree /\ UNCHANGED <<tree, index, head, latest, req, answered>>
  BY <1>1, <1>2 DEF Start, repo
<1>4. \A j \in Keys : NoTree[j]["flat"] = NoFile
  BY NoRequestType DEF NoFiles, Dirs
<1>5. NoFlat' /\ AckInv' /\ GoneInv' /\ ReqInv'
  BY <1>2, <1>3, <1>4 DEF NoFlat, AckInv, GoneInv, ReqInv, Durable, Serving
<1> QED BY <1>5

LEMMA CanonStep == CanonInv /\ [Next]_vars => CanonInv'
<1> SUFFICES ASSUME CanonInv, [Next]_vars PROVE CanonInv'
  OBVIOUS
<1>0. TypesInv'
  BY TypesStep DEF CanonInv
<1>1. CASE Serve
  BY <1>0, <1>1, AcceptCanon, FileCanon, StageCanon, CommitCanon, ArchiveCanon, EndCanon DEF Serve
<1>2. CASE Fail
  BY <1>0, <1>2, EndCanon
<1>3. CASE Migrate
  BY <1>0, <1>3, StartCanon
<1>4. CASE Stop \/ CrashWriting
  BY <1>0, <1>4, StopCanon
<1>5. CASE UNCHANGED vars
  BY <1>5, <1>0 DEF vars, CanonInv, NoFlat, AckInv, GoneInv, ReqInv, Durable, IsUpsert
<1> QED BY <1>1, <1>2, <1>3, <1>4, <1>5 DEF Next

LEMMA CanonInvariant ==
    ASSUME NothingFlat PROVE Spec => []CanonInv
<1>1. Init => CanonInv
  BY CanonInit
<1> QED BY <1>1, CanonStep, PTL DEF Spec

\* What a write answered with changed:true stored is its entry's newest version
\* in history, and nothing else is at HEAD or in the tree, however many other
\* writes fail, crash or follow (store.rs upsert, commit_path).
THEOREM AckedStaysDurable ==
    ASSUME NothingFlat PROVE Spec => []AckedDurable
<1>1. CanonInv => AckedDurable
  BY DEF CanonInv, AckInv, AckedDurable, Durable, Allowed
<1> QED BY <1>1, CanonInvariant, PTL

\* An entry whose removal was answered is nowhere until it is written again
\* (store.rs remove_file, commit_path).
THEOREM RemovedStaysRemoved ==
    ASSUME NothingFlat PROVE Spec => []RemovedForGood
<1>1. CanonInv => RemovedForGood
  <2> SUFFICES ASSUME CanonInv, NEW k \in Keys, answered[k].what = "removed"
               PROVE  tree[k] = NoFiles /\ index[k] = NoFiles /\ head[k] = NoFiles
    BY DEF RemovedForGood
  <2>1. /\ tree[k]["kind"] = NoFile /\ index[k]["kind"] = NoFile /\ head[k]["kind"] = NoFile
        /\ tree[k]["flat"] = NoFile /\ index[k]["flat"] = NoFile /\ head[k]["flat"] = NoFile
    BY DEF CanonInv, GoneInv, NoFlat
  <2>2. tree[k] \in [Dirs -> Files] /\ index[k] \in [Dirs -> Files] /\ head[k] \in [Dirs -> Files]
    BY DEF CanonInv, TypesInv, TypeOK, GitTree, Files
  <2> QED BY <2>1, <2>2 DEF NoFiles, Dirs
<1> QED BY <1>1, CanonInvariant, PTL

-----------------------------------------------------------------------------
(* Until a step fails *)

\* Tree, index and HEAD have the entry in the layout path or not at all, and
\* what they have is live and the newest version.
InStep(k) ==
    /\ index[k] = tree[k] /\ head[k] = tree[k]
    /\ tree[k]["flat"] = NoFile /\ tree[k]["kind"] \notin Closed \union {Torn}
    /\ tree[k]["kind"] # NoFile => latest[k] = tree[k]["kind"]

\* The flat canon before its migration: committed, or nobody has committed it.
Unmoved(k) ==
    /\ index[k] = head[k] /\ head[k] \in {NoFiles, tree[k]} /\ latest[k] = head[k]["flat"]
    /\ tree[k]["kind"] = NoFile
    /\ answered[k].what = "nothing"

Moved(k) == [d \in Dirs |-> IF d = "kind" THEN moves[k] ELSE NoFile]
Left(k) == [d \in Dirs |-> IF d = "flat" THEN moves[k] ELSE NoFile]

\* How far the migration has come with an entry.
MovedInv(k) ==
    /\ answered[k].what = "nothing"
    /\ pc \in {"rename", "write_moves", "commit_moves"} => latest[k] \in {NoFile, moves[k]}
    /\ pc \in {"drop_closed", "write_dropped", "commit_dropped"} => latest[k] = moves[k]
    /\ pc = "rename" => \/ tree[k] = Left(k) /\ mem[k] \in {NoFiles, tree[k]}
                        \/ tree[k] = Moved(k) /\ mem[k] = tree[k]
    /\ pc \in {"write_moves", "commit_moves"} => tree[k] = Moved(k) /\ mem[k] = tree[k]
    /\ pc = "commit_moves" => index[k] = tree[k]
    /\ pc = "drop_closed" => /\ mem[k] = tree[k]
                             /\ tree[k] = Moved(k) \/ (tree[k] = NoFiles /\ moves[k] \in Closed)
    /\ pc \in {"write_dropped", "commit_dropped"} =>
         mem[k] = tree[k] /\ tree[k] = (IF moves[k] \in Closed THEN NoFiles ELSE Moved(k))
    /\ pc = "commit_dropped" => index[k] = tree[k]
    /\ pc = "migrated" => InStep(k)

\* How far the request has come with its own entry.
OwnInv ==
    LET k == req.key
        c == req.content
    IN /\ tree[k]["flat"] = NoFile /\ index[k]["flat"] = NoFile /\ head[k]["flat"] = NoFile
       /\ req.dir = "kind"
       /\ pc = "write_file" => InStep(k)
       /\ pc \in {"write_file", "stage", "commit", "index"} => IsUpsert
       /\ pc \in {"stage", "commit", "index"} => tree[k]["kind"] = c
       /\ pc \in {"commit", "commit_removal"} => mem = index
       /\ pc = "commit" => index[k] = tree[k]
       /\ pc \in {"index", "remove_file"} =>
            index[k] = tree[k] /\ head[k] = tree[k] /\ latest[k] = tree[k]["kind"]
       /\ pc = "remove_file" => tree[k]["kind"] # NoFile
       /\ pc \in {"remove_file", "unstage", "commit_removal", "removed"} /\ IsUpsert =>
            c \in Closed /\ latest[k] = c
       /\ pc \in {"unstage", "commit_removal", "removed"} => tree[k]["kind"] = NoFile
       /\ pc \in {"commit_removal", "removed"} => index[k] = tree[k]
       /\ pc = "removed" => head[k] = tree[k]

\* An accepted version is the newest of its entry.
AcceptedInv ==
    \A k \in Keys : answered[k].what \in {"stored", "kept"} => latest[k] = answered[k].content

CleanInv ==
    /\ AcceptedInv
    /\ pc = "down" => (\A k \in Keys : InStep(k)) \/ (\A k \in Keys : Unmoved(k))
    /\ pc \in Migrating => \A k \in Keys : MovedInv(k)
    /\ pc = "idle" => \A k \in Keys : InStep(k)
    /\ pc \in Serving => OwnInv /\ \A k \in Keys \ {req.key} : InStep(k)

LEMMA SameFiles ==
    ASSUME NEW f \in [Dirs -> Files], NEW g \in [Dirs -> Files],
           f["kind"] = g["kind"], f["flat"] = g["flat"]
    PROVE  f = g
BY DEF Dirs

LEMMA FilesOf ==
    ASSUME TypesInv, NEW k \in Keys
    PROVE  /\ tree[k] \in [Dirs -> Files] /\ index[k] \in [Dirs -> Files]
           /\ head[k] \in [Dirs -> Files] /\ mem[k] \in [Dirs -> Files]
           /\ NoFiles \in [Dirs -> Files] /\ NoFiles["kind"] = NoFile /\ NoFiles["flat"] = NoFile
           /\ "kind" \in Dirs /\ "flat" \in Dirs
<1>1. GitTree \subseteq [Keys -> [Dirs -> Files]]
  BY DEF GitTree, Files
<1> QED BY <1>1 DEF TypesInv, TypeOK, NoFiles, Dirs, Files

\* The request in hand.
LEMMA InHand ==
    ASSUME TypesInv, CleanInv, pc \in Serving
    PROVE  /\ req.key \in Keys /\ req.content \in Contents \union {NoFile}
           /\ answered[req.key].what = "pending" /\ OwnInv
           /\ \A j \in Keys : j # req.key => InStep(j)
BY DEF TypesInv, TypeOK, CleanInv

LEMMA AcceptClean ==
    ASSUME TypesInv, CleanInv, NEW k \in Keys, (\E c \in Contents : Upsert(k, c)) \/ Remove(k)
    PROVE  CleanInv'
<1>1. /\ UNCHANGED <<tree, index, head, latest, mem, moves>> /\ pc = "idle"
      /\ \A j \in Keys : InStep(j)
  BY DEF Upsert, Remove, repo, CleanInv
<1>2. \A j \in Keys : InStep(j)'
  BY <1>1 DEF InStep
<1>3. File(k) = tree[k]["kind"] /\ tree[k]["kind"] \notin Closed \union {Torn}
  BY <1>1 DEF File, Existing, InStep
<1> DEFINE Accepted(c, step) ==
             /\ req' = [key |-> k, content |-> c, changed |-> TRUE, dir |-> "kind"]
             /\ pc' = step
             /\ answered' = [answered EXCEPT ![k] = [what |-> "pending", content |-> NoFile]]
           Refused(c) ==
             /\ UNCHANGED <<pc, req>>
             /\ answered' = [answered EXCEPT ![k] = [what |-> "kept", content |-> c]]
<1>4. \/ \E c \in Contents : Refused(c) /\ c = tree[k]["kind"]
      \/ \E c \in Contents : Accepted(c, "write_file")
      \/ tree[k]["kind"] # NoFile /\ Accepted(NoFile, "remove_file")
  BY <1>3 DEF Upsert, Remove, Answer, Request
<1>5. ASSUME NEW c \in Contents, Refused(c), c = tree[k]["kind"] PROVE CleanInv'
  <2>1. latest[k] = c
    BY <1>1, <1>5, CanonAssumption DEF InStep
  <2>2. AcceptedInv'
    BY <1>1, <1>5, <2>1 DEF AcceptedInv, CleanInv, TypesInv, TypeOK
  <2> QED BY <1>1, <1>2, <1>5, <2>2 DEF CleanInv, Serving, Migrating
<1>6. ASSUME NEW c \in Contents \union {NoFile}, NEW step \in {"write_file", "remove_file"},
             Accepted(c, step), step = "write_file" <=> c # NoFile,
             step = "remove_file" => tree[k]["kind"] # NoFile
      PROVE  CleanInv'
  <2>1. AcceptedInv'
    BY <1>1, <1>6 DEF AcceptedInv, CleanInv, TypesInv, TypeOK
  <2>2. OwnInv'
    BY <1>1, <1>2, <1>6 DEF OwnInv, InStep, IsUpsert
  <2> QED BY <1>1, <1>2, <1>6, <2>1, <2>2 DEF CleanInv, Serving, Migrating
<1> HIDE DEF Accepted, Refused
<1> QED BY <1>4, <1>5, <1>6, CanonAssumption

\* What a step of a request has to establish: it leaves the other entries alone.
LEMMA StepClean ==
    ASSUME TypesInv, CleanInv, pc \in Serving, pc' \in Serving, OwnInv',
           req'.key = req.key, UNCHANGED answered,
           \A j \in Keys : j # req.key =>
             /\ tree'[j] = tree[j] /\ index'[j] = index[j] /\ head'[j] = head[j]
             /\ latest'[j] = latest[j]
    PROVE  CleanInv'
<1>1. \A j \in Keys : j # req'.key => InStep(j)'
  BY InHand DEF InStep
<1>2. AcceptedInv'
  BY InHand DEF AcceptedInv, CleanInv
<1> QED BY <1>1, <1>2 DEF CleanInv, Serving, Migrating

LEMMA FileClean ==
    ASSUME TypesInv, CleanInv, WriteFile \/ RemoveFile
    PROVE  CleanInv'
<1>1. pc \in Serving /\ pc' \in Serving
  BY DEF WriteFile, RemoveFile, Serving
<1>2. PICK k \in Keys : k = req.key
  BY <1>1, InHand
<1>3. OwnInv /\ answered[k].what = "pending" /\ req \in Requests
  BY <1>1, <1>2, InHand DEF TypesInv, TypeOK, Requests
<1>4. RemoveFile => Existing(k) = "kind" /\ req' = req
  BY <1>2, <1>3 DEF RemoveFile, OwnInv, Existing, Requests
<1>5. PICK f \in Contents \union {NoFile} :
        /\ tree' = [tree EXCEPT ![k]["kind"] = f] /\ UNCHANGED req
        /\ \/ pc = "write_file" /\ f = req.content /\ pc' = "stage"
           \/ pc = "remove_file" /\ f = NoFile /\ pc' = "unstage"
  BY <1>2, <1>3, <1>4 DEF WriteFile, RemoveFile, Requests
<1>6. UNCHANGED <<index, head, latest, mem, answered>>
  BY DEF WriteFile, RemoveFile
<1>7. /\ tree'[k]["kind"] = f /\ tree'[k]["flat"] = tree[k]["flat"]
      /\ \A j \in Keys : j # k => tree'[j] = tree[j]
  BY <1>5 DEF TypesInv, TypeOK, Dirs
<1>8. OwnInv'
  BY <1>2, <1>3, <1>5, <1>6, <1>7 DEF OwnInv, IsUpsert, InStep
<1> QED BY <1>1, <1>2, <1>5, <1>6, <1>7, <1>8, StepClean

LEMMA StageClean ==
    ASSUME TypesInv, TypesInv', CleanInv, StageUpsert \/ Unstage
    PROVE  CleanInv'
<1>1. pc \in Serving /\ pc' \in Serving
  BY DEF StageUpsert, Unstage, Stage, Serving
<1>2. PICK k \in Keys : k = req.key
  BY <1>1, InHand
<1>3. OwnInv /\ answered[k].what = "pending" /\ req.content \in Contents \union {NoFile}
  BY <1>1, <1>2, InHand
<1>4. PICK f \in Contents \union {NoFile} :
        /\ index' = [index EXCEPT ![k]["kind"] = f]
        /\ \/ pc = "stage" /\ f = req.content /\ pc' = "commit"
           \/ pc = "unstage" /\ f = NoFile /\ pc' = "commit_removal"
  BY <1>2, <1>3 DEF StageUpsert, Unstage, Stage, OwnInv
<1>5. UNCHANGED <<tree, head, latest, req, answered>> /\ mem' = index'
  BY DEF StageUpsert, Unstage, Stage
<1>6. /\ index'[k]["kind"] = f /\ index'[k]["flat"] = index[k]["flat"]
      /\ \A j \in Keys : j # k => index'[j] = index[j]
  BY <1>4 DEF TypesInv, TypeOK, GitTree, Dirs
<1>7. tree[k]["kind"] = f /\ tree[k]["flat"] = NoFile /\ index[k]["flat"] = NoFile
  BY <1>2, <1>3, <1>4 DEF OwnInv
<1>8. index'[k] = tree'[k]
  <2>1. index'[k] \in [Dirs -> Files] /\ tree[k] \in [Dirs -> Files]
    BY FilesOf DEF TypesInv, TypeOK, GitTree, Files
  <2> QED BY <1>5, <1>6, <1>7, <2>1, SameFiles
<1>9. OwnInv'
  BY <1>2, <1>3, <1>4, <1>5, <1>6, <1>8 DEF OwnInv, IsUpsert
<1> QED BY <1>1, <1>2, <1>5, <1>6, <1>9, StepClean

LEMMA CommitClean ==
    ASSUME TypesInv, CleanInv, CommitUpsert \/ CommitRemoval
    PROVE  CleanInv'
<1>1. /\ pc \in Serving /\ pc' \in Serving
      /\ UNCHANGED <<tree, index, mem, answered, req>>
      /\ head' = mem /\ latest' = NewestWith(mem)
      /\ \/ pc = "commit" /\ pc' = "index"
         \/ pc = "commit_removal" /\ pc' = "removed"
  BY DEF CommitUpsert, CommitRemoval, Commit, Serving
<1>2. PICK k \in Keys : k = req.key
  BY <1>1, InHand
<1>3. OwnInv /\ answered[k].what = "pending" /\ mem = index /\ index[k] = tree[k]
  BY <1>1, <1>2, InHand DEF OwnInv
<1>4. \A j \in Keys : j # k => index[j] = head[j] /\ InStep(j)
  BY <1>1, <1>2, InHand DEF InStep
<1>5. \A j \in Keys : index[j]["flat"] = NoFile
  BY <1>2, <1>3, <1>4 DEF OwnInv, InStep
<1>6. \A j \in Keys : latest'[j] = IF index[j]["kind"] # NoFile THEN index[j]["kind"] ELSE latest[j]
  BY <1>1, <1>3, <1>5 DEF NewestWith
<1>7. \A j \in Keys : j # k => latest'[j] = latest[j] /\ head'[j] = head[j]
  BY <1>1, <1>3, <1>4, <1>6 DEF InStep
<1>8. OwnInv'
  BY <1>1, <1>2, <1>3, <1>6, CanonAssumption DEF OwnInv, IsUpsert
<1> QED BY <1>1, <1>2, <1>7, <1>8, StepClean

LEMMA ArchiveClean ==
    ASSUME TypesInv, CleanInv, IndexUpsert, req.content \in Closed
    PROVE  CleanInv'
<1>1. /\ pc \in Serving /\ pc' \in Serving /\ pc = "index" /\ pc' = "remove_file"
      /\ UNCHANGED <<tree, index, head, latest, mem, req, answered>>
  BY DEF IndexUpsert, repo, Serving
<1>2. req.content # NoFile /\ OwnInv
  BY <1>1, InHand, CanonAssumption
<1>3. OwnInv'
  BY <1>1, <1>2 DEF OwnInv, IsUpsert
<1> QED BY <1>1, <1>3, StepClean

\* The request ends with what it did to its entry.
LEMMA EndClean ==
    ASSUME TypesInv, CleanInv, (IndexUpsert /\ req.content \notin Closed) \/ Removed
    PROVE  CleanInv'
<1>1. pc \in Serving /\ pc' = "idle" /\ UNCHANGED <<tree, index, head, latest>>
  BY DEF IndexUpsert, Removed, Done, repo, Serving
<1>2. PICK k \in Keys : k = req.key
  BY <1>1, InHand
<1>3. /\ OwnInv /\ req.content \in Contents \union {NoFile}
      /\ \A j \in Keys : j # k => InStep(j)
  BY <1>1, <1>2, InHand
<1>4. InStep(k)
  <2>1. CASE IndexUpsert /\ req.content \notin Closed
    BY <1>2, <1>3, <2>1, CanonAssumption DEF IndexUpsert, OwnInv, InStep, IsUpsert
  <2>2. CASE Removed
    BY <1>2, <1>3, <2>2, CanonAssumption DEF Removed, OwnInv, InStep
  <2> QED BY <2>1, <2>2
<1>5. PICK what \in {"stored", "kept", "removed"}, c \in Contents \union {NoFile} :
        /\ answered' = [answered EXCEPT ![k] = [what |-> what, content |-> c]]
        /\ what # "removed" => latest[k] = c
  <2>1. Stored => answered' = [answered EXCEPT ![k] =
                     [what |-> IF req.changed THEN "stored" ELSE "kept", content |-> req.content]]
    BY <1>2 DEF Stored, Answer
  <2>2. \/ Answer(k, "removed", NoFile)
        \/ latest[k] = req.content /\ Stored
    BY <1>2, <1>3 DEF IndexUpsert, Removed, OwnInv
  <2> QED BY <1>3, <2>1, <2>2 DEF Answer
<1>6. AcceptedInv'
  <2>1. /\ answered'[k].what = what /\ answered'[k].content = c
        /\ \A j \in Keys : j # k => answered'[j] = answered[j]
    BY <1>5 DEF TypesInv, TypeOK
  <2> QED BY <1>1, <1>5, <2>1 DEF AcceptedInv, CleanInv
<1>7. \A j \in Keys : InStep(j)'
  BY <1>1, <1>3, <1>4 DEF InStep
<1> QED BY <1>1, <1>6, <1>7 DEF CleanInv, Serving, Migrating

-----------------------------------------------------------------------------
(* The migration *)

LEMMA StartClean ==
    ASSUME TypesInv, CleanInv, Start
    PROVE  CleanInv'
<1>1. /\ moves' = [k \in Keys |-> tree[k]["flat"]]
      /\ pc = "down" /\ pc' = IF moves' = NoMoves THEN "idle" ELSE "rename"
      /\ UNCHANGED <<tree, index, head, latest, answered>>
      /\ pc' = "rename" => mem' = index
  BY DEF Start, repo
<1>2. AcceptedInv'
  BY <1>1 DEF CleanInv, AcceptedInv
<1>3. CASE \A k \in Keys : InStep(k)
  <2>1. moves' = NoMoves
    BY <1>1, <1>3 DEF InStep, NoMoves
  <2>2. \A k \in Keys : InStep(k)'
    BY <1>1, <1>3 DEF InStep
  <2> QED BY <1>1, <1>2, <2>1, <2>2 DEF CleanInv, Serving, Migrating
<1>4. CASE (\A k \in Keys : Unmoved(k)) /\ moves' = NoMoves
  <2> SUFFICES ASSUME NEW k \in Keys PROVE InStep(k)'
    BY <1>1, <1>2, <1>4 DEF CleanInv, Serving, Migrating
  <2>1. Unmoved(k) /\ tree[k]["flat"] = NoFile
    BY <1>1, <1>4 DEF NoMoves
  <2>2. tree[k] = NoFiles
    BY <2>1, FilesOf, SameFiles DEF Unmoved
  <2> QED BY <1>1, <2>1, <2>2, FilesOf, CanonAssumption DEF InStep, Unmoved
<1>5. CASE (\A k \in Keys : Unmoved(k)) /\ moves' # NoMoves
  <2>1. ASSUME NEW k \in Keys PROVE MovedInv(k)'
    <3>1. Unmoved(k) /\ moves'[k] = tree[k]["flat"]
      BY <1>1, <1>5
    <3>2. tree[k] = [d \in Dirs |-> IF d = "flat" THEN moves'[k] ELSE NoFile]
      <4> DEFINE l == [d \in Dirs |-> IF d = "flat" THEN moves'[k] ELSE NoFile]
      <4>1. tree[k]["flat"] \in Files /\ NoFile \in Files
        BY FilesOf DEF Files
      <4>2. l \in [Dirs -> Files] /\ l["flat"] = moves'[k] /\ l["kind"] = NoFile
        BY <3>1, <4>1 DEF Dirs
      <4> HIDE DEF l
      <4>3. tree[k] = l
        BY <3>1, <4>2, FilesOf, SameFiles DEF Unmoved
      <4> QED BY <4>3 DEF l
    <3>3. tree'[k] = Left(k)'
      BY <1>1, <3>2 DEF Left
    <3> QED BY <1>1, <1>5, <3>1, <3>3, FilesOf DEF MovedInv, Unmoved
  <2> QED BY <1>1, <1>2, <1>5, <2>1 DEF CleanInv, Serving, Migrating
<1> QED BY <1>1, <1>3, <1>4, <1>5 DEF CleanInv

\* What a step of the migration has to establish.
LEMMA MoveClean ==
    ASSUME CleanInv, pc \in Migrating, pc' \in Migrating, UNCHANGED answered,
           \A k \in Keys : MovedInv(k) => MovedInv(k)'
    PROVE  CleanInv'
<1>1. AcceptedInv'
  BY DEF CleanInv, AcceptedInv, MovedInv
<1> QED BY <1>1 DEF CleanInv, Serving, Migrating

\* The two layouts of an entry's file.
LEMMA Layouts ==
    ASSUME TypesInv, NEW k \in Keys
    PROVE  /\ Moved(k)["kind"] = moves[k] /\ Moved(k)["flat"] = NoFile
           /\ Left(k)["kind"] = NoFile /\ Left(k)["flat"] = moves[k]
           /\ Moved(k) = [kind |-> moves[k], flat |-> NoFile]
           /\ moves[k] = NoFile => Left(k) = NoFiles /\ Moved(k) = NoFiles
           /\ moves[k] # NoFile => Moved(k) # Left(k)
BY DEF Moved, Left, NoFiles, Dirs

LEMMA RenameClean ==
    ASSUME TypesInv, CleanInv, NEW k \in Keys, Rename(k)
    PROVE  CleanInv'
<1>1. /\ pc = "rename" /\ tree[k]["flat"] # NoFile
      /\ tree' = [tree EXCEPT ![k] = [kind |-> tree[k]["flat"], flat |-> NoFile]]
      /\ mem' = [mem EXCEPT ![k] = [kind |-> tree[k]["flat"], flat |-> NoFile]]
      /\ pc' = IF \A j \in Keys : tree'[j]["flat"] = NoFile THEN "write_moves" ELSE "rename"
      /\ UNCHANGED <<index, head, latest, moves, answered>>
  BY DEF Rename
<1>2. \A j \in Keys : MovedInv(j)
  BY <1>1 DEF CleanInv, Migrating
<1>3. tree[k] = Left(k) /\ tree'[k] = Moved(k) /\ mem'[k] = Moved(k)
  BY <1>1, <1>2, Layouts DEF MovedInv, TypesInv, TypeOK, GitTree
<1>4. \A j \in Keys : j # k => tree'[j] = tree[j] /\ mem'[j] = mem[j]
  BY <1>1 DEF TypesInv, TypeOK, GitTree
<1>5. \A j \in Keys : \/ tree'[j] = Left(j) /\ mem'[j] \in {NoFiles, tree'[j]}
                      \/ tree'[j] = Moved(j) /\ mem'[j] = tree'[j]
  BY <1>1, <1>2, <1>3, <1>4 DEF MovedInv
<1>6. \A j \in Keys : Moved(j)' = Moved(j) /\ Left(j)' = Left(j)
  BY <1>1 DEF Moved, Left
<1>7. pc' = "write_moves" => \A j \in Keys : tree'[j] = Moved(j) /\ mem'[j] = tree'[j]
  <2> SUFFICES ASSUME pc' = "write_moves", NEW j \in Keys, tree'[j] = Left(j),
                      mem'[j] \in {NoFiles, tree'[j]}
               PROVE  tree'[j] = Moved(j) /\ mem'[j] = tree'[j]
    BY <1>5
  <2>1. moves[j] = NoFile
    BY <1>1, Layouts
  <2> QED BY <2>1, Layouts
<1>8. ASSUME NEW j \in Keys PROVE MovedInv(j)'
  BY <1>1, <1>2, <1>5, <1>6, <1>7 DEF MovedInv
<1> QED BY <1>1, <1>8, MoveClean DEF Migrating

LEMMA WriteMovesClean ==
    ASSUME TypesInv, CleanInv, WriteMoves \/ WriteDropped
    PROVE  CleanInv'
<1>1. /\ \/ pc = "write_moves" /\ pc' = "commit_moves"
         \/ pc = "write_dropped" /\ pc' = "commit_dropped"
      /\ index' = mem /\ UNCHANGED <<tree, head, latest, mem, moves, answered>>
  BY DEF WriteMoves, WriteDropped, WriteIndex
<1>2. ASSUME NEW k \in Keys, MovedInv(k) PROVE MovedInv(k)'
  <2>1. Moved(k)' = Moved(k)
    BY <1>1 DEF Moved
  <2> QED BY <1>1, <1>2, <2>1 DEF MovedInv
<1> QED BY <1>1, <1>2, MoveClean DEF Migrating

LEMMA CommitMovesClean ==
    ASSUME TypesInv, CleanInv, CommitMoves
    PROVE  CleanInv'
<1>1. /\ pc = "commit_moves" /\ head' = mem /\ latest' = NewestWith(mem)
      /\ pc' = IF ClosedMoves = {} THEN "migrated" ELSE "drop_closed"
      /\ UNCHANGED <<tree, index, mem, moves, answered>>
  BY DEF CommitMoves, Commit
<1>2. ASSUME NEW k \in Keys, MovedInv(k) PROVE MovedInv(k)'
  <2>1. tree[k] = Moved(k) /\ mem[k] = tree[k] /\ index[k] = tree[k] /\ latest[k] \in {NoFile, moves[k]}
    BY <1>1, <1>2 DEF MovedInv
  <2>2. latest'[k] = moves[k]
    BY <1>1, <2>1, Layouts DEF NewestWith
  <2>3. Moved(k)' = Moved(k)
    BY <1>1 DEF Moved
  <2>4. pc' = "migrated" => InStep(k)'
    <3>1. moves[k] # Torn /\ (pc' = "migrated" => moves[k] \notin Closed)
      BY <1>1, CanonAssumption DEF ClosedMoves, TypesInv, TypeOK
    <3> QED BY <1>1, <2>1, <2>2, <3>1, Layouts DEF InStep
  <2> QED BY <1>1, <1>2, <2>1, <2>2, <2>3, <2>4 DEF MovedInv
<1> QED BY <1>1, <1>2, MoveClean DEF Migrating

LEMMA DropClean ==
    ASSUME TypesInv, CleanInv, NEW k \in Keys, DropClosed(k)
    PROVE  CleanInv'
<1>1. /\ pc = "drop_closed" /\ moves[k] \in Closed
      /\ tree' = [tree EXCEPT ![k]["kind"] = NoFile]
      /\ mem' = [mem EXCEPT ![k]["kind"] = NoFile]
      /\ pc' = IF \A j \in ClosedMoves : tree'[j]["kind"] = NoFile THEN "write_dropped" ELSE "drop_closed"
      /\ UNCHANGED <<index, head, latest, moves, answered>>
  BY DEF DropClosed, ClosedMoves
<1>2. \A j \in Keys : MovedInv(j)
  BY <1>1 DEF CleanInv, Migrating
<1>3. tree'[k] = NoFiles /\ mem'[k] = NoFiles
  <2>1. tree[k]["flat"] = NoFile /\ mem[k] = tree[k]
    BY <1>1, <1>2, Layouts, FilesOf DEF MovedInv
  <2>2. /\ tree'[k] \in [Dirs -> Files] /\ mem'[k] \in [Dirs -> Files]
        /\ tree'[k]["kind"] = NoFile /\ mem'[k]["kind"] = NoFile
        /\ tree'[k]["flat"] = tree[k]["flat"] /\ mem'[k]["flat"] = mem[k]["flat"]
    BY <1>1 DEF TypesInv, TypeOK, GitTree, Files, Dirs
  <2> QED BY <2>1, <2>2, FilesOf, SameFiles
<1>4. \A j \in Keys : j # k => tree'[j] = tree[j] /\ mem'[j] = mem[j]
  BY <1>1 DEF TypesInv, TypeOK, GitTree
<1>5. ASSUME NEW j \in Keys PROVE MovedInv(j)'
  <2>1. /\ mem'[j] = tree'[j] /\ latest[j] = moves[j]
        /\ tree'[j] = Moved(j) \/ (tree'[j] = NoFiles /\ moves[j] \in Closed)
    BY <1>1, <1>2, <1>3, <1>4 DEF MovedInv
  <2>2. pc' = "write_dropped" => tree'[j] = IF moves[j] \in Closed THEN NoFiles ELSE Moved(j)
    <3>1. moves[j] \in Closed => moves[j] # NoFile /\ j \in ClosedMoves
      BY CanonAssumption DEF ClosedMoves
    <3> QED BY <1>1, <2>1, <3>1, Layouts
  <2>3. Moved(j)' = Moved(j) /\ answered'[j].what = "nothing"
    BY <1>1, <1>2 DEF Moved, MovedInv
  <2> QED BY <1>1, <2>1, <2>2, <2>3 DEF MovedInv
<1> QED BY <1>1, <1>5, MoveClean DEF Migrating

LEMMA CommitDroppedClean ==
    ASSUME TypesInv, CleanInv, CommitDropped
    PROVE  CleanInv'
<1>1. /\ pc = "commit_dropped" /\ head' = mem /\ latest' = NewestWith(mem) /\ pc' = "migrated"
      /\ UNCHANGED <<tree, index, mem, moves, answered>>
  BY DEF CommitDropped, Commit
<1>2. ASSUME NEW k \in Keys, MovedInv(k) PROVE MovedInv(k)'
  <2>1. /\ tree[k] = (IF moves[k] \in Closed THEN NoFiles ELSE Moved(k))
        /\ mem[k] = tree[k] /\ index[k] = tree[k] /\ latest[k] = moves[k]
    BY <1>1, <1>2 DEF MovedInv
  <2>2. latest'[k] = moves[k]
    BY <1>1, <2>1, Layouts, FilesOf DEF NewestWith
  <2>3. moves[k] # Torn /\ NoFile \notin Closed \union {Torn}
    BY CanonAssumption DEF TypesInv, TypeOK
  <2>4. InStep(k)'
    BY <1>1, <2>1, <2>2, <2>3, Layouts, FilesOf DEF InStep
  <2> QED BY <1>1, <1>2, <2>4 DEF MovedInv
<1> QED BY <1>1, <1>2, MoveClean DEF Migrating

LEMMA MigratedClean ==
    ASSUME TypesInv, CleanInv, Migrated
    PROVE  CleanInv'
<1>1. pc = "migrated" /\ pc' = "idle" /\ UNCHANGED <<tree, index, head, latest, answered>>
  BY DEF Migrated, Done, repo
<1>2. \A k \in Keys : InStep(k)
  BY <1>1 DEF CleanInv, Migrating, MovedInv
<1>3. AcceptedInv' /\ \A k \in Keys : InStep(k)'
  BY <1>1, <1>2 DEF InStep, AcceptedInv, CleanInv
<1> QED BY <1>1, <1>3 DEF CleanInv, Serving, Migrating

\* The process stops between requests.
LEMMA StopClean ==
    ASSUME TypesInv, CleanInv, Stop, pc = "idle"
    PROVE  CleanInv'
<1>1. /\ pc' = "down" /\ UNCHANGED <<tree, index, head, latest>>
      /\ answered' = [k \in Keys |->
             IF answered[k].what = "pending" THEN [what |-> "failed", content |-> NoFile]
             ELSE answered[k]]
  BY DEF Stop, Stopped, repo
<1>2. \A k \in Keys : InStep(k)'
  BY <1>1 DEF CleanInv, InStep
<1>3. AcceptedInv'
  BY <1>1 DEF CleanInv, AcceptedInv
<1> QED BY <1>1, <1>2, <1>3 DEF CleanInv, Serving, Migrating

LEMMA CleanInit == Init => CleanInv
<1> SUFFICES ASSUME Init PROVE CleanInv
  OBVIOUS
<1>1. pc = "down" /\ index = head /\ \A k \in Keys : answered[k].what = "nothing"
  BY DEF Init, Unasked
<1>2. \A k \in Keys : /\ head[k] \in {NoFiles, tree[k]} /\ latest[k] = head[k]["flat"]
                      /\ tree[k]["kind"] = NoFile
  BY DEF Init, Dirs
<1> QED BY <1>1, <1>2 DEF CleanInv, AcceptedInv, Unmoved, Serving, Migrating

\* Every step but those in which something fails.
CleanStep ==
    \/ Serve \/ Migrate
    \/ Stop /\ pc = "idle"

LEMMA StepsClean == TypesInv /\ TypesInv' /\ CleanInv /\ CleanStep => CleanInv'
BY AcceptClean, FileClean, StageClean, CommitClean, ArchiveClean, EndClean, StartClean,
   RenameClean, WriteMovesClean, CommitMovesClean, DropClean, CommitDroppedClean,
   MigratedClean, StopClean DEF CleanStep, Serve, Migrate

LEMMA CleanInvariant == Spec => [](TypesInv /\ (~faulty => CleanInv))
<1>1. Init => TypesInv /\ (~faulty => CleanInv)
  BY TypesInit, CleanInit
<1>2. TypesInv /\ (~faulty => CleanInv) /\ [Next]_vars => (TypesInv /\ (~faulty => CleanInv))'
  <2> SUFFICES ASSUME TypesInv, ~faulty => CleanInv, [Next]_vars, ~faulty' PROVE CleanInv'
    BY TypesStep
  <2>1. CASE UNCHANGED vars
    BY <2>1 DEF vars, CleanInv, AcceptedInv, InStep, Unmoved, MovedInv, Moved, Left, OwnInv, IsUpsert
  <2>2. CASE Next
    BY <2>2, TypesStep, StepsClean DEF Next, CleanStep
  <2> QED BY <2>1, <2>2
<1> QED BY <1>1, <1>2, PTL DEF Spec

\* Until a step fails an accepted entry that has left the tree has its last
\* version at the end of its history (main.rs archive_locked).
THEOREM ArchivedStaysLatest == Spec => []CleanArchivedIsLatest
<1>1. (~faulty => CleanInv) => CleanArchivedIsLatest
  BY DEF CleanInv, AcceptedInv, CleanArchivedIsLatest, ArchivedIsLatest
<1> QED BY <1>1, CleanInvariant, PTL

\* Until a step fails the three trees agree between requests, closed entries are
\* gone from them, and a commit is about one entry: through any sequence of
\* requests and restarts, and after the migration of any flat layout
\* (store.rs commit_path, remove_file, migrate_layout).
THEOREM CanonStaysInStep == Spec => CleanInStep
<1> DEFINE I == TypesInv /\ (~faulty => CleanInv)
<1>1. I /\ I' /\ [Next]_vars => [~faulty' => CommitsOneKey /\ (TreeHoldsLive /\ HeadIsTree)']_vars
  <2> SUFFICES ASSUME I, I', Next, ~faulty'
               PROVE  CommitsOneKey /\ TreeHoldsLive' /\ HeadIsTree'
    BY DEF vars
  <2>1. ~faulty /\ CleanInv /\ CleanInv' /\ TypesInv /\ TypesInv'
    BY DEF Next, TypesInv, TypeOK
  <2>2. CommitsOneKey
    <3> SUFFICES ASSUME pc \in {"commit", "commit_removal"}, NEW k \in Keys, k # req.key
                 PROVE  head'[k] = head[k]
      BY DEF CommitsOneKey
    <3>1. mem = index /\ InStep(k)
      BY <2>1 DEF CleanInv, OwnInv, Serving
    <3>2. head' = mem \/ head' = head
      BY DEF Next, Serve, Fail, Migrate, Upsert, Remove, WriteFile, StageUpsert, CommitUpsert,
             IndexUpsert, RemoveFile, Unstage, CommitRemoval, Removed, Stage, Commit,
             WriteFileFails, WriteFails, RemovalFails, Start, Rename, WriteMoves, WriteIndex,
             CommitMoves, DropClosed, WriteDropped, CommitDropped, Migrated, Stop,
             CrashWriting, repo
    <3> QED BY <3>1, <3>2 DEF InStep
  <2>3. pc' = "idle" => \A k \in Keys : InStep(k)'
    BY <2>1 DEF CleanInv
  <2>4. TreeHoldsLive'
    BY <2>3, CanonAssumption DEF TreeHoldsLive, InStep, File, Existing
  <2>5. HeadIsTree'
    BY <2>1, <2>3 DEF HeadIsTree, InStep, TypesInv, TypeOK, GitTree
  <2> QED BY <2>2, <2>4, <2>5
<1>2. Spec => []I
  BY CleanInvariant
<1> HIDE DEF I
<1> QED BY <1>1, <1>2, PTL DEF Spec, CleanInStep
=============================================================================
