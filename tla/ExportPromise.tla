----------------------------- MODULE ExportPromise ----------------------------
(* What an export promises (the head of src/src/export.rs): the pages a     *)
(* client asks for one after the other are one listing of one commit - every *)
(* key that ever existed there, in order, each once - whatever is written    *)
(* meanwhile.  Here the listing is read off the trees of the commit's        *)
(* ancestors; no index, no cache and no cursor appears.                      *)
EXTENDS Naturals, Sequences, SequencesExt, FiniteSetsExt, Ordering

CONSTANTS Keys,      \* keys by their byte order: 1 .. n
          Knowledge, \* those that are neither incidents nor tasks
          NoText,    \* no file of that key
          Clients    \* those who export

VARIABLES
    commits, \* every commit: itself and its ancestors, numbered as they were made; its texts
    got      \* what each client has of its export: the commit, rows, complete or not

NoExport == [at |-> 0, rows |-> <<>>, complete |-> FALSE]

\* The text of k before the commit d of the line of c.
Before(c, d, k) ==
    LET earlier == {a \in commits[c].line : a < d}
    IN IF earlier = {} THEN NoText ELSE commits[Max(earlier)].text[k]

\* Where k is changed on the line of c.
ChangedAt(c, k) == {d \in commits[c].line : commits[d].text[k] # Before(c, d, k)}

\* The last of them that wrote a text, and not a removal.
WrittenAt(c, k) == Max({d \in ChangedAt(c, k) : commits[d].text[k] # NoText})

Existed(c) == {k \in Keys : ChangedAt(c, k) # {}}

Row(c, k) ==
    [key |-> k,
     state |-> IF commits[c].text[k] # NoText THEN "active"
               ELSE IF k \in Knowledge THEN "retracted" ELSE "archived",
     text |-> commits[WrittenAt(c, k)].text[k],
     version |-> WrittenAt(c, k),
     versions |-> Cardinality(ChangedAt(c, k))]

Listing(c) == [i \in 1 .. Cardinality(Existed(c)) |-> Row(c, Rising(Existed(c))[i])]

Init == got = [e \in Clients |-> NoExport]

\* An export of some commit begins, over again or for the first time; that of
\* an empty canon is complete.
Begin(e) ==
    /\ \E c \in DOMAIN commits \union {0} :
         got' = [got EXCEPT ![e] = [at |-> c, rows |-> <<>>, complete |-> (c = 0)]]
    /\ UNCHANGED commits

\* More of the listing is handed over.
HandOver(e) ==
    /\ got[e].at # 0 /\ ~got[e].complete
    /\ LET all == Listing(got[e].at)
       IN \E n \in Len(got[e].rows) .. Len(all) :
            got' = [got EXCEPT ![e] = [at |-> @.at, rows |-> SubSeq(all, 1, n),
                                       complete |-> (n = Len(all))]]
    /\ UNCHANGED commits

\* Commits are added and none changes.
Write == /\ IsPrefix(commits, commits')
         /\ UNCHANGED got

Next == Write \/ \E e \in Clients : Begin(e) \/ HandOver(e)

Spec == Init /\ [][Next]_<<commits, got>>
=============================================================================
