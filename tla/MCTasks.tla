------------------------------- MODULE MCTasks -------------------------------
(* Small instances of Tasks for TLC, one of which each behaviour is about:  *)
(* three tasks whose parents move about, and one task all of whose fields   *)
(* do.                                                                      *)
EXTENDS Tasks, TLC

CONSTANTS t1, t2, t3, c1, c2, a1, open, blocked, done

MCThree == {t1, t2, t3}
MCClients == {c1, c2}
MCAgents == {a1}
MCLive == {open, blocked}
MCClosed == {done}

\* Filing a task, moving it, closing it and deleting it: what parents can see.
MCParentRequests ==
    {r \in Upserts : r.status = open /\ r.assignee = Nobody /\ ~r.reason /\ ~r.outcome}
    \union {r \in Transitions : r.status = open /\ r.assignee = Keep /\ r.reason = Keep
                                 /\ r.parent # Keep}
    \union {r \in Resolves : r.status = done /\ r.outcome}

\* Everything that may be asked of one task.
MCFieldRequests ==
    {r \in Upserts : r.key = t1 /\ r.parent = None /\ (r.reason => r.status = blocked)}
    \union {r \in Transitions \union Resolves \union Removes : r.key = t1 /\ (r.op = "transition" => r.parent = Keep)}

MCRequests == MCParentRequests \union MCFieldRequests
MCSymmetry == Permutations(MCClients)

VARIABLE part
Menu == IF part = "forest" THEN MCParentRequests ELSE MCFieldRequests
MostAsked == IF part = "forest" THEN MaxWrites ELSE 3

MCInit == Init /\ part \in {"forest", "fields"}

\* No more requests come, and the last ones are answered.
Settled == asked = MostAsked /\ (\A c \in Clients : pc[c] = "idle") /\ UNCHANGED <<vars, part>>

MCNext ==
    \/ /\ \/ \E c \in Clients, r \in Menu : asked < MostAsked /\ Ask(c, r)
          \/ \E c \in Clients : Acquire(c) \/ Build(c) \/ Refuse(c) \/ Commit(c) \/ Archive(c) \/ Remove(c)
          \/ Idle
       /\ UNCHANGED part
    \/ Settled

MCSpec == MCInit /\ [][MCNext]_<<vars, part>>
=============================================================================
