-------------------------------- MODULE MCLinks -------------------------------
(* LinkCache in four instances, of which each behaviour is one.  Two requests  *)
(* for the index at once: over two writes that succeed, and over one that may   *)
(* fail.  One at a time, with failing writes: three writes, so that an entry is *)
(* filed, archived and reopened, and three requests, so that one builds on what *)
(* another extended.                                                            *)
EXTENDS MCLinkCache

CONSTANT b0
VARIABLE part

Racing     == INSTANCE LinkCache WITH MaxWrites <- 2, MaxBuilds <- 2, MayFail <- FALSE
Failing    == INSTANCE LinkCache WITH MaxWrites <- 1, MaxBuilds <- 3
Rewriting  == INSTANCE LinkCache WITH Builders <- {b0}, MaxWrites <- 3, MaxBuilds <- 2
Rebuilding == INSTANCE LinkCache WITH Builders <- {b0}, MaxWrites <- 2, MaxBuilds <- 3

MCInit ==
    /\ part \in {"racing", "failing", "rewriting", "rebuilding"}
    /\ IF part \in {"racing", "failing"} THEN Racing!Init ELSE Rewriting!Init

MCNext ==
    /\ UNCHANGED part
    /\ \/ part = "racing" /\ Racing!Next
       \/ part = "failing" /\ Failing!Next
       \/ part = "rewriting" /\ Rewriting!Next
       \/ part = "rebuilding" /\ Rebuilding!Next

MCSpec == MCInit /\ [][MCNext]_<<vars, part>>
=============================================================================
