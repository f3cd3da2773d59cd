------------------------------ MODULE MCCanonRuns -----------------------------
(* Canon in two instances, of which each behaviour is one: today's layout with *)
(* failures and crashes anywhere; and any flat layout, migrated and served     *)
(* without failures.                                                           *)
EXTENDS MCCanon

VARIABLE part

Clean == INSTANCE Canon WITH FlatKeys <- Keys, MayFail <- FALSE, MayCrash <- FALSE

MCInit ==
    /\ part \in {"faults", "clean"}
    /\ IF part = "clean" THEN Clean!Init ELSE Init

MCNext ==
    /\ UNCHANGED part
    /\ \/ part = "faults" /\ Next
       \/ part = "clean" /\ Clean!Next

MCSpec == MCInit /\ [][MCNext]_<<vars, part>>
=============================================================================
