------------------------------- MODULE MCHistory -------------------------------
(* A small instance of History for TLC: a note and an incident, both there   *)
(* since the flat layout, the incident closed.                               *)
EXTENDS History, TLC

CONSTANTS open, shut, e1, e2

MCKeys == 1 .. 2
MCKnowledge == {1}
MCTexts == {open, shut}
MCClosed == {shut}
MCLegacy == <<open, shut>>
MCClients == {e1, e2}
MCLimits == {1}
MCSymmetry == Permutations(MCClients)
=============================================================================
