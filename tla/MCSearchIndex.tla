---------------------------- MODULE MCSearchIndex ----------------------------
(* Small instances of SearchIndex for TLC: one knowledge key and one key of *)
(* an incident or task.                                                     *)
EXTENDS Query

CONSTANTS know, inc

MCKeys == {know, inc}
MCKnowledge == {know}
MCTimes == {1, 2}
MCKeyOrder == [k \in MCKeys |-> IF k = inc THEN 1 ELSE 2]
MCLimits == {1, 2}
=============================================================================
