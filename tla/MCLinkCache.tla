----------------------------- MODULE MCLinkCache ----------------------------
(* Small instances of LinkCache for TLC: one knowledge key and one or two   *)
(* keys of incidents or tasks.                                              *)
EXTENDS LinkCache, TLC

CONSTANTS know, inc, b1, b2

MCKeys == {know, inc}
MCKnowledge == {know}
MCOne == {b1}
MCTwo == {b1, b2}
MCOnlyInc == {inc}
MCNone == {}
MCSymmetry == Permutations(MCTwo)
=============================================================================
