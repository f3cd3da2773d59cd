------------------------------ MODULE MCVectors -----------------------------
(* Small instances of Vectors for TLC.                                      *)
EXTENDS Vectors, TLC

CONSTANTS k1, k2, t1, t2, p1, p2, p3

MCKeys  == {k1, k2}
MCTexts == {t1, t2}
MCTasks == {p1, p2, p3}
MCFaults == {"embed_error", "dropped"}
MCNoFaults == {}

MCSymmetry ==
    Permutations(MCKeys) \union Permutations(MCTexts) \union Permutations(MCTasks)
=============================================================================
