-------------------------------- MODULE MCFiles -------------------------------
(* Small instances of the modules Files puts together, for TLC.               *)
EXTENDS Files, TLC

CONSTANTS i1, t1, t2, c1, c2, r1, r2, s1, s2, s3  \* AuthBook

-----------------------------------------------------------------------------
(* AuthBook: a principal with one token *)

MCIds == {i1}
MCTokens == {t1, t2}
MCStamps == {s1, s2, s3}
MCCommands == {c1, c2}
MCRequests == {r1, r2}
MCOrders == {o \in Ops : o.op = "add" => o.role = "write"}
MCStart == [NoBook EXCEPT !.role[i1] = "write", !.owner[t1] = i1]
MCSymmetry == Permutations(MCCommands) \union Permutations(MCRequests)
                \union Permutations(MCStamps)

-----------------------------------------------------------------------------
(* VectorFile: two texts, two models of different length *)

MCTexts == {"ta", "tb"}
MCModels == {1, 2}
MCDim == <<1, 2>>
=============================================================================
