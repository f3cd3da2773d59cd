--------------------------- MODULE VectorPromise ---------------------------
(* What semantic search is promised: for every key there is one published   *)
(* text (the last version a write reserved the vector slot for) and at most *)
(* one vector, and a vector on display is always the published text's.      *)
(* Vectors may be missing - lexical search covers for them - but never old. *)
CONSTANTS Keys,      \* entry keys
          Texts,     \* texts an entry can have
          Nothing    \* no entry, or no vector

VARIABLES published, shown

pvars == <<published, shown>>

PromiseInit ==
    /\ published = [k \in Keys |-> Nothing]
    /\ shown = [k \in Keys |-> Nothing]

\* A committed write or deletion: the vector of the version before it goes
\* in the same step.
Publish(k, t) ==
    /\ published' = [published EXCEPT ![k] = t]
    /\ shown' = [shown EXCEPT ![k] = Nothing]

\* A rebuild adopts the canon as it stands and drops every vector.
Republish ==
    /\ published' \in [Keys -> Texts \union {Nothing}]
    /\ shown' = [k \in Keys |-> Nothing]

\* Embeddings land, any number at once, each the one of the published text.
Land ==
    /\ \E S \in SUBSET Keys :
         shown' = [k \in Keys |-> IF k \in S THEN published[k] ELSE shown[k]]
    /\ UNCHANGED published

PromiseNext ==
    \/ \E k \in Keys, t \in Texts \union {Nothing} : Publish(k, t)
    \/ Republish
    \/ Land

PromiseSpec == PromiseInit /\ [][PromiseNext]_pvars
=============================================================================
