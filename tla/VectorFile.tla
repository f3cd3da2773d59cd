------------------------------- MODULE VectorFile ------------------------------
(* The vector cache and its file (VectorCache in src/src/embed.rs): vectors   *)
(* by the text they were computed from, for one model, written whole to a     *)
(* second file that is then renamed, and read back at the next start.         *)
(*                                                                            *)
(* A file is the sequence of its fields, as far as it was written: magic,     *)
(* fingerprint, dimension, then hash and vector in turn.  The process may die *)
(* at any step; a loss of power may also cut off what was not yet on disk.    *)
(* Who replaces the model does it while the server runs or stands.            *)
EXTENDS Naturals, Sequences, FiniteSets

CONSTANTS Texts,       \* what is embedded
          Models,      \* weights and tokenizer: numbers
          Dim,         \* how long a model's vectors are
          Magic,
          MaxStarts,   \* bound: starts of the server
          MaxLosses    \* bound: losses of power

VectorFileAssumption ==
    /\ IsFiniteSet(Texts) /\ Models \subseteq Nat /\ Dim \in [Models -> Nat \ {0}]
    /\ MaxStarts \in Nat /\ MaxLosses \in Nat

VARIABLES
    model,   \* the model that lies in its directory
    file, tmp,      \* the cache file and its successor; <<>>: none
    pc,      \* the server: down, loading, up or writing its cache
    loaded, print,  \* the model it computes with, the one it takes it for
    dim, map, dirty,
    starts, losses,
    mixed    \* history: models under whose name others' vectors may be kept

vars == <<model, file, tmp, pc, loaded, print, dim, map, dirty, starts, losses, mixed>>

Nothing == [t \in {} |-> <<>>]

\* What the model m makes of a text: as long as m says.
VectorOf(m, t) == <<m, t>>
LengthOf(v) == Dim[v[1]]

Init ==
    /\ model \in Models /\ file = <<>> /\ tmp = <<>> /\ pc = "down"
    /\ loaded = 0 /\ print = 0 /\ dim = 0 /\ map = Nothing /\ dirty = FALSE
    /\ starts = 0 /\ losses = 0 /\ mixed = {}

Deploy(m) ==
    /\ m # model /\ starts < MaxStarts
    /\ model' = m
    /\ UNCHANGED <<file, tmp, pc, loaded, print, dim, map, dirty, starts, losses, mixed>>

-----------------------------------------------------------------------------
(* The start *)

\* Embedder::load
LoadModel ==
    /\ pc = "down" /\ starts < MaxStarts
    /\ starts' = starts + 1 /\ pc' = "loading" /\ loaded' = model
    /\ UNCHANGED <<model, file, tmp, print, dim, map, dirty, losses, mixed>>

\* A file of that model, as far as its header is there; the places of the hashes
\* whose vectors are there too.
Headed(f, fp) == Len(f) >= 3 /\ f[1] = Magic /\ f[2] = fp
Whole(f) == {n \in DOMAIN f : n > 3 /\ n % 2 = 0 /\ n < Len(f)}

\* Mutant: the last hash is taken though its vector is cut off.
ReadHalf(f, fp) ==
    LET hashes == {n \in DOMAIN f : n > 3 /\ n % 2 = 0}
    IN IF ~Headed(f, fp) THEN Nothing
       ELSE [t \in {f[n] : n \in hashes} |->
               LET n == CHOOSE i \in hashes : f[i] = t IN IF n = Len(f) THEN <<fp, f[4]>> ELSE f[n + 1]]

\* VectorCache::read: no other model's file, and of a torn one the records that
\* are whole.
Read(f, fp) ==
    IF ~Headed(f, fp) THEN Nothing
    ELSE [t \in {f[n] : n \in Whole(f)} |-> f[(CHOOSE n \in Whole(f) : f[n] = t) + 1]]

\* model_fingerprint reads the model's files again, and VectorCache::open the
\* cache; the dimension stays that of the file once it is this model's.
Open ==
    /\ pc = "loading"
    /\ pc' = "up" /\ print' = model
    /\ map' = Read(file, model) /\ dirty' = FALSE
    /\ dim' = IF Headed(file, model) THEN file[3] ELSE 0
    /\ mixed' = IF loaded # model THEN mixed \union {model} ELSE mixed
    /\ UNCHANGED <<model, file, tmp, loaded, starts, losses>>

-----------------------------------------------------------------------------
(* New vectors *)

\* insert, after get has missed and the model computed: the first vector says
\* how long they are; what is longer or shorter is not kept.
Insert(t) ==
    /\ pc = "up" /\ t \notin DOMAIN map
    /\ LET v == VectorOf(loaded, t)
           d == IF dim = 0 THEN LengthOf(v) ELSE dim
       IN /\ dim' = d
          /\ IF LengthOf(v) # d THEN UNCHANGED <<map, dirty>>
             ELSE map' = [u \in DOMAIN map \union {t} |-> IF u = t THEN v ELSE map[u]] /\ dirty' = TRUE
    /\ UNCHANGED <<model, file, tmp, pc, loaded, print, starts, losses, mixed>>

\* The orders in which all of S may come.
Arrangements(S) == {o \in [1 .. Cardinality(S) -> S] : \A t \in S : \E i \in DOMAIN o : o[i] = t}

\* The whole cache as a file: its header, and a hash and a vector in turn.
Contents(order) ==
    [i \in 1 .. 3 + 2 * Cardinality(DOMAIN map) |->
       IF i <= 3 THEN <<Magic, print, dim>>[i]
       ELSE LET t == order[(i \div 2) - 1] IN IF i % 2 = 0 THEN t ELSE map[t]]

\* flush: the successor is written, which may fail half way (the cache stays
\* dirty) ...
WriteTmp ==
    /\ pc = "up" /\ dirty /\ dim # 0
    /\ \E order \in Arrangements(DOMAIN map) : \E n \in 0 .. Len(Contents(order)) :
         /\ tmp' = SubSeq(Contents(order), 1, n)
         /\ pc' = IF n = Len(Contents(order)) THEN "writing" ELSE "up"
    /\ UNCHANGED <<model, file, loaded, print, dim, map, dirty, starts, losses, mixed>>

\* ... and renamed.
Rename ==
    /\ pc = "writing"
    /\ file' = tmp /\ tmp' = <<>> /\ dirty' = FALSE /\ pc' = "up"
    /\ UNCHANGED <<model, loaded, print, dim, map, starts, losses, mixed>>

Down ==
    /\ pc' = "down" /\ loaded' = 0 /\ print' = 0 /\ dim' = 0 /\ map' = Nothing /\ dirty' = FALSE
    /\ UNCHANGED <<model, starts, mixed>>

\* The process ends or is killed.
Crash == pc # "down" /\ Down /\ UNCHANGED <<file, tmp, losses>>

\* Nothing is synced: of each file what had reached the disk is there.
PowerLoss ==
    /\ losses < MaxLosses /\ losses' = losses + 1
    /\ Down
    /\ \E n \in 0 .. Len(file) : file' = SubSeq(file, 1, n)
    /\ \E n \in {0, Len(tmp)} : tmp' = SubSeq(tmp, 1, n)

-----------------------------------------------------------------------------
Next ==
    \/ \E m \in Models : Deploy(m)
    \/ LoadModel \/ Open \/ WriteTmp \/ Rename \/ Crash \/ PowerLoss
    \/ \E t \in Texts : Insert(t)

Spec == Init /\ [][Next]_vars

-----------------------------------------------------------------------------
(* Properties *)

\* Whatever was cut off, replaced or left half written, the vector kept for a
\* text is the one the running model makes of it - but under the name of a
\* model that was put in place between loading the old one and fingerprinting
\* the new one (VectorCache: "an entry can never go stale").
OwnVectors ==
    pc \in {"up", "writing"} /\ print \notin mixed =>
        \A t \in DOMAIN map : map[t] = VectorOf(loaded, t) /\ LengthOf(map[t]) = dim

\* A cache that is not dirty is what the next start would read (flush: "avoids
\* the failure modes of partial updates").
CleanIsKept == pc = "up" /\ ~dirty => map = Read(file, print)

CacheHolds == OwnVectors /\ CleanIsKept
=============================================================================
