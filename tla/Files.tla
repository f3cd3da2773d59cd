---------------------------------- MODULE Files --------------------------------
(* The two files a server keeps beside the repository and the index, which    *)
(* share no state: the token book (AuthBook) and the vector cache's file       *)
(* (VectorFile).  A behaviour is one of either.                                *)
EXTENDS AuthBook

CONSTANTS Texts, Models, Dim, Magic, MaxStarts, MaxLosses  \* VectorFile

VARIABLES part,  \* whose behaviour it is
          model, file, tmp, pc, loaded, print, dim, map, dirty, starts, losses, mixed  \* VectorFile

cacheVars == <<model, file, tmp, pc, loaded, print, dim, map, dirty, starts, losses, mixed>>

V == INSTANCE VectorFile

ASSUME FilesAssumption == V!VectorFileAssumption

\* Where the cache stands still one model is as good as another.
FilesInit ==
    /\ part \in {"book", "cache"}
    /\ Init /\ V!Init
    /\ part = "book" => model = CHOOSE m \in Models : TRUE

FilesNext ==
    /\ UNCHANGED part
    /\ \/ part = "book" /\ Next /\ UNCHANGED cacheVars
       \/ part = "cache" /\ V!Next /\ UNCHANGED vars

FilesSpec == FilesInit /\ [][FilesNext]_<<part, vars, cacheVars>>

-----------------------------------------------------------------------------
(* The properties of the parts; those of AuthBook are its own *)

\* VectorFile: the vectors kept are the running model's, and what is not dirty
\* is what the next start reads (VectorCache).
CacheHolds == part = "cache" => V!CacheHolds
=============================================================================
