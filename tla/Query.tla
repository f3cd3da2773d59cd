---------------------------------- MODULE Query ---------------------------------
(* What GET /search answers from a generation of the index: the current       *)
(* entries, their whole history, the base as it stood at a time, or what      *)
(* changed in a window (search and hybrid in src/src/main.rs, search_in and   *)
(* collapse_to_latest_per_key in index.rs, fuse_lists in embed.rs).           *)
(*                                                                            *)
(* A question names the versions that pass its filters and those of them its  *)
(* words find; how well they match is the order in which they were committed, *)
(* or the reverse.                                                            *)
EXTENDS SearchIndex

CONSTANTS KeyOrder, \* the place of each key in byte order
          Limits,   \* how many hits are asked for
          Budget    \* how many candidates a blended search takes of each side (24)

ASSUME QueryAssumption ==
    /\ IsFiniteSet(Keys)
    /\ KeyOrder \in [Keys -> Nat] /\ \A j, k \in Keys : KeyOrder[j] = KeyOrder[k] => j = k
    /\ Limits \subseteq Nat \ {0} /\ Budget \in Nat \ {0}

-----------------------------------------------------------------------------
(* Lists, none of which has an element twice: the place of each element *)

\* The elements of S, those before others first.
Placed(S, before) == [x \in S |-> 1 + Cardinality({y \in S : <<y, x>> \in before})]

\* The first n of a list; those of a list that are in S.
Cut(list, n) == [x \in {y \in DOMAIN list : list[y] <= n} |-> list[x]]
Among(list, S) == Placed(S, {p \in S \X S : list[p[1]] < list[p[2]]})

\* Every list of elements of S.
Lists(S) == UNION {{f \in [T -> 1 .. Cardinality(T)] : \A x, y \in T : f[x] = f[y] => x = y} : T \in SUBSET S}

-----------------------------------------------------------------------------
(* The question *)

Question(kind, at, within, order, passing, found, limit) ==
    [kind |-> kind, at |-> at, within |-> within, order |-> order,
     passing |-> passing, found |-> found, limit |-> limit]

\* The times a version may be of: any; until at; in the window.
Spans == {[kind |-> kind, at |-> 0, within |-> Times] : kind \in {"now", "history"}}
             \union {[kind |-> "as_of", at |-> t, within |-> {u \in Times : u <= t}] : t \in Times}
             \union {[kind |-> "window", at |-> 0, within |-> {u \in Times : lo <= u /\ u <= hi}] : lo, hi \in Times}

\* Which of the two questions about time is asked, if any; without words all
\* that pass are found, newest first unless another order is asked for.
Questions(versions) ==
    UNION {{Question(s.kind, s.at, s.within, order, versions, found, limit) :
              order \in {"recent", "first", "last"}, limit \in Limits} : s \in Spans, found \in SUBSET versions}

-----------------------------------------------------------------------------
(* search_in; a document is told by its version *)

\* The document of version n; the head document has the number of its version.
Doc(g, n) == CHOOSE d \in g.docs.hist : d.n = n

Heads(g) == {g.docs.heads[k] : k \in Keys} \ {0}

\* One of two worlds, never both: the current version would be found twice.
World(g, q) == IF q.kind = "now" THEN Heads(g) ELSE {d.n : d \in g.docs.hist}

Matching(g, q) == {n \in World(g, q) : n \in q.found /\ Doc(g, n).at \in q.within}

\* Newest first by seq, or by how well the words match.
Ahead(g, order, a, b) ==
    CASE order = "recent" -> Doc(g, a).seq > Doc(g, b).seq
      [] order = "first" -> a < b
      [] order = "last" -> a > b

Ranked(g, found, order) == Placed(found, {p \in found \X found : Ahead(g, order, p[1], p[2])})

\* Mutant: as many are fetched as are asked for.
FetchedLimited(g, q) == Cut(Ranked(g, Matching(g, q), q.order), q.limit)

\* Where only one version of a key may stay, every match is fetched.
Fetched(g, q) ==
    LET top == Ranked(g, Matching(g, q), q.order)
    IN IF q.kind \in {"as_of", "window"} THEN top ELSE Cut(top, q.limit)

\* Of the versions fetched those that may stay: as of a time what was current
\* then, whether another version matches or not; in a window the newest that
\* matches.
Staying(g, q, fetched) ==
    CASE q.kind = "as_of" -> {n \in fetched : n = CurrentVersion(g, q.at, Doc(g, n).key)}
      [] q.kind = "window" ->
            {n \in fetched : \A m \in fetched : Doc(g, m).key = Doc(g, n).key => Doc(g, m).seq <= Doc(g, n).seq}
      [] OTHER -> fetched

\* collapse_to_latest_per_key: the versions found.
SearchIn(g, q) ==
    LET top == Fetched(g, q) IN Cut(Among(top, Staying(g, q, DOMAIN top)), q.limit)

-----------------------------------------------------------------------------
(* hybrid: words and vectors *)

\* What the place of a key in a list adds to its score, as a fraction.
Part(weight, list, k) == IF k \in DOMAIN list THEN [num |-> weight, den |-> 60 + list[k]] ELSE [num |-> 0, den |-> 1]

\* 4/10 of the reciprocal rank in the one list and 6/10 of that in the other.
Score(lexical, semantic, k) ==
    LET p == Part(4, lexical, k)
        r == Part(6, semantic, k)
    IN [num |-> p.num * r.den + r.num * p.den, den |-> p.den * r.den]

\* fuse_lists: the better score first, of equals the key that comes first.
Outscores(s, t) == s.num * t.den > t.num * s.den
Fused(lexical, semantic) ==
    LET all == DOMAIN lexical \union DOMAIN semantic
        score == [k \in all |-> Score(lexical, semantic, k)]
    IN Placed(all, {p \in all \X all :
         \/ Outscores(score[p[1]], score[p[2]])
         \/ ~Outscores(score[p[2]], score[p[1]]) /\ KeyOrder[p[1]] < KeyOrder[p[2]]})

KeyOf(n) == log[n].key

\* The hit for a key, and a list of hits as one of their keys.
HitOf(hits, k) == CHOOSE n \in DOMAIN hits : KeyOf(n) = k
KeysOf(hits) == [k \in {KeyOf(n) : n \in DOMAIN hits} |-> hits[HitOf(hits, k)]]

\* get_live: the head document there is by now.
Live(g, k) == g.docs.heads[k]

\* Mutant: what the vectors add is not asked whether it passes.
MaterialisedUnasked(g, q, k) == Live(g, k)

\* A key that only the vectors name: what it says now, if that passes the
\* filters; 0 if not.
Materialised(g, q, k) == IF Live(g, k) \in q.passing THEN Live(g, k) ELSE 0

\* What is looked up for a blend.
Widened(limit) == IF limit > Budget THEN limit ELSE Budget

\* The words were looked up in generation g; the vectors have answered since,
\* and by now the generation is live.
Hybrid(g, live, q, semantic) ==
    LET hits == SearchIn(g, [q EXCEPT !.limit = Widened(q.limit)])
        lexical == KeysOf(hits)
        version(k) == IF k \in DOMAIN lexical THEN HitOf(hits, k) ELSE Materialised(live, q, k)
        fused == Fused(lexical, Cut(semantic, Widened(q.limit)))
        rows == Cut(Among(fused, {k \in DOMAIN fused : version(k) # 0}), q.limit)
    IN [n \in {version(k) : k \in DOMAIN rows} |-> rows[KeyOf(n)]]

-----------------------------------------------------------------------------
(* Properties *)

\* What a question asks for, told by the history.
Asked(n, q) ==
    q.found \intersect
        CASE q.kind = "now" -> {HeadOf(n, k) : k \in Keys}
          [] q.kind = "history" -> UNION {Writes(n, k) : k \in Keys}
          [] q.kind = "as_of" -> {CurrentAt(n, q.at, k) : k \in Keys}
          [] q.kind = "window" ->
                {Newest({i \in Writes(n, k) \intersect q.found : log[i].at \in q.within}) : k \in Keys}

\* The best of them: the oldest first, or the newest.
Best(asked, q) ==
    Cut(Placed(asked, {p \in asked \X asked : IF q.order = "first" THEN p[1] < p[2] ELSE p[1] > p[2]}), q.limit)

\* Every question is answered by the history: the hits are the best of what it
\* asks for, one busy key crowds nothing out and a superseded version never
\* answers for its key, whatever the clock did (search_in, "no budget can
\* truncate it").
FoundRight ==
    serving /\ pc = "idle" /\ held = gen /\ gen.sound =>
        \A q \in Questions(1 .. gen.upto) : SearchIn(gen, q) = Best(Asked(gen.upto, q), q)

\* What a blend of words found in g and vectors is to be: nothing in it fails
\* the filters, what fits is not left out, and a key that is behind another in
\* both lists stays behind it; without vectors it is the plain answer.
BlendRight(g, live, q, semantic) ==
    LET plain == SearchIn(g, [q EXCEPT !.limit = Widened(q.limit)])
        near == Cut(semantic, Widened(q.limit))
        hits == Hybrid(g, live, q, semantic)
        behind(list, a, b) == b \in DOMAIN list /\ (a \in DOMAIN list => list[b] < list[a])
    IN /\ DOMAIN hits \subseteq q.passing
       /\ (\A n \in DOMAIN hits : hits[n] < q.limit) =>
            /\ DOMAIN plain \subseteq DOMAIN hits
            /\ \A k \in DOMAIN near : Live(live, k) \in q.passing => k \in DOMAIN KeysOf(hits)
       /\ \A m, n \in DOMAIN hits : hits[m] < hits[n] =>
            ~ (behind(KeysOf(plain), KeyOf(m), KeyOf(n)) /\ behind(near, KeyOf(m), KeyOf(n)))
       /\ DOMAIN semantic = {} => hits = SearchIn(g, q)

\* Words found in one generation and vectors answered in a later one make one
\* list that is right (hybrid, fuse_lists).
BlendHolds ==
    serving /\ pc = "idle" /\ held.sound /\ gen.sound =>
        \A passing \in SUBSET (Heads(held) \union Heads(gen)) : \A found \in SUBSET passing :
           \A limit \in Limits, semantic \in Lists(Keys) :
             BlendRight(held, gen, Question("now", 0, Times, "first", passing, found, limit), semantic)

\* A search finds what there is: the two above.
SearchAnswers == FoundRight /\ BlendHolds
=============================================================================
