---------------------------- MODULE MCAlgorithms ----------------------------
(***************************************************************************)
(* The pure computations of the service, on all inputs of a bounded size.  *)
(***************************************************************************)
EXTENDS Algorithms

-----------------------------------------------------------------------------
(* The inputs *)

\* A page: sentences of the lengths ls, with a blank between them; the last may go
\* on over the page.
PageText(p, ls, ended) ==
  FlattenSeq([k \in DOMAIN ls |->
    (IF k = 1 THEN << >> ELSE <<Blank>>)
      \o [i \in 1 .. ls[k] |-> <<p, 10 * k + i, i = ls[k] /\ (ended \/ k < Len(ls))>>]])

Chunkings ==
  LET pages == UNION {[1 .. n -> 1 .. ChunkMax + 1] : n \in 0 .. 2}
  IN  {[kind |-> "chunk", texts |-> [p \in DOMAIN d |-> PageText(p, d[p], e)]] :
         d \in UNION {[1 .. n -> pages] : n \in 1 .. 2}, e \in BOOLEAN}

\* Three neighbours and a chunk of another document; how a chunk is matched.
Places  == {<<"d1", 1>>, <<"d1", 2>>, <<"d1", 3>>, <<"d2", 1>>}
Matches == {<<0, 0>>, <<1, 1>>, <<0, 1>>}

Corpora ==
  UNION {
    {{[doc |-> p[1], index |-> p[2], sim |-> f[p][1], rank |-> f[p][2][1],
       lex |-> f[p][2][2], active |-> a[p[1]]] : p \in P} :
       f \in [P -> IF P = Places THEN {0, 2} \X {<<0, 0>>, <<1, 1>>} ELSE (0 .. 2) \X Matches],
       a \in [{"d1", "d2"} -> BOOLEAN]} :
    P \in {Places, {p \in Places : p[1] = "d1"}} \cup {Q \in SUBSET Places : Cardinality(Q) = 2}}

\* A usual gate, with and without the lexical path, and one that asks for nothing.
Gates == [top1 : {2}, good : {1}, chunks : {2}, lexical : {0, 2}]
           \cup {[top1 |-> 0, good |-> 1, chunks |-> 0, lexical |-> 0]}

Retrievals ==
  {[kind |-> "retrieve", corpus |-> c, gate |-> g, text |-> t] :
     c \in Corpora, g \in Gates, t \in BOOLEAN}

Compositions ==
  {[kind |-> "compose", sections |-> s, n |-> n] :
     s \in UNION {[1 .. m -> 1 .. 3] : m \in 1 .. 4}, n \in {2, 3, 5, 7}}

\* Two questions; the model may answer for each, for one, twice, or for neither.
Gradings ==
  LET questions == {[k \in 1 .. 2 |-> [id |-> k, options |-> f[k][1], key |-> f[k][2]]] :
                      f \in [1 .. 2 -> BOOLEAN \X (0 .. 2)]}
      answers   == UNION {[1 .. n -> [id : 1 .. 2, letter : 0 .. 2]] : n \in 1 .. 2}
      results   == UNION {[1 .. n -> [id : 1 .. 2, score : {0, 1}]] : n \in 0 .. 2}
  IN  {[kind |-> "grade", questions |-> [k \in DOMAIN q |-> Question(q[k])],
        answers |-> a, results |-> r] : q \in questions, a \in answers, r \in results}

Histories ==
  {[kind |-> "facets", attempts |-> h] :
     h \in UNION {[1 .. n -> [tenant : {"t1", "t2"}, topic : {"none", "limits"}, full : BOOLEAN]] : n \in 0 .. 3}}

\* A text after a front matter that may be wrong in one way.
Fronts ==
  LET mark     == [kind |-> "---", good |-> TRUE, id |-> 0]
      Field(k, g) == [kind |-> "field", good |-> g, id |-> k]
      junk     == [kind |-> "junk", good |-> TRUE, id |-> 0]
      whole(g) == <<mark, Field("program_version", TRUE), Field("tenant_slug", TRUE),
                    Field("ratified_at", g)>>
  IN  {whole(TRUE) \o <<mark>>, whole(FALSE) \o <<mark>>, whole(TRUE),
       Tail(whole(TRUE)), whole(TRUE) \o <<junk, mark>>, whole(TRUE) \o <<mark, junk>>,
       SubSeq(whole(TRUE), 1, 3) \o <<mark>>, whole(FALSE) \o <<Field("ratified_at", TRUE), mark>>}

Bodies ==
  LET lines == [kind : {"section"}, good : {TRUE}, id : {1, 2}]
               \cup [kind : {"topic"}, good : BOOLEAN, id : {1, 2}]
               \cup [kind : {"concepts"}, good : {TRUE}, id : {1, 2}]
               \cup [kind : {"concepts"}, good : {FALSE}, id : {0}]
               \cup [kind : {"blank"}, good : {TRUE}, id : {0}]
  IN  UNION {[1 .. n -> lines] : n \in 0 .. 4}

Programs ==
  {[kind |-> "parse", lines |-> f \o b] : f \in Fronts, b \in UNION {[1 .. n -> Range(<<
       [kind |-> "section", good |-> TRUE, id |-> 1], [kind |-> "topic", good |-> TRUE, id |-> 1]>>)] :
       n \in 0 .. 2}}
  \cup {[kind |-> "parse", lines |-> f \o b] :
          f \in {g \in Fronts : FrontMatter(g) = "none" /\ Header(g) = "none" /\ Len(g) = 5},
          b \in Bodies}

\* Of questions and self-checks some have no topic.
Evaluations ==
  LET entry == [type : {"qa", "self_check"}, topic : {"p", "q", NoTopic}, good : {TRUE}]
                 \cup [type : {"self_check"}, topic : {"p"}, good : {FALSE}]
                 \cup [type : {"refusal"}, topic : {NoTopic}, good : {TRUE}]
      call  == {c \in [entry : entry, outcome : Answers \cup Grades \cup Failures, ms : {40, 200}] :
                  c.outcome \in Possible(c.entry.type)}
  IN  {[kind |-> "evaluate", entries |-> [i \in DOMAIN f |-> f[i].entry],
        outcomes |-> [i \in DOMAIN f |-> f[i].outcome], times |-> [i \in DOMAIN f |-> f[i].ms]] :
         f \in UNION {[1 .. n -> call] : n \in 1 .. 2}}

AllTasks ==
  Chunkings \cup Retrievals \cup Compositions \cup Gradings \cup Histories
    \cup Programs \cup Evaluations

=============================================================================
