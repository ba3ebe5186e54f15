----------------------------- MODULE Retrieval -----------------------------
(***************************************************************************)
(* retrieve(): the hybrid search of the chunks of a tenant, the removal of *)
(* neighbours, the evidence gate and its lexical path; and the part of the *)
(* result that generate_answer puts into its prompt.                       *)
(*                                                                         *)
(* A corpus is the set of the tenant's chunks [doc, index, sim, rank, lex, *)
(* active]: the similarity to the query (a grade instead of a cosine), the *)
(* grades of the text index 'simple' and of 'russian' (0 for no match),    *)
(* and the status of the document.  PostgreSQL may return ties in any      *)
(* order, so that a search is a set of lists.                              *)
(***************************************************************************)
EXTENDS Naturals, FiniteSets, SequencesExt

CONSTANTS
  TopK,         \* retriever_top_k
  PromptMax,    \* retriever_max_chunks_in_prompt
  RrfK,         \* retriever_hybrid_rrf_k
  LexLimit      \* _LEXICAL_CANDIDATES

ASSUME RetrievalAssumption == {TopK, PromptMax, RrfK, LexLimit} \subseteq Nat \ {0}

\* LIMIT n
Cut(s, n) == SubSeq(s, 1, IF Len(s) < n THEN Len(s) ELSE n)

\* ORDER BY Key DESC LIMIT n.
Ordered(S, Key(_), n) ==
  {Cut(s, n) : s \in {t \in SetToSeqs(S) : \A i, j \in DOMAIN t : i < j => Key(t[i]) >= Key(t[j])}}

Active(corpus) == {c \in corpus : c.active}

\* 1 / (k + rank) over a common denominator; 0 for a chunk that is not ranked.
Denominator == FoldLeft(LAMBDA a, x : a * x, 1, [i \in 1 .. TopK |-> RrfK + i])

Share(ranked, c) ==
  IF c \in Range(ranked)
  THEN Denominator \div (RrfK + (CHOOSE i \in DOMAIN ranked : ranked[i] = c)) ELSE 0

Rrf(v, b, c) == Share(v, c) + Share(b, c)

\* The two rankings of _HYBRID_SQL, cut before the status of the documents is
\* looked at.
ByVector(corpus) == Ordered(corpus, LAMBDA c : c.sim, TopK)
ByText(corpus)   == Ordered({c \in corpus : c.rank > 0}, LAMBDA c : c.rank, TopK)

\* Their fusion; a chunk that only the text index has found has the similarity 0.
Fuse(v, b) ==
  {[i \in DOMAIN s |-> [chunk |-> s[i], score |-> Rrf(v, b, s[i]),
                        vscore |-> IF s[i] \in Range(v) THEN s[i].sim ELSE 0]] :
     s \in Ordered(Active(Range(v) \cup Range(b)), LAMBDA c : Rrf(v, b, c), TopK)}

HybridSearch(corpus) == UNION {Fuse(v, b) : v \in ByVector(corpus), b \in ByText(corpus)}

Plain(s) == [i \in DOMAIN s |-> [chunk |-> s[i], score |-> s[i].sim, vscore |-> s[i].sim]]

\* _VECTOR_ONLY_SQL
VectorSearch(corpus) ==
  {Plain(s) : s \in Ordered(Active(corpus), LAMBDA c : c.sim, TopK)}

Key(h) == <<h.chunk.doc, h.chunk.index>>

\* A chunk that follows one that was kept is dropped.
Deduplicate(hits) ==
  FoldLeft(LAMBDA kept, h :
             IF \E g \in Range(kept) : Key(g) = <<h.chunk.doc, h.chunk.index - 1>>
             THEN kept ELSE Append(kept, h),
           << >>, hits)

\* The gate: the best candidate, 0 where there is none, and how many are good.
VectorEvidence(gate, hits) ==
  /\ gate.top1 = 0 \/ \E h \in Range(hits) : h.vscore >= gate.top1
  /\ Cardinality({i \in DOMAIN hits : hits[i].vscore >= gate.good}) >= gate.chunks

\* _LEXICAL_SQL: how many chunks match, and the first of them.
LexicalSearch(corpus) == {c \in Active(corpus) : c.lex > 0}

LexicalHits(corpus) ==
  {Plain(s) : s \in Ordered(LexicalSearch(corpus), LAMBDA c : c.lex, LexLimit)}

\* Defect: what the lexical path has found comes after the candidates.
JoinLast(lexical, hits) ==
  hits \o SelectSeq(lexical, LAMBDA l : l.chunk \notin {hits[i].chunk : i \in DOMAIN hits})

\* The lexical path puts what it has found before the candidates.
Join(lexical, hits) ==
  LET new == {lexical[i].chunk : i \in DOMAIN lexical}
  IN  FoldLeft(LAMBDA all, h : IF h.chunk \in new THEN all ELSE Append(all, h), lexical, hits)

WithLexical(lexical, hits) == Cut(Join(lexical, hits), TopK)

\* Thresholds: lexical is 0 where the tenant has not set lexical_min_chunks.
Judge(corpus, gate, text, hits) ==
  IF VectorEvidence(gate, hits)
  THEN {[candidates |-> hits, enough |-> TRUE, path |-> "vector"]}
  ELSE IF /\ gate.lexical > 0 /\ text
          /\ Cardinality(LexicalSearch(corpus)) >= gate.lexical
  THEN {[candidates |-> WithLexical(l, hits), enough |-> TRUE, path |-> "lexical"] :
          l \in LexicalHits(corpus)}
  ELSE {[candidates |-> hits, enough |-> FALSE, path |-> "none"]}

\* Without a text, or after a failure of the hybrid search, vectors alone decide.
Retrieve(corpus, gate, text) ==
  UNION {Judge(corpus, gate, text, Deduplicate(hits)) :
           hits \in VectorSearch(corpus) \cup IF text THEN HybridSearch(corpus) ELSE {}}

\* top_chunks of generate_answer: the candidates that the model gets to see.
Prompt(candidates) == Cut(candidates, PromptMax)

-----------------------------------------------------------------------------
Chunks(list) == {list[i].chunk : i \in DOMAIN list}

\* As many matches of the lexical search as there is room for.
Matched(corpus, chunks) ==
  \/ LexicalSearch(corpus) \subseteq chunks
  \/ Cardinality(chunks \cap LexicalSearch(corpus)) >= Min({LexLimit, TopK, PromptMax})

\* What the flow and the answer rely on.  Candidates are active chunks, at most
\* TopK, each once.  Where the limit cuts nothing off, an active chunk is missing
\* only if the one before it in its document is there: removing neighbours loses
\* no other.
\*
\* The gate counts the good ones among the candidates, not in the prompt, which
\* may hold fewer.  What is passed over in the prompt is passed over for what is
\* more similar, or for chunks that hold the words of the question: without a
\* text, or after the fallback, the prompt has the best of the evidence.  And
\* evidence by words has its chunks in the prompt before all others.
ResultSound(corpus, gate, text, r) ==
  LET c      == r.candidates
      prompt == Prompt(c)
  IN  /\ Chunks(c) \subseteq Active(corpus)
      /\ Len(c) <= TopK /\ Cardinality(Chunks(c)) = Len(c)
      /\ r.path # "lexical" /\ Cardinality(corpus) <= TopK =>
           \A d \in Active(corpus) \ Chunks(c) :
             \E e \in Chunks(c) : e.doc = d.doc /\ e.index + 1 = d.index
      /\ r.path = "vector" =>
           Cardinality({d \in Chunks(c) : d.sim >= gate.good}) >= gate.chunks
      /\ r.path # "lexical" =>
           \A i \in DOMAIN prompt : \A j \in DOMAIN c \ DOMAIN prompt :
             prompt[i].vscore >= c[j].vscore \/ (text /\ prompt[i].chunk.rank > 0)
      /\ r.path = "lexical" => Matched(corpus, Chunks(prompt))

=============================================================================
