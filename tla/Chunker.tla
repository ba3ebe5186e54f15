------------------------------ MODULE Chunker ------------------------------
(***************************************************************************)
(* chunk_pages of the ingestion pipeline: the pages of a document become   *)
(* chunks of at most ChunkMax characters, each with the number of a page   *)
(* and with a tail of the chunk before it, for the embedding and for the   *)
(* citations.                                                              *)
(*                                                                         *)
(* A text is a sequence of characters, a character its page, its place on  *)
(* the page and whether it ends a sentence; all white space is Blank.      *)
(***************************************************************************)
EXTENDS Naturals, FiniteSetsExt, SequencesExt

CONSTANTS
  ChunkMax,     \* CHUNK_MAX
  Overlap       \* CHUNK_OVERLAP

\* 1200 and 150.  text[-CHUNK_OVERLAP:] is a tail only if the overlap is not 0,
\* and what joins two pages is shorter than a chunk.
ASSUME ChunkerAssumption == ChunkMax \in Nat /\ ChunkMax > 2 /\ Overlap \in 1 .. ChunkMax

Blank == <<0, 0, FALSE>>
Gap   == <<Blank, Blank>>      \* "\n\n"

\* str.strip()
Strip(t) ==
  LET ink == {i \in DOMAIN t : t[i] # Blank}
  IN  IF ink = {} THEN << >> ELSE SubSeq(t, Min(ink), Max(ink))

Last_(t, n) == SubSeq(t, IF Len(t) > n THEN Len(t) - n + 1 ELSE 1, Len(t))

\* re.split after a full stop: where a sentence of a stripped text begins.
Starts(t) ==
  {i \in DOMAIN t : t[i] # Blank /\
     (i > 1 => t[i - 1] = Blank /\ Last(Strip(SubSeq(t, 1, i - 1)))[3])}

\* The sentence that begins at i ends before the next one.
Sentence(t, i) ==
  LET later == {j \in Starts(t) : j > i}
  IN  Strip(SubSeq(t, i, IF later = {} THEN Len(t) ELSE Min(later) - 1))

\* A sentence beyond the limit is cut by characters.
Pieces(s) ==
  [k \in 1 .. ((Len(s) + ChunkMax - 1) \div ChunkMax) |->
     SubSeq(s, (k - 1) * ChunkMax + 1, Min({k * ChunkMax, Len(s)}))]

NonEmpty(t) == IF t = << >> THEN << >> ELSE <<t>>

\* Sentences are put together as long as they fit.
AddSentence(acc, s) ==
  IF Len(s) > ChunkMax
  THEN [done |-> acc.done \o NonEmpty(acc.text) \o Pieces(s), text |-> << >>]
  ELSE IF Len(acc.text) + Len(s) + 1 <= ChunkMax
  THEN [acc EXCEPT !.text = Strip(@ \o <<Blank>> \o s)]
  ELSE [done |-> acc.done \o NonEmpty(acc.text), text |-> s]

\* _split_long_text
SplitLongText(t) ==
  LET Step(acc, i) == IF i \in Starts(t) THEN AddSentence(acc, Sentence(t, i)) ELSE acc
      all == FoldLeft(Step, [done |-> << >>, text |-> << >>], [i \in DOMAIN t |-> i])
  IN  all.done \o NonEmpty(all.text)

\* _emit: a chunk, and the tail that the next one begins with.
Emit(acc, t, p) ==
  IF t = << >> THEN acc
  ELSE [acc EXCEPT !.chunks = Append(@, [text |-> Strip(t), page |-> p]),
                   !.tail = Last_(t, Overlap)]

EmitAll(acc, parts, p) == FoldLeft(LAMBDA a, x : Emit(a, x, p), acc, parts)

\* Defect: the chunk has the number of the page that was added last.
AddPageLast(acc, p, t) ==
  LET fresh == acc.text = << >> \/ Len(acc.text) + Len(t) + 2 > ChunkMax
      prior == IF fresh THEN Emit(acc, acc.text, acc.page) ELSE acc
      text  == Strip((IF fresh THEN prior.tail ELSE acc.text) \o Gap \o t)
      parts == IF Len(text) > ChunkMax THEN SplitLongText(text) ELSE <<text>>
      sent  == EmitAll(prior, Front(parts), p)
  IN  [sent EXCEPT !.text = Last(parts), !.page = p]

\* A page that does not fit begins a chunk, after the tail of the one before it;
\* what is still too long is cut, and the last piece waits for the next page.
AddPage(acc, p, t) ==
  LET fresh == acc.text = << >> \/ Len(acc.text) + Len(t) + 2 > ChunkMax
      prior == IF fresh THEN Emit(acc, acc.text, acc.page) ELSE acc
      page  == IF fresh THEN p ELSE acc.page
      text  == Strip((IF fresh THEN prior.tail ELSE acc.text) \o Gap \o t)
      parts == IF Len(text) > ChunkMax THEN SplitLongText(text) ELSE <<text>>
      sent  == EmitAll(prior, Front(parts), page)
  IN  [sent EXCEPT !.text = Last(parts), !.page = page]

\* chunk_pages over the normalised texts of the pages.
ChunkPages(texts) ==
  LET Step(acc, p) == IF texts[p] = << >> THEN acc ELSE AddPage(acc, p, texts[p])
      all == FoldLeft(Step, [chunks |-> << >>, text |-> << >>, page |-> 0, tail |-> << >>],
                      [p \in DOMAIN texts |-> p])
  IN  Emit(all, all.text, all.page).chunks

-----------------------------------------------------------------------------
\* The text of t: its characters but the white space.
Ink(t) == Range(t) \ {Blank}

\* Characters in the order of the document.
Precedes(c, d) == c[1] < d[1] \/ (c[1] = d[1] /\ c[2] < d[2])

InOrder(t) ==
  \A i, j \in DOMAIN t : i < j /\ t[i] # Blank /\ t[j] # Blank => Precedes(t[i], t[j])

Doc(texts) == UNION {Ink(texts[p]) : p \in DOMAIN texts}

\* The first k chunks hold what has been emitted so far.
Carried(chunks, k) == UNION {Ink(chunks[j].text) : j \in 1 .. k}

\* A chunk of the document doc after chunks that hold what is in held.
ChunkSound(chunk, held, doc) ==
  LET ink == Ink(chunk.text)
  IN  /\ Len(chunk.text) \in 1 .. ChunkMax /\ InOrder(chunk.text)
      /\ \A d \in doc \ ink : \/ \A c \in ink : Precedes(d, c)
                             \/ \A c \in ink : Precedes(c, d)
      /\ \A c \in ink \cup held, d \in doc \ (ink \cup held) : Precedes(c, d)
      /\ Cardinality(ink \cap held) <= Overlap
      /\ \E d \in doc \ held : /\ chunk.page = d[1]
                              /\ \A c \in doc \ held : c = d \/ Precedes(d, c)

\* What the embedding service and the citations rely on.  All text is in some
\* chunk; no chunk is empty or too long; a chunk is a stretch of the document, in
\* its order; it leaves out nothing that follows what earlier chunks hold, and
\* repeats no more than the tail; and its page is the one of the first character
\* that no earlier chunk holds.  A chunk of the tail alone, which the code makes
\* when a sentence does not fit beside it, so bears the page that follows.
ChunksSound(texts, chunks) ==
  /\ Carried(chunks, Len(chunks)) = Doc(texts)
  /\ \A k \in DOMAIN chunks : ChunkSound(chunks[k], Carried(chunks, k - 1), Doc(texts))

=============================================================================
