----------------------------- MODULE Algorithms -----------------------------
(***************************************************************************)
(* The pure computations of the service, and what each promises.  A        *)
(* behaviour takes one task, an input of one of the computations, and      *)
(* computes one of the results that the code can come to.                  *)
(***************************************************************************)
EXTENDS Chunker, Retrieval, Quiz, EvalMetrics, ProgramText

CONSTANT Tasks      \* The inputs, records with the field kind.

-----------------------------------------------------------------------------
(* The inputs that occur *)

\* The pages of a document as normalize leaves them, their characters in one line.
\* It squeezes spaces and line ends each on their own: that no white space is as
\* long as a chunk is said of the document.
Trim(t) == t # << >> => t[1] # Blank /\ t[Len(t)] # Blank
Airy(t) == \A i \in 0 .. Len(t) - ChunkMax : \E j \in i + 1 .. i + ChunkMax : t[j] # Blank

Page(p, t) ==
  /\ t \in Seq(Range(t)) /\ InOrder(t) /\ Trim(t) /\ Airy(t)
  /\ \A i \in DOMAIN t : t[i] = Blank \/ (t[i][1] = p /\ t[i][2] \in Nat)

Pages(texts) == texts \in Seq(Range(texts)) /\ \A p \in DOMAIN texts : Page(p, texts[p])

\* The rows of document_chunks: finitely many, numbered in their document.
Corpus(corpus) ==
  /\ IsFiniteSet(corpus)
  /\ \A c \in corpus : {c.sim, c.rank, c.index} \subseteq Nat

\* The thresholds of a tenant.
Gate(gate) == {gate.top1, gate.good, gate.chunks} \subseteq Nat

\* _program_topic_slots is reached with a topic that has material; a test is
\* not empty.
Composed(sections, n) == sections \in Seq(Range(sections)) /\ sections # << >> /\ n \in Nat \ {0}

\* Questions with the ids that _renumber gives them, and what the evaluator and
\* the student have sent.
Graded(questions, answers, results) ==
  /\ questions \in Seq(Range(questions)) /\ answers \in Seq(Range(answers)) /\ results \in Seq(Range(results))
  /\ \A k, l \in DOMAIN questions : questions[k].id = questions[l].id => k = l
  /\ \A r \in Range(results) : r = [id |-> r.id, score |-> r.score]

\* The attempts of a student; the id of a topic is never a key of the filter.
History(attempts) ==
  /\ attempts \in Seq(Range(attempts))
  /\ \A i \in DOMAIN attempts : attempts[i].topic \notin {"program", "custom"} /\ attempts[i].full \in BOOLEAN

\* The lines of program.md; a heading of a section has a name.
Text(lines) ==
  /\ lines \in Seq(Range(lines))
  /\ \A i \in DOMAIN lines : /\ lines[i].good \in BOOLEAN
                             /\ lines[i].kind = "section" => lines[i].id # NoValue

\* The entries of a golden set, what the calls come to, and how long they take.
\* Without entries there is no run; the schema gives a refusal no topic.
Evaluation(entries, outcomes, times) ==
  /\ entries \in Seq(Range(entries)) /\ entries # << >>
  /\ \A i \in DOMAIN entries : /\ entries[i].type \in Types /\ entries[i].good \in BOOLEAN
                               /\ entries[i].type = "refusal" => entries[i].topic = NoTopic
                               /\ outcomes[i] \in Possible(entries[i].type)
                               /\ times[i] \in Nat

ASSUME TasksAssumption ==
  \A t \in Tasks :
    /\ t.kind = "chunk"    => Pages(t.texts)
    /\ t.kind = "retrieve" => Corpus(t.corpus) /\ Gate(t.gate)
    /\ t.kind = "compose"  => Composed(t.sections, t.n)
    /\ t.kind = "grade"    => Graded(t.questions, t.answers, t.results)
    /\ t.kind = "facets"   => History(t.attempts)
    /\ t.kind = "parse"    => Text(t.lines)
    /\ t.kind = "evaluate" => Evaluation(t.entries, t.outcomes, t.times)

-----------------------------------------------------------------------------
VARIABLES task, result

algorithmsVars == <<task, result>>

AlgorithmsInit == task \in Tasks /\ result = << >>

Compute(kind, results) ==
  /\ result = << >> /\ task.kind = kind
  /\ \E r \in results : result' = <<r>>
  /\ UNCHANGED task

Evaluated(t) == Run(t.entries, t.outcomes, t.times)

ComputeChunks  == Compute("chunk", {ChunkPages(task.texts)})
ComputeHits    == Compute("retrieve", Retrieve(task.corpus, task.gate, task.text))
ComputeTest    == Compute("compose", Tests(task.sections, task.n))
ComputeGrades  == Compute("grade", {Shown(task.questions, task.answers, task.results)})
ComputeFacets  == Compute("facets", {Facets(task.attempts)})
ComputeProgram == Compute("parse", {ParseProgram(task.lines)})
ComputeMetrics == Compute("evaluate", {Summary(Evaluated(task))})

AlgorithmsNext ==
  \/ ComputeChunks \/ ComputeHits \/ ComputeTest \/ ComputeGrades
  \/ ComputeFacets \/ ComputeProgram \/ ComputeMetrics

AlgorithmsSpec == AlgorithmsInit /\ [][AlgorithmsNext]_algorithmsVars

-----------------------------------------------------------------------------
Computed(kind) == result # << >> /\ task.kind = kind

\* Chunks carry the text of a document whole and in order, within the limit that
\* the embedding service has, and bear the page of their first new character.
ChunkingSound == Computed("chunk") => ChunksSound(task.texts, result[1])

\* The retriever's candidates are active, distinct and at most top_k, and its
\* verdict of enough evidence is about those that it hands on.  The prompt takes
\* the first of them: it passes over a candidate only for a more similar one, or
\* for one that was found by its words, and after the lexical path it begins with
\* the matches.
RetrievalSound ==
  Computed("retrieve") => ResultSound(task.corpus, task.gate, task.text, result[1])

\* A test over the program is balanced; what the student is shown of a graded
\* choice is right; the filters of the history count what they list.
QuizSound ==
  /\ Computed("compose") => TestSound(task.sections, task.n, result[1])
  /\ Computed("grade") => GradeSound(task.questions, task.answers, task.results, result[1])
  /\ Computed("facets") => FacetsSound(task.attempts, result[1])

\* program.md is read line by line, and accepted exactly if the text as a whole
\* is a program, which is then what is stored.
ProgramSound == Computed("parse") => ParseSound(task.lines, result[1])

\* The metrics of an evaluation add up to the lines of its run, up to those on
\* which the scripts disagree.
MetricsSound == Computed("evaluate") => SummarySound(Evaluated(task), result[1])

=============================================================================
