------------------------------- MODULE Quiz -------------------------------
(***************************************************************************)
(* The computations of the self-check: which topics the questions of a     *)
(* test over the whole program are about, how a test is cut into calls of  *)
(* the model, how the answers to it are graded and shown, and what the     *)
(* filters of the history count.                                           *)
(*                                                                         *)
(* Wording is left out: a question is its id, its type and its key; a      *)
(* letter is a number; the label that the model gives a question is one of *)
(* those it was given.                                                     *)
(***************************************************************************)
EXTENDS Naturals, FiniteSetsExt, SequencesExt

CONSTANT BatchSize      \* _BATCH_SIZE

ASSUME QuizAssumption == BatchSize \in Nat \ {0}

-----------------------------------------------------------------------------
(* The composition of a test *)

\* _split_counts: six of ten questions are multiple choice (round() has no ties).
ChoiceCount(n)      == (6 * n + 5) \div 10
SplitCounts(n)  == <<ChoiceCount(n), n - ChoiceCount(n)>>

\* _batches
Batches(n) ==
  [k \in 1 .. ((n + BatchSize - 1) \div BatchSize) |->
     Min({BatchSize, n - (k - 1) * BatchSize})]

\* sections is the section of every covered topic, in the order of the program.
\* The turn of the i-th topic of an order: how many of its section have come up
\* to it, and where the section begins in the program.
Turn(sections, o, i) ==
  LET s == sections[o[i]]
  IN  <<Cardinality({j \in 1 .. i : sections[o[j]] = s}),
        Min({t \in DOMAIN sections : sections[t] = s})>>

\* Defect: the sections are emptied one after the other.
SectionBySection(a, b) == a[2] < b[2] \/ (a[2] = b[2] /\ a[1] < b[1])

\* In every round each section that still has topics gives one.
RoundByRound(a, b) == a[1] < b[1] \/ (a[1] = b[1] /\ a[2] < b[2])

\* The topics of a section come in a random order.
Orders(sections) ==
  {o \in SetToSeqs(DOMAIN sections) :
     \A i, j \in DOMAIN o : i < j => RoundByRound(Turn(sections, o, i), Turn(sections, o, j))}

\* _program_topic_slots: all of the topics again when there are fewer than n.
Slots(sections, n) ==
  {[i \in 1 .. n |-> o[((i - 1) % Len(o)) + 1]] : o \in Orders(sections)}

\* _generate_full_program: the topics of each call, with their counts.
Portions(slots) ==
  LET sizes == Batches(Len(slots))
  IN  [k \in DOMAIN sizes |->
        LET part == SubSeq(slots, (k - 1) * BatchSize + 1, (k - 1) * BatchSize + sizes[k])
        IN  [t \in Range(part) |-> Cardinality({i \in DOMAIN part : part[i] = t})]]

\* _renumber: what the calls return, under new ids.
Renumber(ids) == [i \in DOMAIN ids |-> i]

Tests(sections, n) ==
  {[slots |-> s, portions |-> Portions(s)] : s \in Slots(sections, n)}

\* The topics of a section.
Size(sections, s) == Cardinality({t \in DOMAIN sections : sections[t] = s})

\* A test has as many questions as its length says, and each call asks for
\* those of its topics; as long as there are new topics none comes again, no
\* topic comes two times more than another, and no section is asked about twice
\* before each other one that has topics left.
TestSound(sections, n, test) ==
  LET times(t, m) == Cardinality({i \in 1 .. m : test.slots[i] = t})
      asked(s, m) == Cardinality({i \in 1 .. m : sections[test.slots[i]] = s})
      size(k)     == SumFunction(test.portions[k])
  IN  /\ SumFunction([k \in DOMAIN test.portions |-> size(k)]) = n
      /\ \A k \in DOMAIN test.portions :
           /\ size(k) \in 1 .. BatchSize
           /\ \A i \in 1 .. 2 : SplitCounts(size(k))[i] \in 0 .. size(k)
           /\ SplitCounts(size(k))[1] + SplitCounts(size(k))[2] = size(k)
      /\ \A t, u \in DOMAIN sections : times(t, n) <= times(u, n) + 1
      /\ \A m \in 1 .. Min({n, Len(sections)}) : \A s, r \in Range(sections) :
           asked(s, m) > asked(r, m) + 1 => asked(r, m) = Size(sections, r)

-----------------------------------------------------------------------------
(* Grading *)

None == 0      \* no letter, no answer

\* _question_type: options and a right one make a choice, whatever the model
\* calls it; normalize_option_letter leaves nothing of a blank key.
Question(q) ==
  [id |-> q.id, choice |-> q.options /\ q.key # None,
   key |-> IF q.options THEN q.key ELSE None]

First_(seq, id, else) ==
  LET is == {i \in DOMAIN seq : seq[i].id = id} IN IF is = {} THEN else ELSE seq[Min(is)]

\* _grade_mc_by_key: a choice is graded by its key, the rest by the model.
Grade(r, questions, answers) ==
  LET q == First_(questions, r.id, [id |-> r.id, choice |-> FALSE, key |-> None])
      a == First_(answers, r.id, [id |-> r.id, letter |-> None])
  IN  IF q.choice THEN [r EXCEPT !.score = IF a.letter = q.key THEN 1 ELSE 0] ELSE r

\* selfcheck_submit: of the results with one id the last is shown, and nothing
\* but zero for a question that the evaluator has left out.
Shown(questions, answers, results) ==
  [k \in DOMAIN questions |->
     LET i == SelectLastInSeq(results, LAMBDA r : r.id = questions[k].id)
     IN  IF i = 0 THEN 0 ELSE Grade(results[i], questions, answers).score]

\* selfcheck_detail: the same from the evaluation that was stored, in which the
\* choices have been graded already.
Detail(questions, answers, results) ==
  LET stored == [i \in DOMAIN results |-> Grade(results[i], questions, answers)]
  IN  [k \in DOMAIN questions |->
        LET i == SelectLastInSeq(stored, LAMBDA r : r.id = questions[k].id)
        IN  IF i = 0 THEN 0 ELSE stored[i].score]

\* A choice that was answered once, in a test whose questions have ids of their
\* own, is shown as right only if it is; and as wrong although it is right only
\* if the evaluator has left it out.  The history shows what the reply did.
GradeSound(questions, answers, results, shown) ==
  /\ Detail(questions, answers, results) = shown
  /\ \A k \in DOMAIN questions :
       LET q     == questions[k]
           given == {i \in DOMAIN answers : answers[i].id = q.id}
           right == \A i \in given : answers[i].letter = q.key
       IN  q.choice /\ Cardinality(given) = 1 =>
             /\ shown[k] \in {0, 1}
             /\ shown[k] = 1 => right
             /\ shown[k] = 0 /\ right => \A i \in DOMAIN results : results[i].id # q.id

-----------------------------------------------------------------------------
(* The history of attempts *)

\* The keys of the filter: a topic of a tenant, the whole program, or its own.
KeyOf(a) ==
  IF a.topic # "none" THEN <<a.tenant, a.topic>>
  ELSE <<a.tenant, IF a.full THEN "program" ELSE "custom">>

\* selfcheck_history_facets
Facets(attempts) ==
  [k \in {KeyOf(attempts[i]) : i \in DOMAIN attempts} |->
     Cardinality({i \in DOMAIN attempts : KeyOf(attempts[i]) = k})]

\* selfcheck_history with a tenant and a topic.
Listed(attempts, tenant, topic) ==
  {i \in DOMAIN attempts :
     /\ attempts[i].tenant = tenant
     /\ CASE topic = "custom"  -> attempts[i].topic = "none" /\ ~attempts[i].full
          [] topic = "program" -> attempts[i].topic = "none" /\ attempts[i].full
          [] OTHER             -> attempts[i].topic = topic}

\* A facet counts what its filter lists, and every attempt is in one facet.
FacetsSound(attempts, facets) ==
  /\ \A k \in DOMAIN facets : facets[k] = Cardinality(Listed(attempts, k[1], k[2]))
  /\ SumFunction(facets) = Len(attempts)

=============================================================================
