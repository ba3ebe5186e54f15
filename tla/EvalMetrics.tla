---------------------------- MODULE EvalMetrics ----------------------------
(***************************************************************************)
(* The offline evaluation: runner.py puts the entries of a golden set to   *)
(* the service one by one and writes a line for each, score.py and         *)
(* per_topic_breakdown.py compute metrics from the lines.                  *)
(*                                                                         *)
(* An entry is [type, topic, good]: good says whether the expected score   *)
(* is 3 or more; a refusal has no topic, and another entry may have none.  *)
(* An outcome is what a call comes to: the status of the reply, a failure  *)
(* of HTTP or of the transport, a redirection, which is not followed, a    *)
(* reply that is blank, with no status and no score, or one that ends the  *)
(* run, as it should be JSON and is not.  A score is reduced to whether it *)
(* is 3 or more; rates are kept as numerator and denominator.              *)
(***************************************************************************)
EXTENDS Integers, FiniteSetsExt, SequencesExt

Types    == {"qa", "formula", "refusal", "self_check"}
Answers  == {"answered", "refused", "error"}
Grades   == {"good", "poor"}
Failures == {"blank", "redirect", "http", "transport", "garbled"}

NoTopic  == "(unmapped)"    \* topic_external_id is None

\* What a call of the type can come to.
Possible(type) == Failures \cup IF type = "self_check" THEN Grades ELSE Answers

\* call_qa takes for an error what HTTP or the transport refuse.  call_self_check
\* has raise_for_status, which takes a redirection for one too, and records each
\* as a failure of the transport.
Fails(type, o) == o \in {"http", "transport"} \/ (type = "self_check" /\ o = "redirect")

\* call_qa, call_self_check: the line of an entry.
Line(e, o, ms) ==
  [entry  |-> e,
   api    |-> IF o \in Answers THEN o ELSE "none",
   http   |-> CASE o = "transport" \/ (e.type = "self_check" /\ Fails(e.type, o)) -> 0
                [] o = "http" -> 500 [] o = "redirect" -> 302 [] OTHER -> 200,
   failed |-> Fails(e.type, o),
   score  |-> IF o \in Grades THEN o ELSE "none",
   ms     |-> ms]

\* run(): one line after the other.  A garbled reply ends the run, with the lines
\* written so far and no run_meta.json.
Run(entries, outcomes, times) ==
  LET bad == {i \in DOMAIN entries : outcomes[i] = "garbled"}
      n   == IF bad = {} THEN Len(entries) ELSE Min(bad) - 1
      out == [i \in 1 .. n |-> Line(entries[i], outcomes[i], times[i])]
  IN  [lines |-> out, complete |-> bad = {},
       ok    |-> Cardinality({i \in 1 .. n : ~out[i].failed /\ out[i].http = 200})]

Lines(ls, P(_)) == Cardinality({i \in DOMAIN ls : P(ls[i])})

\* Defect: what is not answered is taken for refused.
NotAnswered(l) == l.api # "answered"

IsRefusal(l) == l.api = "refused"

ToRefuse(l)  == l.entry.type = "refusal"
ToAnswer(l)  == l.entry.type \in {"qa", "formula"}

\* refusal_correctness
Refusals(ls) ==
  [toRefuse |-> Lines(ls, ToRefuse),
   correct  |-> Lines(ls, LAMBDA l : ToRefuse(l) /\ IsRefusal(l)),
   toAnswer |-> Lines(ls, ToAnswer),
   false    |-> Lines(ls, LAMBDA l : ToAnswer(l) /\ IsRefusal(l))]

\* statistics.quantiles(n = 20), the exclusive method: cut point i of sorted data.
Quantile(data, i) ==
  LET m     == Len(data) + 1
      j     == Max({1, Min({(i * m) \div 20, Len(data) - 1})})
      delta == i * m - j * 20
  IN  (data[j] * (20 - delta) + data[j + 1] * delta) \div 20

\* sorted(latencies): the k-th is the least that k of them do not exceed.
Sorted(ls) ==
  [k \in DOMAIN ls |->
     Min({t \in {ls[i].ms : i \in DOMAIN ls} : Cardinality({i \in DOMAIN ls : ls[i].ms <= t}) >= k})]

\* latency_stats
Latency(ls) ==
  LET data == Sorted(ls)
  IN  [p50 |-> CASE Len(data) = 0 -> 0 [] Len(data) = 1 -> data[1] [] OTHER -> Quantile(data, 10),
       p95 |-> CASE Len(data) = 0 -> 0 [] Len(data) = 1 -> data[1] [] OTHER -> Quantile(data, 19),
       errors |-> Lines(ls, LAMBDA l : l.failed \/ l.http # 200)]

\* _cohen_kappa over the lines with a score: (po - pe) / (1 - pe), both times n^2.
Kappa(ls) ==
  LET Pairs(t, p) == Lines(ls, LAMBDA l : l.score # "none" /\ l.entry.good = t /\ (l.score = "good") = p)
      tp == Pairs(TRUE, TRUE)    tn == Pairs(FALSE, FALSE)
      fp == Pairs(FALSE, TRUE)   fn == Pairs(TRUE, FALSE)
      n  == tp + tn + fp + fn
      pe == (tp + fn) * (tp + fp) + (tn + fp) * (tn + fn)
  IN  IF n = 0 THEN <<0, 1>>
      ELSE IF n * n = pe THEN <<IF tp + tn = n THEN 1 ELSE 0, 1>>
      ELSE <<n * (tp + tn) - pe, n * n - pe>>

\* The lines that are Filed, by topic; Error(l) says which of them are errors.
ByTopic(ls, Filed(_), Error(_)) ==
  LET In(t, P(_)) == Lines(ls, LAMBDA l : Filed(l) /\ l.entry.topic = t /\ P(l))
  IN  [t \in {ls[i].entry.topic : i \in {j \in DOMAIN ls : Filed(ls[j])}} |->
        [total    |-> In(t, LAMBDA l : TRUE),
         answered |-> In(t, LAMBDA l : l.api = "answered"),
         refused  |-> In(t, LAMBDA l : l.api = "refused"),
         errors   |-> In(t, Error)]]

\* per_topic_breakdown.py: what should be refused is left out, what has no topic
\* is filed as unmapped.
Topics(ls) ==
  ByTopic(ls, LAMBDA l : ~ToRefuse(l), LAMBDA l : l.api = "error" \/ (l.api = "none" /\ l.failed))

\* _per_topic_breakdown of the dashboard: what has no topic is left out, an error
\* is whatever is neither answered nor refused.
DashboardTopics(ls) ==
  ByTopic(ls, LAMBDA l : l.entry.topic # NoTopic, LAMBDA l : l.api \notin {"answered", "refused"})

Summary(run) ==
  [refusals |-> Refusals(run.lines), latency |-> Latency(run.lines),
   kappa |-> Kappa(run.lines), topics |-> Topics(run.lines),
   dashboard |-> DashboardTopics(run.lines)]

-----------------------------------------------------------------------------
\* The lines of a topic that are neither answered nor refused and bear no error:
\* those of a self-check that went well, of a blank reply and of a redirection.
Silent(ls) == {i \in DOMAIN ls : ~ToRefuse(ls[i]) /\ ls[i].api = "none" /\ ~ls[i].failed}

Strayed(l) == ~ToRefuse(l) /\ ~l.failed /\ l.http # 200

\* The numbers of the scripts and of the runner tell the same run, each in its
\* own way, and differ by lines that can be named.  Every line is in one of the
\* sets, and refusals are those of the service, never a failure.  The errors of
\* the latency are what the runner has not counted as ok; the errors by topic
\* have those that the service has answered with, which came with a 200, and
\* miss the redirections.  The topics of the script lose the silent lines, which
\* count in no column; the dashboard takes each of them for an error, a score
\* too, and leaves out what has no topic.  The median lies among the times, and
\* kappa between -1 and 1, where 1 means that all scores agree.
SummarySound(run, s) ==
  LET ls     == run.lines
      times  == {ls[i].ms : i \in DOMAIN ls}
      scored == {i \in DOMAIN ls : ls[i].score # "none"}
      topics == s.topics
  IN  /\ s.refusals.toRefuse + s.refusals.toAnswer
           + Lines(ls, LAMBDA l : l.entry.type = "self_check") = Len(ls)
      /\ s.refusals.correct + s.refusals.false = Lines(ls, LAMBDA l : l.api = "refused")
      /\ s.latency.errors + run.ok = Len(ls)
      /\ s.refusals.toRefuse + SumFunction([t \in DOMAIN topics |-> topics[t].total]) = Len(ls)
      /\ SumFunction([t \in DOMAIN topics |->
           topics[t].total - (topics[t].answered + topics[t].refused + topics[t].errors)]) = Cardinality(Silent(ls))
      /\ SumFunction([t \in DOMAIN topics |-> topics[t].refused]) = s.refusals.false
      /\ SumFunction([t \in DOMAIN topics |-> topics[t].errors])
           + Lines(ls, Strayed) + Lines(ls, LAMBDA l : ToRefuse(l) /\ (l.failed \/ l.http # 200))
         = s.latency.errors + Lines(ls, LAMBDA l : ~ToRefuse(l) /\ l.api = "error")
      /\ s.dashboard = [t \in DOMAIN topics \ {NoTopic} |-> [topics[t] EXCEPT !.errors =
           @ + Cardinality({i \in Silent(ls) : ls[i].entry.topic = t})]]
      /\ times # {} => s.latency.p50 \in Min(times) .. Max(times) /\ s.latency.p50 <= s.latency.p95
      /\ s.kappa[2] > 0 /\ s.kappa[1] \in (-s.kappa[2]) .. s.kappa[2]
      /\ scored # {} =>
           ((s.kappa[1] = s.kappa[2]) = \A i \in scored : ls[i].entry.good = (ls[i].score = "good"))

=============================================================================
