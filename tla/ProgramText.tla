---------------------------- MODULE ProgramText ----------------------------
(***************************************************************************)
(* parse_program: the text of program.md becomes the topics of a program.  *)
(* A line is reduced to the rule it meets: [kind, good, id].  good says    *)
(* whether the regular expression of the rule matches, id is the number of *)
(* a topic, the name of a section, or what a list of key concepts holds.   *)
(* In the front matter a line is "---", "field" (id is the key, good says  *)
(* that a date is one), "junk" without a colon, or "blank".                *)
(***************************************************************************)
EXTENDS Naturals, FiniteSetsExt, SequencesExt

Fields == {"program_version", "tenant_slug", "ratified_at"}
NoValue   == 0

Failed(what) == [error |-> what, topics |-> << >>]

\* _parse_frontmatter: the first closing line, before it no line without colon.
Close(lines) == SelectInSubSeq(lines, 2, Len(lines), LAMBDA l : l.kind = "---")

FrontMatter(lines) ==
  LET junk == SelectInSubSeq(lines, 2, Len(lines), LAMBDA l : l.kind = "junk")
  IN  IF lines = << >> \/ lines[1].kind # "---" THEN "no front matter"
      ELSE IF junk # 0 /\ (Close(lines) = 0 \/ junk < Close(lines)) THEN "malformed"
      ELSE IF Close(lines) = 0 THEN "never closed" ELSE "none"

\* The fields that are required, and the date.
Header(lines) ==
  LET fields == {l \in ToSet(SubSeq(lines, 2, Close(lines) - 1)) : l.kind = "field"}
      last(k) == lines[SelectLastInSubSeq(lines, 2, Close(lines) - 1,
                         LAMBDA l : l.kind = "field" /\ l.id = k)]
  IN  IF Fields \ {l.id : l \in fields} # {} THEN "missing"
      ELSE IF ~last("ratified_at").good THEN "no date" ELSE "none"

-----------------------------------------------------------------------------
\* Defect: an id that is already there does not matter.
CommitAny(s) ==
  IF s.topic = << >> THEN s
  ELSE [s EXCEPT !.topics = Append(@, s.topic[1]), !.topic = << >>]

\* _commit_topic
CommitTopic(s) ==
  IF s.topic = << >> \/ s.error # "none" THEN s
  ELSE IF \E t \in ToSet(s.topics) : t.id = s.topic[1].id
       THEN [s EXCEPT !.error = "duplicate"]
       ELSE [s EXCEPT !.topics = Append(@, s.topic[1]), !.topic = << >>]

Raise(s, what) == [s EXCEPT !.error = IF @ = "none" THEN what ELSE @]

Section(s, l) == [CommitTopic(s) EXCEPT !.section = l.id]

Topic(s, l) ==
  LET c == CommitTopic(s)
  IN  IF ~l.good THEN Raise(c, "malformed topic")
      ELSE IF c.section = NoValue THEN Raise(c, "no section")
      ELSE [c EXCEPT !.topic = <<[id |-> l.id, section |-> c.section,
                                  ordinal |-> Len(c.topics) + 1, concepts |-> NoValue]>>]

Concepts(s, l) ==
  IF ~l.good THEN Raise(s, "malformed concepts")
  ELSE IF s.topic = << >> THEN Raise(s, "no topic")
  ELSE [s EXCEPT !.topic[1].concepts = l.id]

\* A line; after an exception nothing more is read.
Read(s, l) ==
  IF s.error # "none" THEN s
  ELSE CASE l.kind = "section"  -> Section(s, l)
         [] l.kind = "topic"    -> Topic(s, l)
         [] l.kind = "concepts" -> Concepts(s, l)
         [] OTHER               -> s

ReadAll(lines) ==
  CommitTopic(FoldLeft(Read,
    [error |-> "none", section |-> NoValue, topic |-> << >>, topics |-> << >>], lines))

ParseProgram(lines) ==
  IF FrontMatter(lines) # "none" THEN Failed(FrontMatter(lines))
  ELSE IF Header(lines) # "none" THEN Failed(Header(lines))
  ELSE LET s == ReadAll(SubSeq(lines, Close(lines) + 1, Len(lines)))
       IN  IF s.error # "none" THEN Failed(s.error)
           ELSE IF s.topics = << >> THEN Failed("no topics")
           ELSE [error |-> "none", topics |-> s.topics]

-----------------------------------------------------------------------------
Headings == {"section", "topic"}

\* The lines of the kinds, and the last of them before line i, or 0.
LinesOf(body, kinds) == {i \in DOMAIN body : body[i].kind \in kinds}

Before(body, i, kinds) ==
  LET before == {j \in LinesOf(body, kinds) : j < i} IN IF before = {} THEN 0 ELSE Max(before)

\* What the heading of a topic and the lines around it say of the topic.
Rank(body, i)    == Cardinality({j \in LinesOf(body, {"topic"}) : j <= i})
ListsOf(body, i) == {j \in LinesOf(body, {"concepts"}) : Before(body, j, Headings) = i}

Described(body, i) ==
  [id |-> body[i].id, section |-> body[Before(body, i, {"section"})].id, ordinal |-> Rank(body, i),
   concepts |-> IF ListsOf(body, i) = {} THEN NoValue ELSE body[Max(ListsOf(body, i))].id]

IsProgram(body) ==
  LET topics == LinesOf(body, {"topic"})
      lists  == LinesOf(body, {"concepts"})
  IN  /\ topics # {} /\ \A i \in topics \cup lists : body[i].good
      /\ \A i \in topics : Before(body, i, {"section"}) # 0
      /\ \A i \in lists : Before(body, i, Headings) \in topics
      /\ \A i, j \in topics : body[i].id = body[j].id => i = j

\* What a program is, said of the text as a whole: every topic line becomes the
\* topic of its place, under the section before it, with the last list of
\* concepts before the next heading; the text is refused if an id comes twice,
\* a line is malformed, a topic stands before any section, or concepts do not
\* follow a topic.  Uploads then cannot violate UNIQUE (program_id, external_id).
ParseSound(lines, r) ==
  LET body   == SubSeq(lines, Close(lines) + 1, Len(lines))
      topics == LinesOf(body, {"topic"})
  IN  FrontMatter(lines) = "none" /\ Header(lines) = "none" =>
        /\ (r.error = "none") = IsProgram(body)
        /\ r.error = "none" =>
             /\ Len(r.topics) = Cardinality(topics)
             /\ \A i \in topics : r.topics[Rank(body, i)] = Described(body, i)

=============================================================================
