------------------------- MODULE SupervisionProofs --------------------------
(***************************************************************************)
(* What supervisors see, for any number of students, choices and reports.  *)
(***************************************************************************)
EXTENDS Supervision, FiniteSetTheorems, TLAPS

Places == Final \cup {"idle", "asked", "cleared", "topics", "students",
                      "attempts", "rows", "topic", "tags"}

Row == [pc : Places, kind : Kinds, of : Students, topic : Versions,
        n : Nat, a : Nat, b : Nat, names : SUBSET Students]

Click == [pc : {"idle", "loaded", "allowed", "done", "refused", "failed"},
          of : Students, to : BOOLEAN, held : BOOLEAN]

LogEntry == [what : {"toggle", "access", "violation"}, who : Students, to : BOOLEAN,
             by : Clicks \cup Reports]

\* The type invariant with its records named.
LEMMA Types ==
  TypeOK <=>
    /\ enrolled \subseteq Students
    /\ visible \in [Students -> BOOLEAN]
    /\ writable \in BOOLEAN /\ version \in Versions
    /\ completed \subseteq Students \X Versions \X (1 .. MaxAttempts)
    /\ click \in [Clicks -> Click]
    /\ report \in [Reports -> Row]
    /\ log \in Seq(LogEntry)
    /\ mixed \subseteq Students /\ moved \subseteq Reports
    /\ hidden \in [Reports -> SUBSET Students]
BY DEF TypeOK, Row, Click, LogEntry, Places

-----------------------------------------------------------------------------
(* Counting *)

LEMMA FiniteData ==
  ASSUME TypeOK
  PROVE  /\ IsFiniteSet(enrolled) /\ Cardinality(enrolled) \in Nat
         /\ IsFiniteSet(completed)
<1>1. IsFiniteSet(enrolled)
  BY FS_Subset, SupervisionAssumption DEF TypeOK
<1>2. IsFiniteSet(Versions) /\ IsFiniteSet(1 .. MaxAttempts)
  BY FS_Interval, SupervisionAssumption DEF Versions
<1>3. IsFiniteSet(Students \X (Versions \X (1 .. MaxAttempts)))
  BY <1>2, FS_Product, SupervisionAssumption
<1>4. IsFiniteSet(completed)
  <2> DEFINE S == Students \X (Versions \X (1 .. MaxAttempts))
             f == [x \in completed |-> <<x[1], <<x[2], x[3]>>>>]
  <2>1. f \in [completed -> S]
    BY DEF TypeOK
  <2>2. \A x, y \in completed : f[x] = f[y] => x = y
    BY DEF TypeOK
  <2>3. f \in Injection(completed, S)
    BY <2>1, <2>2 DEF Injection, IsInjective
  <2> QED
    BY <1>3, <2>3, FS_Injection
<1> QED
  BY <1>1, <1>4, FS_CardinalityType

\* Attempts about more versions are more attempts.
LEMMA Counting ==
  ASSUME TypeOK, NEW ss, NEW vs, NEW ws, vs \subseteq ws
  PROVE  Count(ss, vs) \in Nat /\ Count(ss, ws) \in Nat /\ Count(ss, vs) <= Count(ss, ws)
<1> DEFINE C(us) == {x \in completed : x[1] \in ss /\ x[2] \in us}
<1>1. IsFiniteSet(C(ws)) /\ C(vs) \in SUBSET C(ws)
  BY FiniteData, FS_Subset
<1>2. IsFiniteSet(C(vs)) /\ Cardinality(C(vs)) <= Cardinality(C(ws))
  BY <1>1, FS_Subset
<1> QED
  BY <1>1, <1>2, FS_CardinalityType DEF Count

-----------------------------------------------------------------------------
(* Types *)

LEMMA InitTypes == Init => TypeOK
<1> SUFFICES ASSUME Init PROVE TypeOK
  OBVIOUS
<1>1. version \in Versions /\ 0 \in Versions
  BY SupervisionAssumption DEF Init, Versions
<1>2. click \in [Clicks -> Click]
  BY DEF Init, Click
<1>3. report \in [Reports -> Row]
  BY <1>1 DEF Init, Row, Places
<1> QED
  BY <1>1, <1>2, <1>3, Types, SupervisionAssumption DEF Init

\* A statement of a report leaves everything but the report and the log.
LEMMA Noted ==
  ASSUME TypeOK, NEW r \in Reports, NEW row, Note(r, row)
  PROVE  /\ report'[r] = row /\ \A q \in Reports \ {r} : report'[q] = report[q]
         /\ UNCHANGED <<data, visible, writable, click, mixed, moved, hidden>>
BY Types DEF Note

LEMMA NoteTypes ==
  ASSUME TypeOK, NEW r \in Reports, NEW row \in Row, Note(r, row), log' \in Seq(LogEntry)
  PROVE  TypeOK'
BY Types DEF Note, data, TypeOK, Row, Click, LogEntry, Places

LEMMA LookTypes ==
  ASSUME TypeOK, NEW r \in Reports, Look(r)
  PROVE  TypeOK'
<1> USE DEF Places, Final
<1>1. report[r] \in Row /\ log \in Seq(LogEntry)
  BY Types
<1>2. \A ss, vs : Count(ss, vs) \in Nat
  BY Counting
<1>3. CASE Ask(r)
  <2>1. report' \in [Reports -> Row]
    <3>1. PICK v \in Versions \ {0} :
            report' = [report EXCEPT ![r].pc = "asked", ![r].topic = v]
      BY <1>3 DEF Ask
    <3>2. report' = [report EXCEPT ![r] = [report[r] EXCEPT !.pc = "asked", !.topic = v]]
      BY <3>1, <1>1, Types DEF Row
    <3>3. [report[r] EXCEPT !.pc = "asked", !.topic = v] \in Row
      BY <1>1 DEF Row
    <3> QED
      BY <3>2, <3>3, Types
  <2>2. hidden' \in [Reports -> SUBSET Students]
    BY <1>3, Types DEF Ask
  <2> QED
    BY <1>3, <2>1, <2>2, Types DEF Ask, data, TypeOK, Row, Click, LogEntry
<1>4. CASE ListStudents(r)
  <2>1. {s \in enrolled : visible[s]} \subseteq Students
    BY Types
  <2>2. [report[r] EXCEPT !.pc = "shown", !.names = {s \in enrolled : visible[s]}] \in Row
    BY <1>1, <2>1 DEF Row
  <2> QED
    BY <1>1, <1>4, <2>2, NoteTypes DEF ListStudents
<1>5. CASE LoseReport(r)
  <2>1. [report[r] EXCEPT !.pc = "failed"] \in Row
    BY <1>1 DEF Row
  <2> QED
    BY <1>1, <1>5, <2>1, NoteTypes DEF LoseReport
<1>6. CASE LoadStudent(r)
  <2>1. \A p \in {"absent", "refused", "cleared"} : [report[r] EXCEPT !.pc = p] \in Row
    BY <1>1 DEF Row
  <2>2. Append(log, Entry("violation", report[r].of, FALSE, r)) \in Seq(LogEntry)
    BY <1>1 DEF Entry, LogEntry, Row
  <2> QED
    BY <1>1, <1>6, <2>1, <2>2, NoteTypes DEF LoadStudent
<1>7. CASE ReadTopics(r)
  <2>1. \A m \in Nat : [report[r] EXCEPT !.pc = "topics", !.a = m] \in Row
    BY <1>1 DEF Row
  <2> QED
    BY <1>1, <1>2, <1>7, <2>1, NoteTypes DEF ReadTopics
<1>8. CASE ServeProfile(r)
  <2>1. \A m \in Nat : [report[r] EXCEPT !.pc = "shown", !.b = m, !.names = {report[r].of}] \in Row
    BY <1>1 DEF Row
  <2>2. Append(log, Entry("access", report[r].of, TRUE, r)) \in Seq(LogEntry)
    BY <1>1 DEF Entry, LogEntry, Row
  <2> QED
    BY <1>1, <1>2, <1>8, <2>1, <2>2, NoteTypes DEF ServeProfile
<1>9. CASE CountStudents(r)
  <2>1. [report[r] EXCEPT !.pc = "students", !.n = Cardinality(enrolled)] \in Row
    BY <1>1, FiniteData DEF Row
  <2> QED
    BY <1>1, <1>9, <2>1, NoteTypes DEF CountStudents
<1>10. CASE CountAttempts(r)
  <2>1. \A m \in Nat : [report[r] EXCEPT !.pc = "attempts", !.a = m] \in Row
    BY <1>1 DEF Row
  <2> QED
    BY <1>1, <1>2, <1>10, <2>1, NoteTypes DEF CountAttempts
<1>11. CASE FindProgram(r)
  <2>1. /\ [report[r] EXCEPT !.pc = "rows", !.topic = version] \in Row
        /\ [report[r] EXCEPT !.pc = "below"] \in Row
    BY <1>1, Types DEF Row
  <2> QED
    BY <1>1, <1>11, <2>1, NoteTypes DEF FindProgram
<1>12. CASE ReadRows(r) \/ ReadTags(r)
  <2>1. \A m \in Nat : [report[r] EXCEPT !.pc = "shown", !.b = m] \in Row
    BY <1>1 DEF Row
  <2> QED
    BY <1>1, <1>2, <1>12, <2>1, NoteTypes DEF ReadRows, ReadTags
<1>13. CASE FindTopic(r)
  <2>1. \A p \in {"topic", "absent"} : [report[r] EXCEPT !.pc = p] \in Row
    BY <1>1 DEF Row
  <2> QED
    BY <1>1, <1>13, <2>1, NoteTypes DEF FindTopic
<1>14. CASE CountTopic(r)
  <2>1. \A m \in Nat : [report[r] EXCEPT !.pc = "tags", !.a = m] \in Row
    BY <1>1 DEF Row
  <2> QED
    BY <1>1, <1>2, <1>14, <2>1, NoteTypes DEF CountTopic
<1> QED
  BY <1>3, <1>4, <1>5, <1>6, <1>7, <1>8, <1>9, <1>10, <1>11, <1>12, <1>13, <1>14 DEF Look

LEMMA ChooseTypes ==
  ASSUME TypeOK, NEW c \in Clicks, Choose(c)
  PROVE  TypeOK'
<1>1. click[c] \in Click /\ log \in Seq(LogEntry)
  BY Types
<1>2. click' \in [Clicks -> Click]
  <2>1. click \in [Clicks -> Click] /\ visible[click[c].of] \in BOOLEAN
    BY <1>1, Types DEF Click
  <2>2. CASE LoadUser(c)
    BY <1>1, <2>1, <2>2 DEF LoadUser, Click
  <2>3. CASE CheckTenant(c)
    BY <1>1, <2>1, <2>3 DEF CheckTenant, Click
  <2>4. CASE SaveVisibility(c)
    BY <1>1, <2>1, <2>4 DEF SaveVisibility, Click
  <2>5. CASE LoseClick(c)
    BY <1>1, <2>1, <2>5 DEF LoseClick, Click
  <2> QED
    BY <2>2, <2>3, <2>4, <2>5 DEF Choose
<1>3. visible' \in [Students -> BOOLEAN]
  <2>1. visible' = visible \/ visible' = [visible EXCEPT ![click[c].of] = click[c].to]
    BY DEF Choose, LoadUser, CheckTenant, SaveVisibility, LoseClick
  <2>2. visible \in [Students -> BOOLEAN] /\ click[c].to \in BOOLEAN
    BY <1>1, Types DEF Click
  <2> QED
    BY <2>1, <2>2
<1>4. log' \in Seq(LogEntry)
  <2>1. Append(log, Entry("toggle", click[c].of, click[c].to, c)) \in Seq(LogEntry)
    BY <1>1 DEF Entry, LogEntry, Click
  <2> QED
    BY <1>1, <2>1 DEF Choose, LoadUser, CheckTenant, SaveVisibility, LoseClick
<1>5. mixed' \subseteq Students /\ hidden' \in [Reports -> SUBSET Students]
  BY <1>1, Types DEF Choose, LoadUser, CheckTenant, SaveVisibility, LoseClick, Click
<1>6. UNCHANGED <<data, writable, report, moved>>
  BY DEF Choose, LoadUser, CheckTenant, SaveVisibility, LoseClick
<1> QED
  BY <1>2, <1>3, <1>4, <1>5, <1>6, Types DEF data, TypeOK, Row, Click, LogEntry, Places

\* What reports count changes: every report that is under way has moved.
DataStep ==
  \/ \E s \in Students : Register(s) \/ \E v \in Versions : Complete(s, v)
  \/ \E a \in completed : Reopen(a)
  \/ UploadProgram

LEMMA DataSteps ==
  ASSUME TypeOK, DataStep
  PROVE  /\ TypeOK' /\ enrolled \subseteq enrolled'
         /\ moved' = moved \cup Running
         /\ UNCHANGED <<visible, writable, click, report, log, mixed, hidden>>
<1>1. Running \subseteq Reports
  BY DEF Running
<1>2. ASSUME NEW s \in Students, Register(s)
      PROVE  TypeOK'
  BY <1>1, <1>2 DEF Register, Moving, TypeOK
<1>3. ASSUME NEW s \in Students, NEW v \in Versions, Complete(s, v)
      PROVE  TypeOK'
  BY <1>1, <1>3 DEF Complete, Moving, TypeOK
<1>4. ASSUME NEW a \in completed, Reopen(a)
      PROVE  TypeOK'
  BY <1>1, <1>4 DEF Reopen, Moving, TypeOK
<1>5. CASE UploadProgram
  <2>1. version' \in Versions
    BY <1>5, SupervisionAssumption DEF UploadProgram, TypeOK, Versions
  <2> QED
    BY <1>1, <1>5, <2>1 DEF UploadProgram, Moving, TypeOK
<1> QED
  BY <1>2, <1>3, <1>4, <1>5 DEF DataStep, Register, Complete, Reopen, UploadProgram, Moving

LEMMA Steps ==
  ASSUME [Next]_vars
  PROVE  \/ \E c \in Clicks : Choose(c)
         \/ \E r \in Reports : Look(r)
         \/ DataStep
         \/ UNCHANGED <<data, visible, click, report, log, mixed, moved, hidden>>
BY DEF Next, DataStep, SetTenantStatus, vars

LEMMA TypeStep ==
  ASSUME TypeOK, [Next]_vars
  PROVE  TypeOK'
<1>1. CASE SetTenantStatus
  BY <1>1 DEF SetTenantStatus, TypeOK, data
<1>2. CASE UNCHANGED vars
  BY <1>2 DEF vars, TypeOK, data
<1> QED
  BY <1>1, <1>2, ChooseTypes, LookTypes, DataSteps DEF Next, DataStep

\* Every variable keeps its type.
THEOREM TypeCorrect == Spec => []TypeOK
BY InitTypes, TypeStep, PTL DEF Spec

-----------------------------------------------------------------------------
(***************************************************************************)
(* The choices of the students.  A choice under way holds what the row     *)
(* held when it was read; the row is still as it was, unless another one   *)
(* overlaps with it.                                                       *)
(***************************************************************************)
LEMMA ChosenAppend ==
  ASSUME TypeOK, NEW e, log' = Append(log, e), NEW s
  PROVE  Chosen(s)' <=> IF e.what = "toggle" /\ e.who = s THEN e.to ELSE Chosen(s)
<1>1. /\ Len(log) \in Nat /\ DOMAIN log = 1 .. Len(log)
      /\ DOMAIN log' = 1 .. Len(log) + 1
      /\ \A i \in 1 .. Len(log) : log'[i] = log[i]
      /\ log'[Len(log) + 1] = e
  BY Types
<1>2. CASE e.what = "toggle" /\ e.who = s
  <2>1. Toggles(s)' = Toggles(s) \cup {Len(log) + 1}
    BY <1>1, <1>2 DEF Toggles
  <2>2. \A i \in Toggles(s) : i \in Nat /\ i < Len(log) + 1
    BY <1>1 DEF Toggles
  <2>3. ASSUME NEW i \in Toggles(s)'
        PROVE  (\A j \in Toggles(s)' : j <= i) <=> i = Len(log) + 1
    <3>1. Len(log) + 1 \in Toggles(s)' /\ \A j \in Toggles(s)' : j \in Nat /\ j <= Len(log) + 1
      BY <1>1, <2>1, <2>2
    <3>2. CASE i = Len(log) + 1
      BY <3>1, <3>2
    <3>3. CASE i # Len(log) + 1
      <4>1. i \in Toggles(s)
        BY <2>1, <3>3
      <4>2. i \in Nat /\ i < Len(log) + 1
        BY <2>2, <4>1
      <4>3. ~ (Len(log) + 1 <= i)
        BY <1>1, <4>2
      <4> QED
        BY <3>1, <3>3, <4>3
    <3> QED
      BY <3>2, <3>3
  <2>4. Chosen(s)' <=> log'[Len(log) + 1].to
    <3>1. Chosen(s)' <=> \E i \in Toggles(s)' : log'[i].to /\ \A j \in Toggles(s)' : j <= i
      BY DEF Chosen
    <3> QED
      BY <2>1, <2>3, <3>1
  <2> QED
    BY <1>1, <1>2, <2>4
<1>3. CASE ~ (e.what = "toggle" /\ e.who = s)
  <2>1. Toggles(s)' = Toggles(s)
    BY <1>1, <1>3 DEF Toggles
  <2>2. Chosen(s)' <=> Chosen(s)
    BY <1>1, <2>1 DEF Chosen, Toggles
  <2> QED
    BY <1>3, <2>2
<1> QED
  BY <1>2, <1>3

LEMMA ChosenSame == log' = log => \A s : Chosen(s)' = Chosen(s)
BY DEF Chosen, Toggles

\* Unless choices of a student overlap, the one under way still has the row it loaded.
ChoiceInv ==
  /\ VisibilityFollowsTrail
  /\ \A c \in Pending : click[c].of \notin mixed =>
       /\ click[c].held = visible[click[c].of]
       /\ \A d \in Pending : click[d].of = click[c].of => d = c

\* A report may not name who has hidden and not chosen otherwise.
HiddenInv ==
  \A r \in Reports :
    /\ hidden[r] \cap mixed = {}
    /\ \A s \in hidden[r] : ~ Chosen(s)
    /\ report[r].pc # "shown" => report[r].names = {}
    /\ At(r, "profile", "cleared") \/ At(r, "profile", "topics") =>
         report[r].of \notin hidden[r]
    /\ report[r].names \cap hidden[r] = {}

LEMMA ChooseKeepsChoices ==
  ASSUME TypeOK, ChoiceInv, NEW c \in Clicks, Choose(c)
  PROVE  ChoiceInv'
<1>1. click[c] \in Click /\ click \in [Clicks -> Click] /\ visible \in [Students -> BOOLEAN]
  BY Types
<1>2. CASE LoadUser(c)
  <2> DEFINE s == click[c].of
  <2>1. /\ s \in Students /\ log' = log /\ visible' = visible
        /\ click' = [click EXCEPT ![c] = [click[c] EXCEPT !.pc = "loaded", !.held = visible[s]]]
        /\ mixed' = IF \E d \in Pending : click[d].of = s THEN mixed \cup {s} ELSE mixed
    BY <1>1, <1>2 DEF LoadUser, Click
  <2>2. /\ click'[c].held = visible[s] /\ click'[c].of = s
        /\ Pending' = Pending \cup {c} /\ c \notin Pending
        /\ \A d \in Clicks \ {c} : click'[d] = click[d]
    BY <1>1, <1>2, <2>1 DEF Pending, Click, LoadUser
  <2>3. VisibilityFollowsTrail'
    BY <2>1, ChosenSame DEF ChoiceInv, VisibilityFollowsTrail
  <2>4. ASSUME NEW x \in Pending', click'[x].of \notin mixed'
        PROVE  /\ click'[x].held = visible[click'[x].of]
               /\ \A d \in Pending' : click'[d].of = click'[x].of => d = x
    <3>1. CASE x = c
      <4>1. ~ \E d \in Pending : click[d].of = s
        BY <2>1, <2>2, <2>4, <3>1
      <4> QED
        BY <2>2, <3>1, <4>1 DEF Pending
    <3>2. CASE x # c
      <4>1. x \in Pending /\ click'[x] = click[x] /\ click[x].of \notin mixed
        BY <2>1, <2>2, <2>4, <3>2 DEF Pending
      <4>2. click[x].of # s
        BY <2>1, <2>4, <4>1
      <4> QED
        BY <2>2, <4>1, <4>2 DEF ChoiceInv, Pending
    <3> QED
      BY <3>1, <3>2
  <2> QED
    BY <2>1, <2>3, <2>4 DEF ChoiceInv
<1>3. CASE CheckTenant(c) \/ LoseClick(c)
  <2>1. /\ log' = log /\ visible' = visible /\ mixed' = mixed /\ c \in Pending
        /\ \A d \in Clicks : click'[d].of = click[d].of /\ click'[d].held = click[d].held
        /\ Pending' \subseteq Pending
    BY <1>1, <1>3 DEF CheckTenant, LoseClick, Pending, Click
  <2>2. VisibilityFollowsTrail'
    BY <2>1, ChosenSame DEF ChoiceInv, VisibilityFollowsTrail
  <2> QED
    BY <2>1, <2>2 DEF ChoiceInv, Pending
<1>4. CASE SaveVisibility(c)
  <2> DEFINE s  == click[c].of
             to == click[c].to
  <2>1. /\ s \in Students /\ to \in BOOLEAN /\ c \in Pending
        /\ log' = Append(log, Entry("toggle", s, to, c))
        /\ visible' = IF to = click[c].held THEN visible ELSE [visible EXCEPT ![s] = to]
        /\ mixed' = mixed
    BY <1>1, <1>4 DEF SaveVisibility, Click, Pending
  <2>2. /\ \A d \in Clicks : click'[d].of = click[d].of /\ click'[d].held = click[d].held
        /\ Pending' = Pending \ {c}
    BY <1>1, <1>4 DEF SaveVisibility, Pending, Click
  <2>3. \A x \in Students \ {s} : visible'[x] = visible[x]
    BY <1>1, <2>1
  <2>4. s \notin mixed => visible'[s] = to
    BY <1>1, <2>1 DEF ChoiceInv
  <2>5. \A x : Chosen(x)' <=> IF x = s THEN to ELSE Chosen(x)
    BY <2>1, ChosenAppend DEF Entry
  <2>6. VisibilityFollowsTrail'
    <3> SUFFICES ASSUME NEW x \in Students \ mixed
                 PROVE  visible'[x] = Chosen(x)'
      BY <2>1 DEF VisibilityFollowsTrail
    <3>1. visible'[x] \in BOOLEAN /\ Chosen(x)' \in BOOLEAN
      BY <1>1, <2>1 DEF Chosen
    <3>2. CASE x = s
      BY <2>4, <2>5, <3>1, <3>2
    <3>3. CASE x # s
      BY <2>3, <2>5, <3>1, <3>3 DEF ChoiceInv, VisibilityFollowsTrail
    <3> QED
      BY <3>2, <3>3
  <2>7. ASSUME NEW x \in Pending', click'[x].of \notin mixed'
        PROVE  /\ click'[x].held = visible'[click'[x].of]
               /\ \A d \in Pending' : click'[d].of = click'[x].of => d = x
    <3>1. x \in Pending /\ x # c /\ x \in Clicks /\ click[x].of \notin mixed
          /\ click[x].of \in Students
      BY <1>1, <2>1, <2>2, <2>7 DEF Pending, Click
    <3>2. click[x].of # s
      BY <2>1, <3>1 DEF ChoiceInv
    <3> QED
      BY <2>2, <2>3, <3>1, <3>2 DEF ChoiceInv, Pending
  <2> QED
    BY <2>6, <2>7 DEF ChoiceInv
<1> QED
  BY <1>2, <1>3, <1>4 DEF Choose

LEMMA LookLogs ==
  ASSUME TypeOK, NEW r \in Reports, Look(r)
  PROVE  /\ UNCHANGED <<visible, click, mixed>>
         /\ \A s : Chosen(s)' = Chosen(s)
<1>1. \A what \in {"violation", "access"} : \A s, to : Entry(what, s, to, r).what # "toggle"
  BY DEF Entry
<1>2. log' = log \/ \E what \in {"violation", "access"}, s \in Students, to \in BOOLEAN :
                       log' = Append(log, Entry(what, s, to, r))
  BY Types DEF Look, Ask, ListStudents, LoseReport, LoadStudent, ReadTopics, ServeProfile,
     CountStudents, CountAttempts, FindProgram, ReadRows, FindTopic, CountTopic, ReadTags, Row
<1>3. \A s : Chosen(s)' \in BOOLEAN /\ Chosen(s) \in BOOLEAN
  BY DEF Chosen
<1>4. \A s : Chosen(s)' = Chosen(s)
  BY <1>1, <1>2, <1>3, ChosenAppend, ChosenSame
<1> QED
  BY <1>4 DEF Look, Ask, ListStudents, LoseReport, LoadStudent, ReadTopics, ServeProfile,
     CountStudents, CountAttempts, FindProgram, ReadRows, FindTopic, CountTopic, ReadTags, Note

LEMMA ChoiceStep ==
  ASSUME TypeOK, ChoiceInv, [Next]_vars
  PROVE  ChoiceInv'
<1>1. ASSUME UNCHANGED <<visible, click, mixed>>, \A s : Chosen(s)' = Chosen(s)
      PROVE  ChoiceInv'
  BY <1>1 DEF ChoiceInv, VisibilityFollowsTrail, Pending
<1>2. ASSUME NEW r \in Reports, Look(r)
      PROVE  ChoiceInv'
  BY <1>1, <1>2, LookLogs
<1>3. CASE DataStep
  BY <1>1, <1>3, DataSteps, ChosenSame
<1>4. CASE UNCHANGED <<data, visible, click, report, log, mixed, moved, hidden>>
  BY <1>1, <1>4, ChosenSame
<1> QED
  BY <1>2, <1>3, <1>4, ChooseKeepsChoices, Steps

LEMMA InitChoices == Init => ChoiceInv
<1> SUFFICES ASSUME Init PROVE ChoiceInv
  OBVIOUS
<1>1. \A s \in Students : visible[s] = FALSE /\ Chosen(s) = FALSE
  BY DEF Init, Chosen, Toggles
<1>2. Pending = {}
  BY DEF Init, Pending
<1> QED
  BY <1>1, <1>2 DEF ChoiceInv, VisibilityFollowsTrail

\* The row of a student follows the choices that the audit log tells of.
THEOREM VisibilityFollows == Spec => []VisibilityFollowsTrail
<1>1. ChoiceInv => VisibilityFollowsTrail
  BY DEF ChoiceInv
<1> QED
  BY <1>1, InitTypes, TypeStep, InitChoices, ChoiceStep, PTL DEF Spec

-----------------------------------------------------------------------------
(* Who is named *)

\* Whoever hid is not visible, unless choices have overlapped.
LEMMA HiddenAreInvisible ==
  ASSUME ChoiceInv, HiddenInv, TypeOK, NEW r \in Reports, NEW s \in hidden[r]
  PROVE  s \in Students /\ ~ visible[s]
<1>1. s \in Students \ mixed /\ ~ Chosen(s)
  BY Types DEF HiddenInv
<1> QED
  BY <1>1 DEF ChoiceInv, VisibilityFollowsTrail

LEMMA LookKeepsHidden ==
  ASSUME TypeOK, ChoiceInv, HiddenInv, NEW r \in Reports, Look(r)
  PROVE  HiddenInv'
<1>1. \A q \in Reports \ {r} : report'[q] = report[q] /\ hidden'[q] = hidden[q]
  BY Types DEF Look, Ask, ListStudents, LoseReport, LoadStudent, ReadTopics, ServeProfile,
     CountStudents, CountAttempts, FindProgram, ReadRows, FindTopic, CountTopic, ReadTags, Note
<1>2. mixed' = mixed /\ \A s : Chosen(s)' = Chosen(s)
  BY LookLogs
<1>3. report[r] \in Row /\ report \in [Reports -> Row]
  BY Types
<1>4. SUFFICES /\ hidden'[r] \cap mixed = {}
               /\ \A s \in hidden'[r] : ~ Chosen(s)
               /\ report'[r].pc # "shown" => report'[r].names = {}
               /\ report'[r].kind = "profile" /\ report'[r].pc \in {"cleared", "topics"} =>
                    report'[r].of \notin hidden'[r]
               /\ report'[r].names \cap hidden'[r] = {}
  BY <1>1, <1>2 DEF HiddenInv, At
<1>5. /\ hidden[r] \cap mixed = {}
      /\ \A s \in hidden[r] : ~ Chosen(s)
      /\ report[r].pc # "shown" => report[r].names = {}
      /\ report[r].kind = "profile" /\ report[r].pc \in {"cleared", "topics"} =>
           report[r].of \notin hidden[r]
      /\ report[r].names \cap hidden[r] = {}
  BY DEF HiddenInv, At
<1>6. CASE Ask(r)
  <2>1. /\ report'[r].pc = "asked" /\ report'[r].names = {}
        /\ hidden'[r] = {s \in Students \ mixed : ~ Chosen(s)}
    BY <1>3, <1>5, <1>6, Types DEF Ask, Row
  <2> QED
    BY <2>1
<1>7. CASE ListStudents(r)
  <2>1. /\ report'[r].pc = "shown" /\ report'[r].names = {s \in enrolled : visible[s]}
        /\ hidden' = hidden
    BY <1>3, <1>7 DEF ListStudents, Note, Row
  <2>2. \A s \in hidden[r] : ~ visible[s]
    BY HiddenAreInvisible
  <2> QED
    BY <1>5, <2>1, <2>2
<1>8. CASE LoadStudent(r)
  <2>1. /\ report'[r].kind = "profile" /\ report'[r].of = report[r].of /\ report'[r].names = {}
        /\ report'[r].pc \in {"absent", "refused", "cleared"}
        /\ report'[r].pc = "cleared" => visible[report[r].of]
        /\ hidden' = hidden
    <3>1. \E p \in {"absent", "refused", "cleared"} :
            /\ Note(r, [report[r] EXCEPT !.pc = p])
            /\ p = "cleared" => visible[report[r].of]
      BY <1>8 DEF LoadStudent
    <3> QED
      BY <1>3, <1>5, <1>8, <3>1, Noted DEF LoadStudent, Row, At
  <2>2. visible[report[r].of] => report[r].of \notin hidden[r]
    BY HiddenAreInvisible
  <2> QED
    BY <1>5, <2>1, <2>2
<1>9. CASE ServeProfile(r)
  <2>1. /\ report'[r].pc = "shown" /\ report'[r].names = {report[r].of}
        /\ hidden' = hidden /\ report[r].of \notin hidden[r]
    BY <1>3, <1>5, <1>9 DEF ServeProfile, Note, Row, At
  <2> QED
    BY <1>5, <2>1
<1>10. CASE ReadTopics(r)
  <2>1. /\ report'[r].kind = "profile" /\ report'[r].pc = "topics"
        /\ report'[r].of = report[r].of /\ report'[r].names = {}
        /\ hidden' = hidden /\ report[r].of \notin hidden[r]
    BY <1>3, <1>5, <1>10 DEF ReadTopics, Note, Row, At
  <2> QED
    BY <1>5, <2>1
<1>11. CASE \/ CountStudents(r) \/ CountAttempts(r) \/ FindProgram(r) \/ ReadRows(r)
            \/ FindTopic(r) \/ CountTopic(r) \/ ReadTags(r)
  <2>1. /\ report'[r].kind # "profile" /\ report'[r].names = {} /\ hidden' = hidden
    <3>1. report[r].kind # "profile" /\ report[r].pc # "shown"
      BY <1>11 DEF CountStudents, CountAttempts, FindProgram, ReadRows, FindTopic,
         CountTopic, ReadTags, At
    <3>2. ASSUME NEW row, Note(r, row), row.kind = report[r].kind, row.names = report[r].names
          PROVE  report'[r].kind # "profile" /\ report'[r].names = {} /\ hidden' = hidden
      BY <1>5, <3>1, <3>2, Noted
    <3> QED
      BY <1>3, <1>11, <3>2 DEF CountStudents, CountAttempts, FindProgram, ReadRows, FindTopic,
         CountTopic, ReadTags, Row
  <2> QED
    BY <1>5, <2>1
<1>12. CASE LoseReport(r)
  <2>1. report'[r].pc = "failed" /\ report'[r].names = {} /\ hidden' = hidden
    BY <1>3, <1>5, <1>12 DEF LoseReport, Note, Row, Running, Final
  <2> QED
    BY <1>5, <2>1
<1> QED
  BY <1>6, <1>7, <1>8, <1>9, <1>10, <1>11, <1>12 DEF Look

LEMMA ChooseKeepsHidden ==
  ASSUME TypeOK, HiddenInv, NEW c \in Clicks, Choose(c)
  PROVE  HiddenInv'
<1> DEFINE s == click[c].of
<1>1. report' = report
  BY DEF Choose, LoadUser, CheckTenant, SaveVisibility, LoseClick
<1>2. hidden \in [Reports -> SUBSET Students]
  BY Types
<1>3. ASSUME \A r \in Reports : /\ hidden'[r] \subseteq hidden[r]
                                /\ hidden'[r] \cap mixed' = {}
                                /\ \A x \in hidden'[r] : ~ Chosen(x)'
      PROVE  HiddenInv'
  BY <1>1, <1>3 DEF HiddenInv, At
<1>4. CASE LoadUser(c)
  <2>1. /\ log' = log
        /\ \/ mixed' = mixed /\ \A r \in Reports : hidden'[r] = hidden[r]
           \/ mixed' = mixed \cup {s} /\ \A r \in Reports : hidden'[r] = hidden[r] \ {s}
    BY <1>4 DEF LoadUser
  <2> QED
    BY <1>3, <2>1, ChosenSame DEF HiddenInv
<1>5. CASE CheckTenant(c) \/ LoseClick(c)
  BY <1>3, <1>5, ChosenSame DEF CheckTenant, LoseClick, HiddenInv
<1>6. CASE SaveVisibility(c)
  <2> DEFINE to == click[c].to
  <2>1. /\ log' = Append(log, Entry("toggle", s, to, c)) /\ mixed' = mixed
        /\ \A r \in Reports : hidden'[r] = IF to THEN hidden[r] \ {s} ELSE hidden[r]
    BY <1>6 DEF SaveVisibility
  <2>2. \A x : Chosen(x)' <=> IF x = s THEN to ELSE Chosen(x)
    BY <2>1, ChosenAppend DEF Entry
  <2>3. to \in BOOLEAN
    BY Types DEF Click
  <2>4. ASSUME NEW r \in Reports, NEW x \in hidden'[r]
        PROVE  ~ Chosen(x)'
    <3>1. x \in hidden[r] /\ ~ (to /\ x = s)
      BY <2>1, <2>3
    <3> QED
      BY <2>2, <2>3, <3>1 DEF HiddenInv
  <2>5. \A r \in Reports : hidden'[r] \subseteq hidden[r] /\ hidden'[r] \cap mixed' = {}
    BY <2>1 DEF HiddenInv
  <2> QED
    BY <1>3, <2>4, <2>5
<1> QED
  BY <1>4, <1>5, <1>6 DEF Choose

LEMMA HiddenStep ==
  ASSUME TypeOK, ChoiceInv, HiddenInv, [Next]_vars
  PROVE  HiddenInv'
<1>1. CASE UNCHANGED <<report, log, mixed, hidden>>
  BY <1>1, ChosenSame DEF HiddenInv, At
<1> QED
  BY <1>1, LookKeepsHidden, ChooseKeepsHidden, DataSteps, Steps

LEMMA InitHidden == Init => HiddenInv
<1> SUFFICES ASSUME Init PROVE HiddenInv
  OBVIOUS
<1>1. \A r \in Reports : hidden[r] = {} /\ report[r].pc = "idle" /\ report[r].names = {}
  BY DEF Init
<1> QED
  BY <1>1 DEF HiddenInv, At

\* No report names a student whose last choice, when it was asked for, was to hide.
THEOREM HiddenStayUnnamed == Spec => []HiddenStudentsUnnamed
<1>1. HiddenInv => HiddenStudentsUnnamed
  BY DEF HiddenInv, HiddenStudentsUnnamed
<1> QED
  BY <1>1, InitTypes, TypeStep, InitChoices, ChoiceStep, InitHidden, HiddenStep, PTL DEF Spec

\* What each statement of a report makes of its row.
LEMMA LookRows ==
  ASSUME TypeOK, NEW r \in Reports, Look(r)
  PROVE  LET old == report[r]  new == report'[r] IN
    /\ new.kind = old.kind /\ new.of = old.of
    /\ \/ /\ Ask(r) /\ new.pc = "asked" /\ old.pc = "idle"
          /\ new.n = old.n /\ new.a = old.a
       \/ ListStudents(r) /\ old.kind = "list" /\ new.pc = "shown"
       \/ LoseReport(r) /\ old.pc \notin Final /\ new.pc = "failed"
       \/ /\ LoadStudent(r) /\ old.kind = "profile" /\ old.pc = "asked"
          /\ new.pc = "refused" /\ log' = Append(log, Entry("violation", old.of, FALSE, r))
       \/ /\ LoadStudent(r) /\ old.kind = "profile" /\ old.pc = "asked"
          /\ new.pc \in {"absent", "cleared"} /\ log' = log
       \/ /\ ReadTopics(r) /\ old.kind = "profile" /\ old.pc = "cleared" /\ new.pc = "topics"
          /\ new.a = Count({old.of}, {version} \ {0})
       \/ /\ ServeProfile(r) /\ old.kind = "profile" /\ old.pc = "topics" /\ new.pc = "shown"
          /\ new.a = old.a /\ new.b = Count({old.of}, Versions)
          /\ log' = Append(log, Entry("access", old.of, TRUE, r))
       \/ /\ CountStudents(r) /\ old.kind = "heatmap" /\ old.pc = "asked"
          /\ new.pc = "students" /\ new.n = Cardinality(enrolled)
       \/ /\ CountAttempts(r) /\ old.kind = "heatmap" /\ old.pc = "students"
          /\ new.pc = "attempts" /\ new.n = old.n /\ new.a = Count(Students, Versions)
       \/ /\ FindProgram(r) /\ old.kind = "heatmap" /\ old.pc = "attempts"
          /\ new.pc = "rows" /\ new.n = old.n /\ new.a = old.a /\ Enough(old.n, old.a)
       \/ FindProgram(r) /\ old.kind = "heatmap" /\ old.pc = "attempts" /\ new.pc = "below"
       \/ /\ ReadRows(r) /\ old.kind = "heatmap" /\ old.pc = "rows" /\ new.pc = "shown"
          /\ new.n = old.n /\ new.a = old.a /\ new.b = Count(Students, {old.topic})
       \/ /\ FindTopic(r) /\ old.kind = "drilldown" /\ old.pc = "asked"
          /\ new.pc \in {"topic", "absent"}
       \/ /\ CountTopic(r) /\ old.kind = "drilldown" /\ old.pc = "topic" /\ new.pc = "tags"
          /\ new.topic = old.topic /\ new.a = Count(Students, {old.topic})
       \/ /\ ReadTags(r) /\ old.kind = "drilldown" /\ old.pc = "tags" /\ new.pc = "shown"
          /\ new.a = old.a /\ new.b = Count(Students, {old.topic})
    /\ LoadStudent(r) \/ ServeProfile(r) \/ log' = log
<1> DEFINE old == report[r]
           new == report'[r]
<1> USE DEF At
<1>1. old \in Row
  BY Types
<1>2. \A row : Note(r, row) => new = row
  BY Types DEF Note
<1>3. CASE Ask(r)
  <2>1. PICK v \in Versions \ {0} :
          report' = [report EXCEPT ![r].pc = "asked", ![r].topic = v]
    BY <1>3 DEF Ask
  <2>2. new = [old EXCEPT !.pc = "asked", !.topic = v]
    BY <1>1, <2>1, Types DEF Row
  <2> HIDE DEF new, old
  <2>3. /\ new.pc = "asked" /\ new.kind = old.kind /\ new.of = old.of
        /\ new.n = old.n /\ new.a = old.a
    BY <1>1, <2>2 DEF Row
  <2> QED
    BY <1>3, <2>3 DEF Ask, new, old
<1>4. CASE ListStudents(r)
  <2>1. new = [old EXCEPT !.pc = "shown", !.names = {s \in enrolled : visible[s]}]
    BY <1>2, <1>4 DEF ListStudents
  <2> HIDE DEF new, old
  <2>2. new.pc = "shown" /\ new.kind = old.kind /\ new.of = old.of
    BY <1>1, <2>1 DEF Row
  <2> QED
    BY <1>4, <2>2 DEF ListStudents, new, old
<1>5. CASE LoseReport(r)
  <2>1. new = [old EXCEPT !.pc = "failed"]
    BY <1>2, <1>5 DEF LoseReport
  <2> HIDE DEF new, old
  <2>2. new.pc = "failed" /\ new.kind = old.kind /\ new.of = old.of
    BY <1>1, <2>1 DEF Row
  <2> QED
    BY <1>5, <2>2 DEF LoseReport, Running, new, old
<1>6. CASE LoadStudent(r)
  <2>1. \E p \in {"absent", "refused", "cleared"} :
          /\ Note(r, [old EXCEPT !.pc = p])
          /\ IF p = "refused" THEN log' = Append(log, Entry("violation", old.of, FALSE, r))
             ELSE log' = log
    BY <1>6 DEF LoadStudent
  <2>2. PICK p \in {"absent", "refused", "cleared"} :
          /\ new = [old EXCEPT !.pc = p]
          /\ IF p = "refused" THEN log' = Append(log, Entry("violation", old.of, FALSE, r))
             ELSE log' = log
    BY <1>2, <2>1
  <2> HIDE DEF new, old
  <2>3. new.pc = p /\ new.kind = old.kind /\ new.of = old.of
    BY <1>1, <2>2 DEF Row
  <2> QED
    BY <1>6, <2>2, <2>3 DEF LoadStudent, new, old
<1>7. CASE ReadTopics(r)
  <2>1. PICK m : m = Count({old.of}, {version} \ {0}) /\ new = [old EXCEPT !.pc = "topics", !.a = m]
    BY <1>2, <1>7 DEF ReadTopics
  <2> HIDE DEF new, old
  <2>2. new.pc = "topics" /\ new.a = m /\ new.kind = old.kind /\ new.of = old.of
    BY <1>1, <2>1 DEF Row
  <2> QED
    BY <1>7, <2>1, <2>2 DEF ReadTopics, new, old
<1>8. CASE ServeProfile(r)
  <2>1. PICK m : m = Count({old.of}, Versions) /\ new = [old EXCEPT !.pc = "shown", !.b = m, !.names = {old.of}]
    BY <1>2, <1>8 DEF ServeProfile
  <2> HIDE DEF new, old
  <2>2. new.pc = "shown" /\ new.a = old.a /\ new.b = m /\ new.kind = old.kind /\ new.of = old.of
    BY <1>1, <2>1 DEF Row
  <2> QED
    BY <1>8, <2>1, <2>2 DEF ServeProfile, new, old
<1>9. CASE CountStudents(r)
  <2>1. PICK m : m = Cardinality(enrolled) /\ new = [old EXCEPT !.pc = "students", !.n = m]
    BY <1>2, <1>9 DEF CountStudents
  <2> HIDE DEF new, old
  <2>2. new.pc = "students" /\ new.n = m /\ new.kind = old.kind /\ new.of = old.of
    BY <1>1, <2>1 DEF Row
  <2> QED
    BY <1>9, <2>1, <2>2 DEF CountStudents, new, old
<1>10. CASE CountAttempts(r)
  <2>1. PICK m : m = Count(Students, Versions) /\ new = [old EXCEPT !.pc = "attempts", !.a = m]
    BY <1>2, <1>10 DEF CountAttempts
  <2> HIDE DEF new, old
  <2>2. new.pc = "attempts" /\ new.n = old.n /\ new.a = m /\ new.kind = old.kind /\ new.of = old.of
    BY <1>1, <2>1 DEF Row
  <2> QED
    BY <1>10, <2>1, <2>2 DEF CountAttempts, new, old
<1>11. CASE FindProgram(r)
  <2>1. CASE Enough(old.n, old.a) /\ version # 0
    <3>1. new = [old EXCEPT !.pc = "rows", !.topic = version]
      BY <1>2, <1>11, <2>1 DEF FindProgram
    <3> HIDE DEF new, old
    <3>2. new.pc = "rows" /\ new.n = old.n /\ new.a = old.a /\ new.kind = old.kind /\ new.of = old.of
      BY <1>1, <3>1 DEF Row
    <3> QED
      BY <1>11, <2>1, <3>2 DEF FindProgram, new, old
  <2>2. CASE ~ (Enough(old.n, old.a) /\ version # 0)
    <3>1. new = [old EXCEPT !.pc = "below"]
      BY <1>2, <1>11, <2>2 DEF FindProgram
    <3> HIDE DEF new, old
    <3>2. new.pc = "below" /\ new.kind = old.kind /\ new.of = old.of
      BY <1>1, <3>1 DEF Row
    <3> QED
      BY <1>11, <3>2 DEF FindProgram, new, old
  <2> QED
    BY <2>1, <2>2
<1>12. CASE ReadRows(r)
  <2>1. PICK m : m = Count(Students, {old.topic}) /\ new = [old EXCEPT !.pc = "shown", !.b = m]
    BY <1>2, <1>12 DEF ReadRows
  <2> HIDE DEF new, old
  <2>2. new.pc = "shown" /\ new.n = old.n /\ new.a = old.a /\ new.b = m /\ new.kind = old.kind /\ new.of = old.of
    BY <1>1, <2>1 DEF Row
  <2> QED
    BY <1>12, <2>1, <2>2 DEF ReadRows, new, old
<1>13. CASE FindTopic(r)
  <2>1. PICK p \in {"topic", "absent"} : new = [old EXCEPT !.pc = p]
    BY <1>2, <1>13 DEF FindTopic
  <2> HIDE DEF new, old
  <2>2. new.pc = p /\ new.kind = old.kind /\ new.of = old.of
    BY <1>1, <2>1 DEF Row
  <2> QED
    BY <1>13, <2>2 DEF FindTopic, new, old
<1>14. CASE CountTopic(r)
  <2>1. PICK m : m = Count(Students, {old.topic}) /\ new = [old EXCEPT !.pc = "tags", !.a = m]
    BY <1>2, <1>14 DEF CountTopic
  <2> HIDE DEF new, old
  <2>2. new.pc = "tags" /\ new.topic = old.topic /\ new.a = m /\ new.kind = old.kind /\ new.of = old.of
    BY <1>1, <2>1 DEF Row
  <2> QED
    BY <1>14, <2>1, <2>2 DEF CountTopic, new, old
<1>15. CASE ReadTags(r)
  <2>1. PICK m : m = Count(Students, {old.topic}) /\ new = [old EXCEPT !.pc = "shown", !.b = m]
    BY <1>2, <1>15 DEF ReadTags
  <2> HIDE DEF new, old
  <2>2. new.pc = "shown" /\ new.a = old.a /\ new.b = m /\ new.kind = old.kind /\ new.of = old.of
    BY <1>1, <2>1 DEF Row
  <2> QED
    BY <1>15, <2>1, <2>2 DEF ReadTags, new, old
<1> QED
  BY <1>3, <1>4, <1>5, <1>6, <1>7, <1>8, <1>9, <1>10, <1>11, <1>12, <1>13, <1>14, <1>15 DEF Look

-----------------------------------------------------------------------------
(* What the audit log tells of a report *)

Entries(r, what) == {i \in DOMAIN log : log[i].by = r /\ log[i].what = what}

TraceInv ==
  \A r \in Reports :
    /\ Cardinality(Entries(r, "access")) = IF At(r, "profile", "shown") THEN 1 ELSE 0
    /\ Cardinality(Entries(r, "violation")) = IF report[r].pc = "refused" THEN 1 ELSE 0

LEMMA EntriesAppend ==
  ASSUME TypeOK, NEW e, log' = Append(log, e), NEW r, NEW what
  PROVE  Cardinality(Entries(r, what))' =
           IF e.by = r /\ e.what = what THEN Cardinality(Entries(r, what)) + 1
           ELSE Cardinality(Entries(r, what))
<1>1. /\ Len(log) \in Nat /\ DOMAIN log = 1 .. Len(log)
      /\ DOMAIN log' = 1 .. Len(log) + 1
      /\ \A i \in 1 .. Len(log) : log'[i] = log[i]
      /\ log'[Len(log) + 1] = e
  BY Types
<1>2. IsFiniteSet(Entries(r, what)) /\ Len(log) + 1 \notin Entries(r, what)
  <2>1. IsFiniteSet(1 .. Len(log)) /\ Entries(r, what) \in SUBSET (1 .. Len(log))
    BY <1>1, FS_Interval DEF Entries
  <2> QED
    BY <1>1, <2>1, FS_Subset
<1>3. Entries(r, what)' = IF e.by = r /\ e.what = what
                          THEN Entries(r, what) \cup {Len(log) + 1} ELSE Entries(r, what)
  BY <1>1 DEF Entries
<1>4. Cardinality(Entries(r, what))' = Cardinality(Entries(r, what)')
  OBVIOUS
<1>5. CASE e.by = r /\ e.what = what
  BY <1>2, <1>3, <1>4, <1>5, FS_AddElement
<1>6. CASE ~ (e.by = r /\ e.what = what)
  BY <1>3, <1>4, <1>6
<1> QED
  BY <1>5, <1>6

LEMMA EntriesSame ==
  log' = log => \A r, what : Cardinality(Entries(r, what))' = Cardinality(Entries(r, what))
BY DEF Entries

LEMMA LookKeepsTrace ==
  ASSUME TypeOK, TraceInv, NEW r \in Reports, Look(r)
  PROVE  TraceInv'
<1> DEFINE old == report[r]
           new == report'[r]
<1>1. \A q \in Reports \ {r} : report'[q] = report[q]
  BY Types DEF Look, Ask, ListStudents, LoseReport, LoadStudent, ReadTopics, ServeProfile,
     CountStudents, CountAttempts, FindProgram, ReadRows, FindTopic, CountTopic, ReadTags, Note
<1>2. new.kind = old.kind
  BY LookRows
<1>3. CASE /\ log' = Append(log, Entry("violation", old.of, FALSE, r))
           /\ old.pc = "asked" /\ new.pc = "refused"
  <2> DEFINE e == Entry("violation", old.of, FALSE, r)
  <2>1. log' = Append(log, e) /\ e.what = "violation" /\ e.by = r
    BY <1>3 DEF Entry
  <2> HIDE DEF e
  <2>2. \A q \in Reports :
          /\ Cardinality(Entries(q, "access"))' = Cardinality(Entries(q, "access"))
          /\ Cardinality(Entries(q, "violation"))' =
               IF q = r THEN Cardinality(Entries(q, "violation")) + 1
               ELSE Cardinality(Entries(q, "violation"))
    BY <2>1, EntriesAppend
  <2> QED
    BY <1>1, <1>3, <2>2 DEF TraceInv, At
<1>4. CASE /\ log' = Append(log, Entry("access", old.of, TRUE, r))
           /\ old.kind = "profile" /\ old.pc = "topics" /\ new.pc = "shown"
  <2> DEFINE e == Entry("access", old.of, TRUE, r)
  <2>1. log' = Append(log, e) /\ e.what = "access" /\ e.by = r
    BY <1>4 DEF Entry
  <2> HIDE DEF e
  <2>2. \A q \in Reports :
          /\ Cardinality(Entries(q, "violation"))' = Cardinality(Entries(q, "violation"))
          /\ Cardinality(Entries(q, "access"))' =
               IF q = r THEN Cardinality(Entries(q, "access")) + 1
               ELSE Cardinality(Entries(q, "access"))
    BY <2>1, EntriesAppend
  <2> QED
    BY <1>1, <1>2, <1>4, <2>2 DEF TraceInv, At
<1>5. CASE /\ log' = log /\ old.pc \notin Final /\ new.pc # "refused"
           /\ new.pc = "shown" => old.kind # "profile"
  BY <1>1, <1>2, <1>5, EntriesSame DEF TraceInv, At, Final
<1>6. ListStudents(r) \/ ReadTopics(r) \/ CountStudents(r) \/ CountAttempts(r)
        \/ FindProgram(r) \/ ReadRows(r) \/ FindTopic(r) \/ CountTopic(r) \/ ReadTags(r)
        \/ LoseReport(r) \/ Ask(r) => log' = log /\ old.pc \notin Final
  BY DEF ListStudents, ReadTopics, CountStudents, CountAttempts, FindProgram, ReadRows,
     FindTopic, CountTopic, ReadTags, LoseReport, Ask, Running, Final, At
<1> HIDE DEF old, new
<1> QED
  BY <1>3, <1>4, <1>5, <1>6, LookRows DEF old, new, Final

LEMMA TraceStep ==
  ASSUME TypeOK, TraceInv, [Next]_vars
  PROVE  TraceInv'
<1>1. CASE UNCHANGED <<report, log>>
  BY <1>1, EntriesSame DEF TraceInv, At
<1>2. ASSUME NEW c \in Clicks, SaveVisibility(c)
      PROVE  TraceInv'
  <2> DEFINE e == Entry("toggle", click[c].of, click[c].to, c)
  <2>1. log' = Append(log, e) /\ e.what = "toggle" /\ report' = report
    BY <1>2 DEF SaveVisibility, Entry
  <2> HIDE DEF e
  <2>3. \A q : \A what \in {"access", "violation"} :
          Cardinality(Entries(q, what))' = Cardinality(Entries(q, what))
    BY <2>1, EntriesAppend
  <2> QED
    BY <2>1, <2>3 DEF TraceInv, At
<1>3. ASSUME NEW c \in Clicks, Choose(c)
      PROVE  TraceInv'
  BY <1>1, <1>2, <1>3 DEF Choose, LoadUser, CheckTenant, LoseClick
<1> QED
  BY <1>1, <1>3, LookKeepsTrace, DataSteps, Steps

LEMMA InitTrace == Init => TraceInv
<1> SUFFICES ASSUME Init PROVE TraceInv
  OBVIOUS
<1>1. \A r \in Reports : report[r].pc = "idle" /\ \A what : Entries(r, what) = {}
  BY DEF Init, Entries
<1> QED
  BY <1>1, FS_EmptySet DEF TraceInv, At

\* Profiles that were shown and requests that were refused are on the audit log,
\* each once, and nothing else is there for them.
THEOREM TraceIsExact == Spec => []AccessLeavesTrace
<1>1. TraceInv => AccessLeavesTrace
  BY DEF TraceInv, AccessLeavesTrace, Entries, At
<1> QED
  BY <1>1, InitTypes, TypeStep, InitTrace, TraceStep, PTL DEF Spec

-----------------------------------------------------------------------------
(***************************************************************************)
(* What a report counts.  Until it has moved, a report under way still     *)
(* holds what its statements would count again now; students only come.    *)
(***************************************************************************)
CountInv ==
  \A r \in Reports :
    /\ At(r, "profile", "topics") /\ r \notin moved =>
         report[r].a = Count({report[r].of}, {version} \ {0})
    /\ At(r, "heatmap", "students") \/ At(r, "heatmap", "attempts") \/ At(r, "heatmap", "rows") =>
         report[r].n <= Cardinality(enrolled)
    /\ (At(r, "heatmap", "attempts") \/ At(r, "heatmap", "rows")) /\ r \notin moved =>
         report[r].a = Count(Students, Versions)
    /\ At(r, "heatmap", "rows") => Enough(report[r].n, report[r].a)
    /\ At(r, "drilldown", "tags") /\ r \notin moved =>
         report[r].a = Count(Students, {report[r].topic})

LEMMA LookKeepsCounts ==
  ASSUME TypeOK, CountInv, ReportsAddUp, NEW r \in Reports, Look(r)
  PROVE  CountInv' /\ ReportsAddUp'
<1> DEFINE old == report[r]
           new == report'[r]
<1>1. /\ \A q \in Reports \ {r} : report'[q] = report[q]
      /\ UNCHANGED <<data, moved>>
  BY Types DEF Look, Ask, ListStudents, LoseReport, LoadStudent, ReadTopics, ServeProfile,
     CountStudents, CountAttempts, FindProgram, ReadRows, FindTopic, CountTopic, ReadTags, Note
<1>2. old \in Row /\ Cardinality(enrolled) \in Nat /\ {MinStudents, MinAttempts} \subseteq Nat
  BY Types, FiniteData, SupervisionAssumption
<1>3. \A ss, vs : Count(ss, vs)' = Count(ss, vs)
  BY <1>1 DEF Count, data
<1>4. /\ Count({old.of}, {version} \ {0}) <= Count({old.of}, Versions)
      /\ Count(Students, {old.topic}) <= Count(Students, Versions)
  BY <1>2, Counting, Types DEF Row
<1>5. /\ old.kind = "profile" /\ old.pc = "topics" /\ r \notin moved =>
           old.a = Count({old.of}, {version} \ {0})
      /\ old.kind = "heatmap" /\ old.pc \in {"students", "attempts", "rows"} =>
           old.n <= Cardinality(enrolled)
      /\ old.kind = "heatmap" /\ old.pc \in {"attempts", "rows"} /\ r \notin moved =>
           old.a = Count(Students, Versions)
      /\ old.kind = "heatmap" /\ old.pc = "rows" => Enough(old.n, old.a)
      /\ old.kind = "drilldown" /\ old.pc = "tags" /\ r \notin moved =>
           old.a = Count(Students, {old.topic})
  BY DEF CountInv, At
<1>6. CountInv'
  <2>1. /\ new.kind = "profile" /\ new.pc = "topics" /\ r \notin moved =>
             new.a = Count({new.of}, {version} \ {0})
        /\ new.kind = "heatmap" /\ new.pc \in {"students", "attempts", "rows"} =>
             new.n <= Cardinality(enrolled)
        /\ new.kind = "heatmap" /\ new.pc \in {"attempts", "rows"} /\ r \notin moved =>
             new.a = Count(Students, Versions)
        /\ new.kind = "heatmap" /\ new.pc = "rows" => Enough(new.n, new.a)
        /\ new.kind = "drilldown" /\ new.pc = "tags" /\ r \notin moved =>
             new.a = Count(Students, {new.topic})
    <3> HIDE DEF old, new
    <3>1. new.kind = "profile" /\ new.pc = "topics" /\ r \notin moved =>
            new.a = Count({new.of}, {version} \ {0})
      BY LookRows DEF old, new
    <3>2. new.kind = "heatmap" /\ new.pc \in {"students", "attempts", "rows"} =>
            \/ new.n = Cardinality(enrolled)
            \/ new.n = old.n /\ old.kind = "heatmap" /\ old.pc \in {"students", "attempts"}
      BY LookRows DEF old, new
    <3>3. new.kind = "heatmap" /\ new.pc \in {"attempts", "rows"} =>
            \/ new.a = Count(Students, Versions)
            \/ new.a = old.a /\ old.kind = "heatmap" /\ old.pc = "attempts"
      BY LookRows DEF old, new
    <3>4. new.kind = "heatmap" /\ new.pc = "rows" => Enough(new.n, new.a)
      BY LookRows DEF old, new
    <3>5. new.kind = "drilldown" /\ new.pc = "tags" => new.a = Count(Students, {new.topic})
      BY LookRows DEF old, new
    <3> QED
      BY <1>2, <1>5, <3>1, <3>2, <3>3, <3>4, <3>5
  <2> QED
    BY <1>1, <1>3, <2>1 DEF CountInv, At, data
<1>7. ReportsAddUp'
  <2>1. new.pc = "shown" =>
          /\ new.kind = "heatmap" => Cardinality(enrolled) >= MinStudents /\ new.a >= MinAttempts
          /\ r \notin moved =>
               /\ new.kind = "profile"   => new.a <= new.b
               /\ new.kind = "heatmap"   => new.b <= new.a
               /\ new.kind = "drilldown" => new.b = new.a
    <3>1. CASE new.pc # "shown"
      BY <3>1
    <3>2. CASE new.pc = "shown"
      <4> HIDE DEF old, new
      <4>1. \/ old.kind = "list" /\ new.kind = "list"
            \/ /\ old.kind = "profile" /\ old.pc = "topics" /\ new.kind = "profile"
               /\ new.a = old.a /\ new.b = Count({old.of}, Versions)
            \/ /\ old.kind = "heatmap" /\ old.pc = "rows" /\ new.kind = "heatmap"
               /\ new.n = old.n /\ new.a = old.a /\ new.b = Count(Students, {old.topic})
            \/ /\ old.kind = "drilldown" /\ old.pc = "tags" /\ new.kind = "drilldown"
               /\ new.a = old.a /\ new.b = Count(Students, {old.topic})
        BY <3>2, LookRows DEF old, new
      <4>2. old.n \in Nat /\ old.a \in Nat
        BY <1>2 DEF Row
      <4> QED
        BY <1>2, <1>4, <1>5, <4>1, <4>2 DEF Enough
    <3> QED
      BY <3>1, <3>2
  <2> QED
    BY <1>1, <2>1 DEF ReportsAddUp, data
<1> QED
  BY <1>6, <1>7

LEMMA CountStep ==
  ASSUME TypeOK, CountInv, ReportsAddUp, [Next]_vars
  PROVE  CountInv' /\ ReportsAddUp'
<1>1. CASE UNCHANGED <<data, report, moved>>
  <2>1. \A ss, vs : Count(ss, vs)' = Count(ss, vs)
    BY <1>1 DEF Count, data
  <2> QED
    BY <1>1, <2>1 DEF CountInv, ReportsAddUp, At, data
<1>2. CASE DataStep
  <2>1. /\ report' = report /\ moved' = moved \cup Running
        /\ Cardinality(enrolled) <= Cardinality(enrolled')
        /\ Cardinality(enrolled) \in Nat /\ Cardinality(enrolled') \in Nat
        /\ {MinStudents, MinAttempts} \subseteq Nat
    <3>1. enrolled \in SUBSET enrolled' /\ IsFiniteSet(enrolled')
      <4>1. TypeOK' /\ enrolled \subseteq enrolled'
        BY <1>2, DataSteps
      <4>2. enrolled' \in SUBSET Students
        BY <4>1 DEF TypeOK
      <4> QED
        BY <4>1, <4>2, FS_Subset, SupervisionAssumption
    <3>2. Cardinality(enrolled) <= Cardinality(enrolled')
      BY <3>1, FS_Subset
    <3> QED
      BY <1>2, <3>1, <3>2, DataSteps, FiniteData, FS_CardinalityType, SupervisionAssumption
  <2>2. \A r \in Reports : report[r].pc \in {"topics", "students", "attempts", "rows", "tags"} =>
          r \in moved'
    BY <2>1 DEF Running, Final
  <2>3. \A r \in Reports : report[r] \in Row
    BY Types
  <2>4. CountInv'
    <3> SUFFICES ASSUME NEW r \in Reports
                 PROVE  /\ At(r, "heatmap", "students") \/ At(r, "heatmap", "attempts")
                             \/ At(r, "heatmap", "rows") =>
                             report[r].n <= Cardinality(enrolled')
                        /\ At(r, "heatmap", "rows") => Enough(report[r].n, report[r].a)
      BY <2>1, <2>2 DEF CountInv, At
    <3>1. report[r].n \in Nat
      BY <2>3 DEF Row
    <3>2. /\ At(r, "heatmap", "students") \/ At(r, "heatmap", "attempts")
               \/ At(r, "heatmap", "rows") => report[r].n <= Cardinality(enrolled)
          /\ At(r, "heatmap", "rows") => Enough(report[r].n, report[r].a)
      BY DEF CountInv
    <3> QED
      BY <2>1, <3>1, <3>2
  <2>5. ReportsAddUp'
    <3> SUFFICES ASSUME NEW r \in Reports, report[r].pc = "shown"
                 PROVE  /\ report[r].kind = "heatmap" => Cardinality(enrolled') >= MinStudents
                        /\ report[r].kind = "heatmap" => report[r].a >= MinAttempts
                        /\ r \notin moved =>
                             /\ report[r].kind = "profile"   => report[r].a <= report[r].b
                             /\ report[r].kind = "heatmap"   => report[r].b <= report[r].a
                             /\ report[r].kind = "drilldown" => report[r].b = report[r].a
      BY <2>1 DEF ReportsAddUp
    <3> QED
      BY <2>1 DEF ReportsAddUp
  <2> QED
    BY <2>4, <2>5
<1>3. ASSUME NEW c \in Clicks, Choose(c)
      PROVE  UNCHANGED <<data, report, moved>>
  BY <1>3 DEF Choose, LoadUser, CheckTenant, SaveVisibility, LoseClick
<1> QED
  BY <1>1, <1>2, <1>3, LookKeepsCounts, Steps

LEMMA InitCounts == Init => CountInv /\ ReportsAddUp
<1> SUFFICES ASSUME Init PROVE CountInv /\ ReportsAddUp
  OBVIOUS
<1>1. \A r \in Reports : report[r].pc = "idle"
  BY DEF Init
<1> QED
  BY <1>1 DEF CountInv, ReportsAddUp, At

\* A report contradicts itself only if what it counts changed under it.
THEOREM ReportsAgree == Spec => []ReportsAddUp
BY InitTypes, TypeStep, InitCounts, CountStep, PTL DEF Spec

=============================================================================
