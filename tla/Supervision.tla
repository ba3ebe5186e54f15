---------------------------- MODULE Supervision ----------------------------
(***************************************************************************)
(* What a supervisor may see of the students of a tenant: the visibility a *)
(* student chooses (POST /me/visibility), the list, the profile, the       *)
(* heatmap and the drill-down of supervisor.py, and the audit log they     *)
(* write.  Every SELECT is a step of its own; between two of them students *)
(* choose again, attempts end or are evaluated anew, and programs are      *)
(* replaced.                                                               *)
(*                                                                         *)
(* An attempt is a completed one below the score threshold: the statements *)
(* count the others in the same way.  It is <<student, version, number>>,  *)
(* where the version is that of the program whose topic it was about, 0 if *)
(* it had none.  Left out: the order and the Wilson interval of the rows,  *)
(* and accounts that _resolve_tenant_for_supervisor turns away.            *)
(***************************************************************************)
EXTENDS Naturals, FiniteSets, Sequences

CONSTANTS
  Students,     \* users of the tenant with the role student
  Registered,   \* those that are there in the beginning
  Clicks,       \* requests to change a visibility
  Reports,      \* requests of supervisors
  MinStudents,  \* config.analytics.min_aggregate_size
  MinAttempts,  \* config.analytics.min_attempts_for_heatmap
  MaxVersion,   \* bound on the programs uploaded
  MaxAttempts   \* bound on the attempts of a student about a version

ASSUME SupervisionAssumption ==
  /\ IsFiniteSet(Students) /\ Registered \subseteq Students
  /\ {MinStudents, MinAttempts, MaxVersion, MaxAttempts} \subseteq Nat

VARIABLES
  enrolled,     \* the students with a row in users
  visible,      \* users.supervisor_visibility is show-to-supervisor
  writable,     \* tenants.status is active
  version,      \* the active program, 0 if there is none
  completed,    \* the completed attempts
  click,        \* the requests to change a visibility
  report,       \* the requests of supervisors
  log,          \* audit_log, in the order of the commits
  mixed,        \* history: students with two clicks under way at once
  moved,        \* history: reports under way when what they count changed
  hidden        \* history: the students that a report may not name

data == <<enrolled, version, completed>>
vars == <<data, visible, writable, click, report, log, mixed, moved, hidden>>

Versions == 0 .. MaxVersion
Kinds    == {"profile", "list", "heatmap", "drilldown"}
Final    == {"shown", "refused", "absent", "below", "failed"}
Running  == {r \in Reports : report[r].pc \notin Final \cup {"idle"}}
Pending  == {c \in Clicks : click[c].pc \in {"loaded", "allowed"}}

Entry(what, s, to, by) == [what |-> what, who |-> s, to |-> to, by |-> by]

Count(ss, vs) == Cardinality({a \in completed : a[1] \in ss /\ a[2] \in vs})

Init ==
  /\ enrolled = Registered
  /\ visible = [s \in Students |-> FALSE]
  /\ writable = TRUE
  /\ version = 0
  /\ completed = {}
  /\ click \in [Clicks -> [pc : {"idle"}, of : Students, to : BOOLEAN, held : {FALSE}]]
  /\ report \in [Reports -> [pc : {"idle"}, kind : Kinds, of : Students, topic : {0},
                             n : {0}, a : {0}, b : {0}, names : {{}}]]
  /\ log = << >>
  /\ mixed = {}
  /\ moved = {}
  /\ hidden = [r \in Reports |-> {}]

-----------------------------------------------------------------------------
(* POST /me/visibility *)

\* The choices of a student that the audit log tells of, and the last of them.
Toggles(s) == {i \in DOMAIN log : log[i].what = "toggle" /\ log[i].who = s}
Chosen(s)  == \E i \in Toggles(s) : log[i].to /\ \A j \in Toggles(s) : j <= i

\* get_current_user: the session keeps the row it has read.
LoadUser(c) ==
  LET s == click[c].of IN
  /\ click[c].pc = "idle" /\ s \in enrolled
  /\ click' = [click EXCEPT ![c].pc = "loaded", ![c].held = visible[s]]
  /\ LET clash == {d \in Pending : click[d].of = s} # {} IN
       /\ mixed' = IF clash THEN mixed \cup {s} ELSE mixed
       /\ hidden' = [r \in Reports |-> IF clash THEN hidden[r] \ {s} ELSE hidden[r]]
  /\ UNCHANGED <<data, visible, writable, report, log, moved>>

\* assert_tenant_writable answers, or 423.
CheckTenant(c) ==
  /\ click[c].pc = "loaded"
  /\ click' = [click EXCEPT ![c].pc = IF writable THEN "allowed" ELSE "refused"]
  /\ UNCHANGED <<data, visible, writable, report, log, mixed, moved, hidden>>

\* Defect: the audit entry is committed before the row is written.
SaveAuditFirst(c) ==
  LET s == click[c].of  to == click[c].to IN
  /\ click[c].pc = "allowed"
  /\ log' = Append(log, Entry("toggle", s, to, c))
  /\ \E lost \in BOOLEAN :
       /\ visible' = IF lost \/ to = click[c].held THEN visible ELSE [visible EXCEPT ![s] = to]
       /\ click' = [click EXCEPT ![c].pc = IF lost THEN "failed" ELSE "done"]
  /\ hidden' = [r \in Reports |-> IF to THEN hidden[r] \ {s} ELSE hidden[r]]
  /\ UNCHANGED <<data, writable, report, mixed, moved>>

\* The UPDATE names supervisor_visibility only if it differs from the value the
\* session has read; the entry and the row are committed together.
SaveVisibility(c) ==
  LET s == click[c].of  to == click[c].to IN
  /\ click[c].pc = "allowed"
  /\ visible' = IF to = click[c].held THEN visible ELSE [visible EXCEPT ![s] = to]
  /\ log' = Append(log, Entry("toggle", s, to, c))
  /\ click' = [click EXCEPT ![c].pc = "done"]
  /\ hidden' = [r \in Reports |-> IF to THEN hidden[r] \ {s} ELSE hidden[r]]
  /\ UNCHANGED <<data, writable, report, mixed, moved>>

\* The connection is lost, and what is not committed with it.
LoseClick(c) ==
  /\ c \in Pending
  /\ click' = [click EXCEPT ![c].pc = "failed"]
  /\ UNCHANGED <<data, visible, writable, report, log, mixed, moved, hidden>>

-----------------------------------------------------------------------------
(* What the reports count *)

Moving == moved' = moved \cup Running

Register(s) ==
  /\ s \notin enrolled
  /\ enrolled' = enrolled \cup {s}
  /\ Moving
  /\ UNCHANGED <<version, completed, visible, writable, click, report, log, mixed, hidden>>

\* upload_program: a new version becomes the active one.
UploadProgram ==
  /\ version < MaxVersion
  /\ version' = version + 1
  /\ Moving
  /\ UNCHANGED <<enrolled, completed, visible, writable, click, report, log, mixed, hidden>>

\* submit_selfcheck: an attempt is evaluated, about a topic or none.
Complete(s, v) ==
  /\ s \in enrolled /\ v <= version /\ Count({s}, {v}) < MaxAttempts
  /\ \E n \in 1 .. MaxAttempts :
       /\ <<s, v, n>> \notin completed
       /\ completed' = completed \cup {<<s, v, n>>}
  /\ Moving
  /\ UNCHANGED <<enrolled, version, visible, writable, click, report, log, mixed, hidden>>

\* A second submit sets a completed attempt back to in_progress.
Reopen(a) ==
  /\ completed' = completed \ {a}
  /\ Moving
  /\ UNCHANGED <<enrolled, version, visible, writable, click, report, log, mixed, hidden>>

SetTenantStatus ==
  /\ writable' = ~writable
  /\ UNCHANGED <<data, visible, click, report, log, mixed, moved, hidden>>

-----------------------------------------------------------------------------
(* The reports *)

At(r, kind, p) == report[r].kind = kind /\ report[r].pc = p

\* A statement of report r: what it yields, and where the report goes on.
Note(r, row) ==
  /\ report' = [report EXCEPT ![r] = row]
  /\ UNCHANGED <<data, visible, writable, click, mixed, moved, hidden>>

\* The request arrives, and _resolve_tenant_for_supervisor lets it pass.
Ask(r) ==
  /\ report[r].pc = "idle"
  /\ \E v \in Versions \ {0} : report' = [report EXCEPT ![r].pc = "asked", ![r].topic = v]
  /\ hidden' = [hidden EXCEPT ![r] = {s \in Students \ mixed : ~Chosen(s)}]
  /\ UNCHANGED <<data, visible, writable, click, log, mixed, moved>>

\* One SELECT lists the students, with the email of those that are visible.
ListStudents(r) ==
  /\ At(r, "list", "asked")
  /\ Note(r, [report[r] EXCEPT !.pc = "shown", !.names = {s \in enrolled : visible[s]}])
  /\ UNCHANGED log

\* Defect: the consent that was ever given is remembered, instead of read.
LoadStudentCached(r) ==
  LET s == report[r].of IN
  /\ At(r, "profile", "asked")
  /\ s \in enrolled
  /\ visible[s] \/ \E i \in DOMAIN log : log[i].who = s /\ log[i].to
  /\ Note(r, [report[r] EXCEPT !.pc = "cleared"])
  /\ UNCHANGED log

\* The student's row: not there, not visible (an entry, and the same 404), or
\* visible, when an entry is written and not yet committed.
LoadStudent(r) ==
  LET s == report[r].of IN
  /\ At(r, "profile", "asked")
  /\ \/ s \notin enrolled /\ Note(r, [report[r] EXCEPT !.pc = "absent"]) /\ UNCHANGED log
     \/ /\ s \in enrolled /\ ~visible[s]
        /\ Note(r, [report[r] EXCEPT !.pc = "refused"])
        /\ log' = Append(log, Entry("violation", s, FALSE, r))
     \/ /\ s \in enrolled /\ visible[s]
        /\ Note(r, [report[r] EXCEPT !.pc = "cleared"])
        /\ UNCHANGED log

\* The attempts about topics of the active program.
ReadTopics(r) ==
  /\ At(r, "profile", "cleared")
  /\ Note(r, [report[r] EXCEPT !.pc = "topics", !.a = Count({report[r].of}, {version} \ {0})])
  /\ UNCHANGED log

\* Defect: the profile is returned without the commit.
ServeProfileUncommitted(r) ==
  /\ At(r, "profile", "topics")
  /\ Note(r, [report[r] EXCEPT !.pc = "shown", !.b = Count({report[r].of}, Versions), !.names = {report[r].of}])
  /\ UNCHANGED log

\* All attempts of the student; COMMIT, and the profile is returned.
ServeProfile(r) ==
  /\ At(r, "profile", "topics")
  /\ Note(r, [report[r] EXCEPT !.pc = "shown", !.b = Count({report[r].of}, Versions), !.names = {report[r].of}])
  /\ log' = Append(log, Entry("access", report[r].of, TRUE, r))

CountStudents(r) ==
  /\ At(r, "heatmap", "asked")
  /\ Note(r, [report[r] EXCEPT !.pc = "students", !.n = Cardinality(enrolled)])
  /\ UNCHANGED log

CountAttempts(r) ==
  /\ At(r, "heatmap", "students")
  /\ Note(r, [report[r] EXCEPT !.pc = "attempts", !.a = Count(Students, Versions)])
  /\ UNCHANGED log

\* The two thresholds of a population.
Enough(n, a) == n >= MinStudents /\ a >= MinAttempts

FindProgram(r) ==
  /\ At(r, "heatmap", "attempts")
  /\ IF Enough(report[r].n, report[r].a) /\ version # 0
     THEN Note(r, [report[r] EXCEPT !.pc = "rows", !.topic = version])
     ELSE Note(r, [report[r] EXCEPT !.pc = "below"])
  /\ UNCHANGED log

\* The rows of the topics of the program that was found, with their attempts.
ReadRows(r) ==
  /\ At(r, "heatmap", "rows")
  /\ Note(r, [report[r] EXCEPT !.pc = "shown", !.b = Count(Students, {report[r].topic})])
  /\ UNCHANGED log

\* The topic is one of the active program, or 404.
FindTopic(r) ==
  /\ At(r, "drilldown", "asked")
  /\ Note(r, [report[r] EXCEPT !.pc = IF report[r].topic = version THEN "topic" ELSE "absent"])
  /\ UNCHANGED log

CountTopic(r) ==
  /\ At(r, "drilldown", "topic")
  /\ Note(r, [report[r] EXCEPT !.pc = "tags", !.a = Count(Students, {report[r].topic})])
  /\ UNCHANGED log

\* Defect: the tags of every attempt about the topic's program or none.
ReadTagsLoose(r) ==
  /\ At(r, "drilldown", "tags")
  /\ Note(r, [report[r] EXCEPT !.pc = "shown", !.b = Count(Students, {0, report[r].topic})])
  /\ UNCHANGED log

\* The error tags, from the attempts below the threshold.
ReadTags(r) ==
  /\ At(r, "drilldown", "tags")
  /\ Note(r, [report[r] EXCEPT !.pc = "shown", !.b = Count(Students, {report[r].topic})])
  /\ UNCHANGED log

\* The connection is lost; an entry that was only flushed is rolled back.
LoseReport(r) ==
  /\ r \in Running
  /\ Note(r, [report[r] EXCEPT !.pc = "failed"])
  /\ UNCHANGED log

-----------------------------------------------------------------------------
Choose(c) == LoadUser(c) \/ CheckTenant(c) \/ SaveVisibility(c) \/ LoseClick(c)

Look(r) ==
  \/ Ask(r) \/ ListStudents(r) \/ LoseReport(r)
  \/ LoadStudent(r) \/ ReadTopics(r) \/ ServeProfile(r)
  \/ CountStudents(r) \/ CountAttempts(r) \/ FindProgram(r) \/ ReadRows(r)
  \/ FindTopic(r) \/ CountTopic(r) \/ ReadTags(r)

Next ==
  \/ \E c \in Clicks : Choose(c)
  \/ \E r \in Reports : Look(r)
  \/ \E s \in Students : Register(s) \/ \E v \in Versions : Complete(s, v)
  \/ \E a \in completed : Reopen(a)
  \/ UploadProgram
  \/ SetTenantStatus

Spec == Init /\ [][Next]_vars

-----------------------------------------------------------------------------
\* Every variable keeps its type.
TypeOK ==
  /\ enrolled \subseteq Students
  /\ visible \in [Students -> BOOLEAN]
  /\ writable \in BOOLEAN /\ version \in Versions
  /\ completed \subseteq Students \X Versions \X (1 .. MaxAttempts)
  /\ click \in [Clicks -> [pc : {"idle", "loaded", "allowed", "done", "refused", "failed"},
                           of : Students, to : BOOLEAN, held : BOOLEAN]]
  /\ report \in [Reports -> [pc : Final \cup {"idle", "asked", "cleared", "topics", "students",
                                             "attempts", "rows", "topic", "tags"},
                             kind : Kinds, of : Students, topic : Versions,
                             n : Nat, a : Nat, b : Nat, names : SUBSET Students]]
  /\ log \in Seq([what : {"toggle", "access", "violation"}, who : Students, to : BOOLEAN,
                  by : Clicks \cup Reports])
  /\ mixed \subseteq Students /\ moved \subseteq Reports
  /\ hidden \in [Reports -> SUBSET Students]

\* The row of a student holds what the last committed choice says (the entries
\* of the audit log tell every one), unless two choices overlapped: then the
\* later may leave the row as the earlier has written it.
VisibilityFollowsTrail ==
  \A s \in Students \ mixed : visible[s] = Chosen(s)

\* A student whose last choice was to be anonymous when a report was asked for,
\* and who does not choose otherwise, is not named by it.
HiddenStudentsUnnamed ==
  \A r \in Reports : report[r].pc = "shown" => report[r].names \cap hidden[r] = {}

\* A profile that was returned has its one entry in the audit log, an entry of
\* access has its profile, and a refused request has its violation.
AccessLeavesTrace ==
  \A r \in Reports :
    LET entries(what) == {i \in DOMAIN log : log[i].by = r /\ log[i].what = what} IN
    /\ Cardinality(entries("access")) =
         IF report[r].kind = "profile" /\ report[r].pc = "shown" THEN 1 ELSE 0
    /\ Cardinality(entries("violation")) = IF report[r].pc = "refused" THEN 1 ELSE 0

\* A report is put together from several SELECTs.  It contradicts itself only if
\* what it counts changed while it was under way: a profile does not have more
\* attempts about topics than in all, a heatmap none that its gate has not seen,
\* and a drill-down has the tags of the attempts it counts.  A heatmap that is
\* shown rests on enough students whatever happened.
ReportsAddUp ==
  \A r \in Reports : report[r].pc = "shown" =>
    /\ report[r].kind = "heatmap" =>
         Cardinality(enrolled) >= MinStudents /\ report[r].a >= MinAttempts
    /\ r \notin moved =>
         CASE report[r].kind = "profile"   -> report[r].a <= report[r].b
           [] report[r].kind = "heatmap"   -> report[r].b <= report[r].a
           [] report[r].kind = "drilldown" -> report[r].b = report[r].a
           [] OTHER -> TRUE

=============================================================================
