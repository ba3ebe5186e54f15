# ATLAS phd: a verification development

TLA+ models of the backend of ATLAS phd (a study assistant for doctoral
candidates: question answering over the materials of a department, self-check
tests, and the administration of both), their model checking with TLC and
machine-checked proofs with TLAPS. The code is `src/src/atlas` (FastAPI and
SQLAlchemy over PostgreSQL, one uvicorn process), `src/alembic/versions` (schema
and triggers) and `src/eval` (the offline evaluation). Paths below are relative to
the root of the repository.

## 1. The system

| Component | State | Operations | What is hard | Correct when |
|---|---|---|---|---|
| Ingestion (`api/routers/admin.py`, `ingestion/pipeline.py`, `api/startup.py`) | `ingestion_jobs`, `documents`, `chunks`, the corpus directory | upload, background task per upload, delete, reset at start | tasks of several uploads interleave at every `await`; several commits per file; crashes | no content twice; the job row tells what was indexed; jobs end; chunks hold the text whole |
| Tenants, scoping and status (`core/deps.py`, `db/tenant_helpers.py`, `api/routers/tenants.py`) | `tenants`, the cached default tenant | every handler finds its tenant; create, status, gate | a score of handlers with three ways to choose the tenant; the status is checked at the start of a handler only | nobody reaches rows of another tenant; no writes in a locked tenant |
| Self-check (`orchestrator/selfcheck_flow.py`, `api/routers/selfcheck.py`, `selfcheck/`) | `selfcheck_attempts` | start, submit, history, detail | the evaluator is awaited for seconds between two commits; double submits; what the model returns | what a completed attempt shows was evaluated from its answers; choices are graded by key |
| Programs and coverage (`api/routers/tenants.py`, `programs/parser.py`, migration `0008`) | `programs`, `program_topics`, `material_topics`, `chunk_topics`, the counter `coverage_chunks` | program upload, topic attachment, triggers | read-then-write handlers, triggers at READ COMMITTED, cascades | one active program; the counter counts chunks of active materials |
| Invites (`api/routers/invites.py`) | `invite_codes`, `users` | issue, redeem | check-then-act on an unlocked row | an invite makes one user, an email one account |
| Sessions (`api/routers/auth.py`, `me.py`, `core/deps.py`) | `users.jwt_version` | login, revoke | absolute write of a counter that was read earlier | a revoked token never passes |
| Rate limits (`core/rate_limit.py`) | deques in memory | login attempt and its reset, LLM quota | window boundaries, loss in a restart | never more than the limit in a window |
| Q&A (`orchestrator/qa_flow.py`, `qa/`, `llm/client.py`) | none; the corpus is read | retrieve, widen, answer, verify, regenerate, refuse | a second search, a second draft, exceptions, retries | nothing is sent without evidence and citations |
| Chat (`api/routers/chat.py`, `qa/planner.py`) | `chat_sessions.history` | message, list, delete, self-check from a chat | the history is read before and written after the model is awaited | an exchange is lost only to a rival; a deleted chat stays deleted |
| Retriever (`retriever/retriever.py`) | none | hybrid search, fall-back, deduplication, gate | cut before and filters after; a rollback in the caller's session | only active chunks; the gate judges the candidates that are handed on, and the prompt (`qa/answer.py`), which takes the first few, passes one over only for a reason |
| Supervisor analytics (`api/routers/supervisor.py`, `me.py`, `db/audit.py`) | `users.supervisor_visibility`, `audit_log` | visibility, list, profile, heatmap, drill-down | every report is several SELECTs; clicks overlap | no names without consent, every look leaves a trace |
| Evaluation (`src/eval`, `api/routers/eval.py`) | files of a run | run, score, break-down by topic | empty, single and failing runs; replies that are neither a success nor an error, entries without a topic | the numbers of the scripts add up to the run, but for lines that can be named |

The components interact through the database and through awaited calls: the
chat handler calls the Q&A flow and starts self-checks, both of which call the
retriever, which reads the documents that ingestion writes and deletion removes;
the full-programme self-check reads the coverage counters; write handlers ask
`assert_tenant_writable` first; supervisors read the attempts that self-checks
write and the programs that administrators replace.

## 2. Modules

| Module | What it is |
|---|---|
| `Ingestion`, `IngestionProofs`, `MCIngestion` | uploads, background tasks, deletion, tenant status, crash and restart |
| `SelfCheck`, `SelfCheckProofs`, `MCSelfCheck` | attempts and concurrent submits |
| `Coverage`, `CoverageProofs`, `MCCoverage` | programs, topics of materials, triggers and counters |
| `Invites`, `AccessProofs`, `MCInvites` | invites and concurrent redeems |
| `Sessions`, `AccessProofs`, `MCAccess` | logins, revocations and `jwt_version` |
| `RateLimit`, `RateLimitProofs`, `MCRateLimit` | sliding windows over a clock, and restarts |
| `EvidenceGate` | what the question answering promises: an abstract specification |
| `QAFlow` | the flow with its searches, drafts and retries; implements `EvidenceGate` |
| `Chat`, `ChatProofs`, `MCChat` | extends `QAFlow` by the chats: planning, self-checks, the history, deletion, restart |
| `Supervision`, `SupervisionProofs`, `MCSupervision` | the visibility choice against every report, and the audit log |
| `Access` | the tenant of a request and the handlers confined to it, each as one step |
| `Service`, `AccessProofs`, `MCAccess` | `Access` over time: request after request, rows stored in between, restarts |
| `Chunker` | pages to chunks |
| `Retrieval` | rankings, fusion, deduplication, gate and lexical path, the part of them that the prompt takes |
| `Quiz` | composition of tests, grading, history and its filters |
| `ProgramText` | the parser of `program.md` |
| `EvalMetrics` | outcomes, metrics and their break-down |
| `Algorithms`, `AlgorithmsProofs` | the five modules before it as one specification: a task, and a result of its computation |
| `MCAlgorithms` | `Algorithms` on all inputs of a bounded size |

In the modules of state machines a handler is a process with a program counter
(`pc`, `stage`), and one action is the code between two points where others can
run: an `await` of the database, of a service or of a thread. The database's rows
are variables named after their columns. Definitions headed `Defect:` are never
used by the specifications: they state what a definition would be with a
plausible bug in the code, and each is caught by a property (section 7).

### Ingestion

| Code | Model |
|---|---|
| `create_ingestion_job` | `Admit` (tenant status read), `CreateJob` (row committed), `ReadUploads` or `RefuseUploads` (413) |
| `run_ingestion_job` | `RunJob`, then per file the actions below, then `FinishJob` |
| `process_file` | `RejectUnsupported`, `RejectDuplicate` or `AcceptFile` (SHA-256 lookup), `Prepare` or `RejectBlank` (extract, chunk, embed), `FailFile` (the `except` branch), `WriteRaw`, `IndexDocument` or `IndexFails`, `ReportFile` |
| `delete_document` | `FindDocument`, `DeleteDocument` |
| `update_tenant_status` | `SetTenantStatus` |
| `reset_stale_jobs` in `lifespan` | `Restart`, after `Crash` |

`accepted` and `rejected` hold positions of the upload, so that "every file has
a verdict" can be said; contents are their SHA-256; names are those
`safe_filename` returns, so two uploads can share one. A file has a kind: it
yields text, nothing, is unsupported (or empty), or yields text PostgreSQL
refuses (a NUL character, which JSONL can carry). A write of a raw file that
fails is taken to leave the old file alone.
The branch `IndexFails` is the one to read: the `IntegrityError` of the INSERT is
caught in `process_file` without a rollback, so that the next `db.commit()` in
`run_ingestion_job` raises `PendingRollbackError` and the task ends with its job
`running`.

### SelfCheck

`SaveAttempt` is `_save_attempt`; a submit is `ReceiveSubmit` (tenant check),
`LoadAttempt` (SELECT with tenant and owner filters), `StoreAnswers` (first
commit), then `EvaluateAnswers` or `RejectEvaluation` (second commit), and
`Respond`, which reads the row once more. `SetStatus` models a detail of
SQLAlchemy that matters when submits overlap: a session writes a column only if
the value differs from the one it loaded. An answer set and an evaluation are
identified with the request that made them.

### Coverage

An attach request resolves the material and the topics of the active program
(`ResolveTopics`), reads the current topics and computes the difference
(`ReadCurrent`), writes (`WriteTopics`: the triggers fire, their effect on the
counters is kept in `delta`) and commits (`CommitTopics`). A change of
`documents.status` (an operator's SQL; no endpoint writes that column) has the
same two steps, since what its trigger counts does not include what an open
transaction wrote. `DeleteDocument` is one transaction that waits for those.
`chunk_topics` is not a variable: its triggers keep it equal to the topics of
the chunk's document. All rows are those of one tenant, to which every query
confines itself.

### Invites and Sessions

`redeem_invite` is `LoadInvite`, `CheckTenant`, `CheckEmail` and `Register`, each
ending at an `await` of the database and none taking a lock before the last; its
transaction is atomic, and `UniqueEmail` is the constraint of `users.email`. A
user is named by the redeem that made it. A handler of `Sessions` reads the row
(`ReadUser` in `login`, `Authenticate` in `get_current_user`) and uses what it
read later (`IssueToken`, `RevokeSessions`): SQLAlchemy writes the sum computed in
Python, where the runbooks' SQL (`BumpVersion`) adds in the database. The two
modules meet where a new user gets version 1 and a token: `Init` of `Sessions`.

### RateLimit

`Attempt` is `check_login_attempt` or `check_llm_quota`, which hold the lock
throughout: `Expires` (the `popleft` loop), then `Admit` or `Refuse` (429 with
`RetryAfter`). A login charges the buckets of (ip, email) and of ip; `Succeed`
is `reset_login_attempts`, a step later, since the password is verified in
between. The clock is a float and Retry-After a whole number of seconds, hence
ticks, several to a second. `granted`, `since`, `forgiven` and `promise` are
history.

### EvidenceGate, QAFlow and Chat

| Code | Model |
|---|---|
| `run_qa_flow` | `Search`, `Widen` (second search over twice the chunks), `Draft` (`generate_answer` and `verify`, at most twice), `Raise` |
| `LLMClient.chat` with its `@retry` | `TryAgain`, up to `Attempts - 1` times |
| `chat_message` | `Receive` (`_load_session`), `Plan`, then a clarification, `Quiz` / `QuizFails` or the flow (`Answer`), then `Write`, `WriteNew`, `WriteStale`, `WriteExpired` |
| `/qa/message` | target `Direct`, `ReplyDirect` |
| deletion of a chat, restart | `DeleteSession`, `Restart` |

`EvidenceGate` knows only what was found, how many drafts were judged, and the
verdict; a request without the gate (the baseline of the A/B comparison) needs
something found and takes the first draft. The refinement mapping is at the end
of `QAFlow`: `Gate == INSTANCE EvidenceGate WITH ...`, and `GateKept ==
Gate!GateSpec`. A search may have rolled the caller's session back (`expired`):
that is the fall-back after a failed hybrid search, and what `WriteExpired` is
about. A search that raises may leave it rolled back, aborted or untouched
(`Raise`). Left out of `Chat`: the context that is sent to the model, the quota
(`RateLimit`), and tenants that become read-only (`Ingestion`, `SelfCheck`).

### Supervision

A click is `LoadUser`, `CheckTenant`, `SaveVisibility` (row and audit entry in one
transaction; the UPDATE names the column only if it differs from what was
loaded) or `LoseClick`. Every SELECT of a report is a step: `ListStudents`;
`LoadStudent`, `ReadTopics`, `ServeProfile`; `CountStudents`, `CountAttempts`,
`FindProgram`, `ReadRows`; `FindTopic`, `CountTopic`, `ReadTags`. Between them
students register, attempts end or are reopened, programs are replaced.
`hidden[r]` holds the students that report `r` may not name: those whose last
audited choice, when it was asked for, was to be anonymous, and who have not
chosen otherwise since.

### Access

`Access` is not a state machine: `Handle(w, r)` is the answer to request `r` in
world `w`, and the world after it. `Context` is `get_tenant_context`, `InContext`
and `InPath` the two ways a handler finds its tenant, and each handler is one
definition. Requests that overlap are the matter of the modules above.

`Service` has one variable, the `world`. `Answer` is a request, of any user, with
any header or path, answered in the world that the earlier ones have left;
`Store` is a row that comes from a handler of another module (a job, a document, a
program, a registration, a chat); `RestartProcess` empties the cached default
tenant, a global of the process. `AccessHolds` asks in every world reached that
every request that could come next keeps to its tenant, its owner and its rights
(`AccessKept` of `Access`); `TrailAccounts` that the audit trail explains the
state: which tenants were created, every status, gate and score that is not the
first one, every invite by its issuer, and no act of a tenant's administrator
elsewhere.

### The algorithms

`Chunker`, `Retrieval`, `Quiz`, `ProgramText` and `EvalMetrics` are operators
named after the functions of the code, each ended by a predicate (`ChunksSound`,
`ResultSound`, `TestSound`, `GradeSound`, `FacetsSound`, `ParseSound`,
`SummarySound`) that says what its callers rely on, of input and result as
wholes. Where PostgreSQL may return ties in any order, an operator yields the set
of possible results. A character is its page, its place on the page and whether it
ends a sentence, a line of `program.md` the rule it meets, a similarity a grade (0 for
none, or a negative cosine), a score whether it is 3 or more.

The gate counts the good chunks among all `top_k` candidates, and the prompt takes
the first `retriever_max_chunks_in_prompt` of them (`Prompt`). After the fusion they
stand in the order of their RRF scores, not of their similarity: a good candidate
may stand behind the cut, and the verdict is not one about the prompt. What
`ResultSound` says of the prompt is what may be preferred to a candidate that it
does not hold: one that is at least as similar, or one that the text index has found by its
words. After a search by vectors alone the prompt thus has the most similar ones. After
the lexical path it begins with the matches, as many as `_LEXICAL_CANDIDATES` and
the prompt have room for.

The line of a call (`Line`) need not be a success or an error. `call_qa` takes a
reply that is not JSON for one without a status (`blank`), follows no redirection
and takes none for an error (`redirect`); `call_self_check` has `raise_for_status`,
so that a redirection fails, and a reply that is not JSON ends the run (`garbled`,
as a broken JSON does in `call_qa`). The runner, the latency, the script and the
dashboard each have a notion of an error of their own, and the script files an
entry without a topic under `(unmapped)` where the dashboard skips it.
`SummarySound` says by which lines exactly their numbers differ.

In `Algorithms` a behaviour takes one of the inputs `Tasks` and computes one of the
results the code can come to; `TasksAssumption` says which inputs occur:

| Input | Assumed | Because |
|---|---|---|
| pages | each its own characters in order, without white space at its ends | `normalize` strips; extraction yields a page as one text |
| | no white space as long as a chunk | said of the documents: `normalize` squeezes spaces and line ends each on their own, so lines of one space each would pass it |
| corpus | finitely many rows with numbers | columns of `chunks` |
| topics of a test | at least one, and a question to ask | `selfcheck_flow.py` takes this path only for topics with material |
| questions | ids of their own | `_renumber` |
| history | no topic is called `program` or `custom` | topic ids are UUIDs |
| lines of `program.md` | a section has a name | the pattern of its heading asks for one |
| evaluation | at least one entry, known types, outcomes of these types | `run` and `run_entry` of the runner |
| | a refusal has no topic | `RefusalEntry` has no such field |
| | script and dashboard get the golden set of the run | their argument `--set` and `EVAL_GOLDEN_SET` |
| thresholds | grades from 0 | the API and the settings take numbers of at least 0 |

## 3. Model checking

| Run | Checks | Result |
|---|---|---|
| `ingestion` | `UniqueContent`, `ReportMatchesIndex`, `CompletedIsTotal`, `DuplicateWasIndexed`, `RawFileOnDisk`, `DeadOnlyByClash`, `FinalIsFinal`, `RunningSettles` | hold, 530 000 states |
| `ingestion_stuck` | `StartedJobSettles` | violated |
| `selfcheck` | `CompletedWasEvaluated`, `SerialSubmitsAgree`, `ResponseOfOneSubmit`, `AnswersGetVerdict` | hold, 58 000 states |
| `coverage` | `TypeOK`, `OneActiveProgram`, `CoverageExplained`, `ProgramNeverLost`, `SerialAttachSets` | hold, 1 070 000 states up to symmetry |
| `coverage_leak` | `CoverageExact` | violated |
| `invites` | `InviteNamesItsUser`, `OneAccountPerEmail`, `ReuseOnlyByOverlap` | hold, 16 000 states up to symmetry |
| `ratelimit` | `Throttled`, `ForgivenOnce`, `RetryAfterHonest` | hold, 1 680 000 states |
| `chat` | `GateKept` (the refinement), `DeletedStaysDeleted`, `MessageSettles`, `LostOnlyByOverlap`, `ShownAttemptExists` | hold, 307 000 states |
| `chat_fallback` | `FallbackServes` | violated |
| `supervision` | `VisibilityFollowsTrail`, `HiddenStudentsUnnamed`, `AccessLeavesTrace`, `ReportsAddUp` | hold, 3 800 000 states up to symmetry |
| `access` | `AccessHolds`, `TrailAccounts`, `RevokedStayDead` | hold, 57 000 states up to symmetry |
| `algorithms` | `ChunkingSound`, `RetrievalSound`, `QuizSound`, `ProgramSound`, `MetricsSound` | hold, 201 000 states |

**Bounds.**

* Ingestion: two uploads of two files each (the race needs two tasks; a third
  adds none that two do not show), contents and names shared within an upload,
  across uploads and across tenants, every kind of file, one crash (`MaxCrashes`)
  at any point.
* Self-check: two attempts and three submits, so that an attempt can see an
  evaluated submit, then two that overlap; one of the submits is of a super-admin,
  who sees one attempt only; one crash.
* Coverage: two programs (of two topics and of one), two documents of one and two
  chunks (unlike sizes, so that a wrong weight shows), two attach requests, two
  status changes.
* Invites: three redeems over two invites and two emails, so that two overlap and
  a third comes at any other time.
* Sessions: three revocations and a login beside the token of the registration
  (two overlap with the login and a whole third one in between), and operators
  raising the version up to 3 (`MaxVersion`). `Sessions` and `Service` have no
  variable in common and share the run `access`, each while the other is at its
  start.
* Rate limits: an email, an address and a user with limits of 1, 2 and 1 in 3, 3
  and 4 ticks of half a second; six ticks (`MaxNow`) fill, empty and fill every
  bucket again; one restart; `MaxGranted` 5 is more than the limit of the address
  admits in that time without a restart, and more than twice that limit.
* Chat: two messages, one with and one without the gate, over a chat that exists
  and two that may be begun; calls that fail once and are tried once more
  (`Attempts` 2; the code has 5, and every further attempt is the same step).
* Supervision: two students, one of whom registers later, two clicks, one report
  of any kind (reports do not write what others read), at most one program, one
  attempt per student and version, thresholds of 2 students and 1 attempt.
* Algorithms: documents of two pages of up to two sentences each shorter than,
  as long as and longer than a chunk of 6 with an overlap of 3, the last of which
  may go on over the end of its page; corpora of up to
  four chunks of two documents, with `TopK` 3 so that lists are cut and
  `PromptMax` 2 so that the prompt drops candidates, gates that ask for much and for nothing; tests of up to
  four topics and seven questions in calls of three; gradings of two questions
  with answers and results missing or doubled; histories of three attempts;
  `program.md` of four lines after every front matter; evaluations of one and two
  entries of two topics and none, with every outcome of a call.
* Service: two slugs, one of which has no tenant at first, so that it can be
  unknown, be created and be foreign; a user of every role, one of them of the
  tenant that comes later; two ids for the rows of every kind; one value for gates
  and scores; at most two rows at a time (`MaxRows`) and two entries of the trail
  (`MaxTrail`: a tenant is created and then ruled, or two acts in one tenant). What
  a request may do depends on one tenant, one row and one user at a time, and the
  theorems have no bounds.

Requests are finite in `Coverage`, `Sessions` (hence in the run `access`),
`RateLimit` and `Chat`, which may therefore stop; a task of `MCAlgorithms` ends with
its result. The other runs never stop (a tenant's status can always be switched)
and are checked for deadlock.

**Fairness.** `Ingestion`, `SelfCheck` and `Chat` assume weak fairness of each
background task and of each handler that has begun: the event loop resumes a
coroutine whose await is over, and every await ends (HTTP calls have timeouts and
the retries of the LLM client are bounded). Weak fairness of `Restart` in
`Ingestion` stands for the operators who restart a process that died
(`docs/pilot/incident-runbook.md`, "docker compose restart app"). Clients are not
assumed to do anything. The other modules state no liveness property and no
fairness.

**What the violations show.**

* `StartedJobSettles` (`docs/technical_specification.md`, 7.3: every upload has a
  final status): two uploads of the same content pass the SHA-256 lookup, the
  slower INSERT fails, and its job is `running` until the next restart.
  `DeadOnlyByClash` shows that this and unstorable text are the only causes, and
  `RunningSettles` that every other job ends, through crashes too.
* `CoverageExact` (`docs/roadmap.md`, M4.5.D): deleting an attached document
  leaves its chunks in the counter. `CoverageExplained` gives the exact error.
* `FallbackServes` (comment at `retriever.py:326`): the fall-back of a failed
  hybrid search rolls back the session of the chat handler, whose objects are
  expired by it; the question has its reply and the message still ends in an error.

**Departures from the documents that have no run of their own.** The models
reach each of them, and the properties that hold are stated around them:

* a task admitted before a tenant became read-only goes on indexing
  (`tenants.py:148`, `docs/roadmap.md:351`); reached in `Ingestion`;
* a second submit of an evaluated attempt is accepted
  (`docs/specs/agent-orchestrator.md:302`); `SelfCheck`, `Reopen` of `Supervision`;
* two redeems of one invite that overlap both succeed
  (`docs/bdd-scenarios.md:361`, `invites.py:179`); `ReuseOnlyByOverlap`;
* of two overlapping revocations the second writes the version the first wrote,
  so that a token issued in between survives (`me.py:8`); `RevokedStayDead`;
* the drill-down has no population gate (`docs/bdd-scenarios.md:479`), and the
  heatmap's counts registered students, not participants; `ReportsAddUp`;
* `_deduplicate` says "Keeps the higher-scoring one" and keeps the one that is
  first in the list, and only drops a successor (`Deduplicate`);
* the head of `llm/client.py` says "max 2 retries", the decorator stops after the
  fifth attempt (`Attempts`);
* the errors by topic of the dashboard count self-checks that went well, blank
  replies and redirections, and entries without a topic are left out, where the
  docstring at `api/routers/eval.py:75` promises the numbers of the script
  (`DashboardTopics`, `Silent`);
* the runner and the latency count a redirection of `/qa/message` as an error, the
  script does not (`Strayed`); the script counts an answer that says `error`, which
  the other two count as a success;
* the gate is passed by candidates that the prompt need not hold (`answer.py:44`,
  `core/config.py:48`): the fusion may rank them behind its cut, and the answer is
  then written, and its citations are listed, without them (`Prompt`);
* tests on one topic that are made by one call keep the ids the model gave, so
  that questions with one id share their grade (`GradeSound` asks for ids of
  their own);
* a default tenant found before the pilot tenant existed stays cached until a
  restart, while `GET /me` names `settings.pilot_tenant_slug` (`me.py:101`);
  `DefaultTenant`;
* the tail of a chunk alone may become the next one, which then bears the number of
  the next page (`pipeline.py:235`), where `pipeline.py:193` says that a chunk has
  the number of the page it started from: in `ChunksSound` its page is that of the
  first character no earlier chunk holds. An earlier form of the property, that a
  chunk has text of its page, held only as long as every page ended with a sentence;
* a chat can be deleted in a read-only tenant, and handlers that take the slug
  from their path ignore `X-Atlas-Tenant`; `Locked` and `Isolated` of `Access`.

## 4. Proofs

Each theorem holds for every value of the constants that meets the named
assumptions of its module.

| Module | Theorem | Statement |
|---|---|---|
| `IngestionProofs` | `TypeCorrect`, `ContentIsUnique`, `ReportIsFaithful`, `CompletedJobsAreTotal` | `Spec => []P` for `TypeOK`, `UniqueContent`, `ReportMatchesIndex`, `CompletedIsTotal` |
| | `RawFilesStay`, `DuplicatesWereIndexed`, `EarlyEndsExplained` | `Spec => []P` for `RawFileOnDisk`, `DuplicateWasIndexed`, `DeadOnlyByClash` |
| | `FinalRowsStay` | `Spec => FinalIsFinal` |
| `SelfCheckProofs` | `TypeCorrect`, `CompletedIsEvaluated`, `RowTellsOfOneSubmit`, `ResponsesAreWhole` | `Spec => []P` for `TypeOK`, `CompletedWasEvaluated`, `SerialSubmitsAgree`, `ResponseOfOneSubmit` |
| `CoverageProofs` | `TypeCorrect`, `OneProgram` | `Spec => []P` for `TypeOK`, `OneActiveProgram` |
| | `ProgramKept`, `AttachSets` | `Spec => ProgramNeverLost`, `Spec => SerialAttachSets` |
| | `CountersExplained` | `Spec => []CoverageExplained` |
| `RateLimitProofs` | `WindowsThrottled`, `ForgettingIsBounded`, `RetryAfterKept` | `Spec => []P` for `Throttled` (with `TypeOK`), `ForgivenOnce`, `RetryAfterHonest` |
| `ChatProofs` | `FlowKeepsGate`, `ChatKeepsGate` | `QASpec => GateKept`, `Spec => GateKept`: the refinement |
| | `TypeCorrect`, `ExchangesLost`, `ShownAttempts`, `DeletedForGood` | `Spec => []P` for `TypeOK`, `LostOnlyByOverlap`, `ShownAttemptExists`; `Spec => DeletedStaysDeleted` |
| `SupervisionProofs` | `TypeCorrect`, `VisibilityFollows`, `HiddenStayUnnamed`, `TraceIsExact`, `ReportsAgree` | `Spec => []P` for `TypeOK`, `VisibilityFollowsTrail`, `HiddenStudentsUnnamed`, `AccessLeavesTrace`, `ReportsAddUp` |
| `AccessProofs` | `EveryHandlerKeeps` | `AccessKept` of every handler in every coherent world |
| | `WorldStaysWhole`, `AccessAlwaysHolds`, `TrailAlwaysAccounts` | `ServiceSpec => []P` for `WorldTypeOK`, `AccessHolds`, `TrailAccounts` |
| | `TypeCorrect`, `RevocationHolds` | `Spec => []TypeOK`, `Spec => RevokedStayDead`, of `Sessions` |
| | `InvitesTypeCorrect`, `InvitesAreSpent`, `EmailsAreUnique`, `ReuseNeedsOverlap` | `[]P` for the types, `InviteNamesItsUser`, `OneAccountPerEmail`, `ReuseOnlyByOverlap`, of `Invites` |
| `AlgorithmsProofs` | `AlgorithmsInvariance` | `AlgorithmsSpec => []AlgorithmsInv`: a result is one of its task's computation |
| | `ChunkingIsSound`, `RetrievalIsSound`, `QuizIsSound`, `ProgramIsSound`, `MetricsIsSound` | `AlgorithmsSpec => []P` for `ChunkingSound`, `RetrievalSound`, `QuizSound`, `ProgramSound`, `MetricsSound` |

The type invariants of `Ingestion`, `SelfCheck`, `Invites`, `Sessions`, `Service`,
`RateLimit`, `Chat` and `Supervision` are proved and therefore not in a run.

**Ingestion.** `UniqueContent` is inductive by itself given types: only
`IndexDocument` adds a document, and only if its content is not indexed.
`ReportMatchesIndex` and `CompletedIsTotal` are not inductive: a step that reports
a file must know that exactly the earlier files have been reported, and the step
that finishes a job that all of them have. The invariant is

    IInv == TypeOK /\ CursorInv /\ StatusInv /\ ReportInv

`CursorInv` bounds the position by the length of the upload and says when it is
past the end; `StatusInv` ties the status of the row to the program counter
(a task that works has a running job; a job with a final status has no task);
`ReportInv` says that at every point of the task the reported positions are
exactly those before the cursor, and that the only document without an entry is
the one at the cursor, when the program counter is at `report` or the task was
lost there. The proof has one step per action: most of them leave a job's
part of the state alone (lemma `Frame`), and the ones that extend the report go
through lemma `Extend`. `RawFileOnDisk`, `DuplicateWasIndexed` and
`DeadOnlyByClash` rest on what only grows, the documents ever made and the names
in the corpus directory (lemma `Growth`); `CauseInv` adds that a task about to
index has written its raw file (`RawWritten`), and that a task past its check has
no document of its own with the content at hand (`OthersOnly`), so that whatever
makes its `INSERT` fail is another upload's.

**SelfCheck.** `CompletedWasEvaluated` needs `SubmitInv` (what a submit at each
point has loaded and stored) and `RowInv` (whose answers and evaluation a row can
hold). The two properties that except overlaps need `AloneInv`: an attempt whose
submits have not overlapped has one submit under way at most, and its row is as
that submit's session has left it.

**Coverage.** `SingleInv` is inductive, since the partial index lets an upload in
only if it has read every program that is active. `AttachInv` says of an attach
request that met no other that nobody else has the topics of its material in
hand, and that they are still those it has read; a deletion may come between,
and then the material stays gone because of `StatusInv` (who writes the status of
a document holds it).
`CoverageExplained` is about sizes of sets of chunks (`Live` counts pairs of a
document and a place in it), so that adding a document to a topic, or removing it,
changes a counter by its number of chunks (`LiveMore`, `LiveLess`). `LedgerInv`
says that what an open transaction has added to the counters is
exactly what its commit will make of them (`WroteTopics`, `WroteStatus`), that
topics belong to documents that are there, and that of two open transactions on
one document either no row is common to both or the topics are `raced` (`Apart`).
A commit then adds to each counter what it
adds to the active chunks; a deletion adds what it removes to what was left
behind.

**Supervision** (assuming that there are finitely many students, since reports
count them). `VisibilityFollowsTrail` needs that a click under way has still the row
it loaded unless another click of the student overlapped (`ChoiceInv`); the last
entry about a student, `Chosen`, changes only with an entry about that student
(`ChosenAppend`). `HiddenInv` makes of it that a report whose student is hidden has
not been cleared to go on, and has named nobody hidden; `HiddenAreInvisible`
says that, by the first theorem, who has hidden is invisible in the row that a
listing reads. `TraceInv` counts the entries of a report (none before its end,
one after). `CountInv` says that what a report has counted so far it would count
again, unless it has moved. The lemmas `LookTypes`, `LookLogs` and `LookRows` say
of each report's step what it leaves alone.

**Invites** (assuming only that `NoUser`, the NULL of an unused invite, is no
user) **and Sessions** (assuming that
no request is a login and a revocation at once). `ReuseOnlyByOverlap` is about
users; to keep it, a redeem about to register must be known to have overlapped
with every user of its invite (`LateOverlap`), which a redeem about to become a
user passes on to its rivals (`RivalsOverlap`); a redeem that begins finds no user
of its invite because `InviteNamesItsUser` holds. `RevokedStayDead` follows from
`NothingAhead`: no token, and no request under way, holds a version above the
row's, until a revocation writes a stale sum.

**RateLimit.** `Throttled` is about all that was ever admitted; the invariant
ties it to the bucket: it holds the last stamps (`HoldsLast`), and what it has
dropped is older than the window (`DroppedOld`). Then a request admitted with room
in the bucket comes more than a window after the one `Limit` places before.
`ForgivenOnce` is about grants that span forgettings: stamps are in order
(`InOrder`), those since the last emptying are more than a window apart at a
distance of one limit, those before it at the distance that was due then
(`SpacedBefore`), and the two distances add up (`DistancesAdd`). For
`RetryAfterHonest`, a bucket that is full while a client waits is as it was when
the client was sent away, and its oldest stamp leaves the window before the time
promised (`PromiseInv`, `RoundsUp`).

**The gate.** `FlowInv` says that a draft is asked for only with evidence
(`DraftingFounded`) and counts drafts (`DraftsCounted`); under it every step of the
flow is a step of `EvidenceGate` or changes nothing seen there (`StepGate`). In
`Chat` a step is one of the flow, takes a message into it, or leaves it alone
(`ChatSteps`, with `StageInv`). `LostOnlyByOverlap` is inductive: only a write takes
an exchange from a history, and then the writer had not seen it. `ChatInv` carries
`ShownAttemptExists` through what messages hold.

**Access and Service.** `EveryHandlerKeeps` has one lemma per handler, over
`Refusals` and `Readings`, which cover the answers that change nothing; its
hypotheses are `Coherent` (rows and the cached tenant are of tenants that exist)
and `RequestOK` (a role is one of the four, the user's tenant exists or is absent).
The theorems about `Service` show that every world reached meets them. Its
invariant is

    ServiceInv == WorldOK(world) /\ Accounted(world)

where `Accounted` has the parts of `TrailAccounts` and that documents have ids of
their own (`DocumentsApart`, a primary key), without which the score of one would
count as a score of the other, perhaps of another tenant. Lemma `Outcomes` reduces
the twenty handlers to few kinds of outcome (nothing changes but the cache; a
row is removed; an invite, a feedback, a tenant, a setting or a score is written
together with its entry, by somebody entitled to it), and there is one lemma for
each. Assumed is that users differ by their ids and have one of the four roles.

**The algorithms.** Their theorems are about inputs of any length. The library's
induction theorems take an operator, which the provers cannot instantiate; in
their place a set of numbers that has 0 and with every number the next one has
them all (`SetInduction`, from `WFMin`). With it a fold over a list is a
function of the positions (`ListFoldExists`, `ListFoldSteps`), a sum over a finite
set comes out the same in any order (`SumInAnyOrder`) and over a division is the
sum of its parts (`PartsAddUp`), and a list of numbers is sorted by taking
the least that `k` of them do not exceed.

* Retrieval: `DeduplicateKeeps` says by induction over the hits that one is dropped
  only if the one before it in its document was met, and that the rest keep their
  order; `EvidenceHeld` that the thresholds look at what is handed on. For the prompt,
  the shares of the ranks fall strictly (`ShareFalls`: the common denominator is a
  multiple of each, `DenominatorDivided`), so that a hit of the fusion stands before
  a more similar one only if the text index has found it (`HybridRanks`); `LexicalHeld`
  counts the matches at the head of the prompt.
* Quiz: a round of a test asks every topic once (`TopicsBalanced`) and a section as
  often as it has topics left (`SectionsBalanced`); sizes of calls add up
  (`BatchesSum`); the keys of the filter divide the history.
* ProgramText: after `i` lines the reader's state is what `ParseSound` says of
  these lines as a whole (`SoFarNext`, `WrittenNext`): the topics committed, the one
  that is open with the last list of concepts, and an error exactly if
  one of the lines is wrong.
* EvalMetrics: sets of lines divide the run (`TwoParts`, `TopicSum`), those without
  status or error among them; a quantile lies
  between neighbours of the sorted times (`Interpolation`, `CutBounds`); kappa
  is bounded by writing its numerator and denominator as sums of products of the
  counts (`FractionBounds`).
* Chunker: a document is a line of characters, what has been emitted so far an
  initial segment of it, and the text at hand goes on from there, after a tail
  of at most `Overlap` characters of it (`Waiting`). The parts a long
  text is cut into divide it in order (`SplitParts`, from `PiecesPart` and
  `AddFills`), so that the invariant goes from page to page (`AddPageSound`) and from
  part to part (`SendWaiting`), and a text that is longer than white space can
  be has a character (`AddSome`), so that no chunk is empty.

Only model-checked: the liveness properties `RunningSettles`, `AnswersGetVerdict` and
`MessageSettles` (liveness under fairness is out of the prover's reach). The three
properties of the runs that expect a violation are refuted there. Every other
property of a run is a theorem.

## 5. Assumptions and abstractions

* One process serves all requests (`docker/app.Dockerfile` starts one uvicorn
  worker); crashes lose its memory and no committed row. With more workers the
  limits of `RateLimit` would hold per worker.
* The database is reachable but where a model has a lost connection; a
  transaction is atomic; constraints hold at commit.
* `progress_info`, timestamps, and the texts of answers, questions and documents
  are left out. Audit entries are modelled where a property is about them
  (`Supervision`, `Access`, deletions of `Ingestion`).
* `archived` tenants are blocked like `read-only` ones, which stand for both.
* PostgreSQL's search, the embedding service and the language model are choices:
  a search finds anything, a draft cites or does not, a call fails or answers.

## 6. Not modelled, and what remains

Not modelled, and why:

* hashing of passwords and expiry of tokens by time (no interleaving of theirs
  can be told from a login that fails or a token that is refused);
* the LLM judge of faithfulness, the HTTP client and the report files of
  `src/eval`, and the scripts that calibrate thresholds (computations outside of
  the service over files, without state);
* templates and browser code (presentation), settings, logging and HTTP headers
  (no state that changes), shell and seeding scripts (run once, by hand), and the
  migrations other than the triggers and constraints named above.

What could follow: the race of two changes of a tenant's gate
(`tenants.py:237`), where trail and row can disagree; a run of `Chat` with tenants
that become read-only between two steps; chunks of documents with white space
longer than a chunk.

## 7. Mutants

For each property of a passing run, `PROJECT.json` names a definition and a
`Defect:` variant of it; with the variant in its place TLC finds the property
violated. The variants are bugs the code could have had: an exception
swallowed after the commit, a reset of the wrong jobs, a trigger that ignores the
document's status, a Retry-After rounded down, an audit entry committed before its
row, a tenant header believed from whoever sends it, an UPDATE without its WHERE.
