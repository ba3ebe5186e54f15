----------------------------- MODULE Ingestion -----------------------------
(***************************************************************************)
(* The ingestion contour of ATLAS: POST /admin/ingestion-jobs, the         *)
(* background task that indexes the uploaded files one by one, DELETE      *)
(* /admin/documents/{id}, the switch of a tenant's status, and a crash and *)
(* restart of the (single) application process.                            *)
(*                                                                         *)
(* Every handler is cut at its awaits: what it reads from the database in  *)
(* one step may have changed when it writes in a later one.  The rows of   *)
(* the database (status, accepted, rejected, docs, deleted, tstatus) and   *)
(* the files of the corpus directory survive a crash; what a task holds in *)
(* memory (pc, pos, doomed) does not.                                      *)
(*                                                                         *)
(* Abstracted: file contents are their SHA-256, chunks and embeddings are  *)
(* written and removed with their document, progress_info is left out, and *)
(* the database itself is assumed to be reachable.                         *)
(***************************************************************************)
EXTENDS Naturals, Sequences

CONSTANTS
  Jobs,        \* the upload requests, each the id of the job row it creates
  Tenants,
  Requests,    \* what a request may carry: [tenant, bySuper, files]
  MaxCrashes   \* bound on crashes of the process

Kinds == {"text",          \* extraction and chunking find text
          "blank",         \* no page or no chunk has text
          "unsupported",   \* unknown format, or a file of length zero
          "unstorable"}    \* text the database refuses (a NUL character)

Reasons == {"UNSUPPORTED_FORMAT", "DUPLICATE", "EMPTY_CONTENT", "PROCESSING_ERROR"}

\* "archived" blocks the same writes as "read-only", which stands for both.
TenantStatus == {"active", "read-only"}

Final == {"completed", "completed_with_errors", "failed"}

ASSUME RequestsAssumption ==
  \A r \in Requests :
     /\ r.tenant \in Tenants
     /\ r.bySuper \in BOOLEAN
     /\ r.files \in Seq([name : STRING, sha : STRING, kind : Kinds])
     /\ r.files # <<>>

ASSUME BoundAssumption == MaxCrashes \in Nat

VARIABLES
  upload,     \* the request behind each job; chosen once, never changed
  status,     \* ingestion_jobs.status, "none" while the row does not exist
  accepted,   \* ingestion_jobs.accepted_files, as positions in the upload
  rejected,   \* ingestion_jobs.rejected_files, as [pos, reason]
  pc,         \* where the request handler, then the background task, stands
  pos,        \* position of the file the background task is at
  docs,       \* rows of documents (with their chunks), as <<job, position>>
  deleted,    \* document.delete entries of audit_log
  corpus,     \* raw files in the corpus directory, as [name, sha]
  tstatus,    \* tenants.status
  doomed,     \* documents a DELETE handler has found and not yet removed
  up,         \* the process is running
  crashes

worker   == <<pc, pos>>
rows     == <<status, accepted, rejected>>
index    == <<docs, deleted, corpus, doomed>>
platform == <<upload, tstatus, up, crashes>>
vars     == <<upload, status, accepted, rejected, pc, pos, docs, deleted,
              corpus, tstatus, doomed, up, crashes>>

-----------------------------------------------------------------------------
File(j)      == upload[j].files[pos[j]]
DocFile(d)   == upload[d[1]].files[d[2]]
DocTenant(d) == upload[d[1]].tenant

\* documents.sha256 is UNIQUE over the whole table, whatever the tenant.
Indexed(sha) == \E d \in docs : DocFile(d).sha = sha

\* assert_tenant_writable: a super-admin is never blocked.
Writable(t, super) == super \/ tstatus[t] = "active"

Init ==
  /\ upload \in [Jobs -> Requests]
  /\ status = [j \in Jobs |-> "none"]
  /\ accepted = [j \in Jobs |-> {}]
  /\ rejected = [j \in Jobs |-> {}]
  /\ pc = [j \in Jobs |-> "idle"]
  /\ pos = [j \in Jobs |-> 1]
  /\ docs = {} /\ deleted = {} /\ corpus = {} /\ doomed = {}
  /\ tstatus = [t \in Tenants |-> "active"]
  /\ up = TRUE /\ crashes = 0

-----------------------------------------------------------------------------
(* POST /admin/ingestion-jobs *)

\* The tenant's status is read, and only then the row is inserted.
Admit(j) ==
  /\ up /\ pc[j] = "idle" /\ status[j] = "none"
  /\ Writable(upload[j].tenant, upload[j].bySuper)
  /\ pc' = [pc EXCEPT ![j] = "admitted"]
  /\ UNCHANGED <<pos, rows, index, platform>>

\* The row is committed before the bodies of the uploads are read.
CreateJob(j) ==
  /\ pc[j] = "admitted"
  /\ status' = [status EXCEPT ![j] = "created"]
  /\ pc' = [pc EXCEPT ![j] = "uploading"]
  /\ UNCHANGED <<pos, accepted, rejected, index, platform>>

\* All files are read: the background task is scheduled.
ReadUploads(j) ==
  /\ pc[j] = "uploading"
  /\ pc' = [pc EXCEPT ![j] = "queued"]
  /\ UNCHANGED <<pos, rows, index, platform>>

\* A file or their total is too large: 413, and the row stays "created".
RefuseUploads(j) ==
  /\ pc[j] = "uploading"
  /\ pc' = [pc EXCEPT ![j] = "refused"]
  /\ UNCHANGED <<pos, rows, index, platform>>

-----------------------------------------------------------------------------
(* The background task: run_ingestion_job and process_file *)

RunJob(j) ==
  /\ pc[j] = "queued"
  /\ status' = [status EXCEPT ![j] = "running"]
  /\ accepted' = [accepted EXCEPT ![j] = {}]
  /\ rejected' = [rejected EXCEPT ![j] = {}]
  /\ pc' = [pc EXCEPT ![j] = "accept"]
  /\ UNCHANGED <<pos, index, platform>>

\* Defect: the loop stops one file short.
AdvanceShort(j) ==
  /\ pos' = [pos EXCEPT ![j] = @ + 1]
  /\ pc' = [pc EXCEPT ![j] = IF pos[j] + 1 < Len(upload[j].files) THEN "accept" ELSE "finish"]

\* process_file returned: the entry is added to the job row and committed.
Advance(j) ==
  /\ pos' = [pos EXCEPT ![j] = @ + 1]
  /\ pc' = [pc EXCEPT ![j] = IF pos[j] < Len(upload[j].files) THEN "accept" ELSE "finish"]

Reject(j, why) ==
  /\ rejected' = [rejected EXCEPT ![j] = @ \cup {[pos |-> pos[j], reason |-> why]}]
  /\ Advance(j)
  /\ UNCHANGED <<status, accepted, index, platform>>

RejectUnsupported(j) ==
  /\ pc[j] = "accept" /\ File(j).kind = "unsupported"
  /\ Reject(j, "UNSUPPORTED_FORMAT")

\* Defect: a raw file on disk is taken for an indexed document.
RejectOnDisk(j) ==
  /\ pc[j] = "accept" /\ File(j).kind # "unsupported"
  /\ \E f \in corpus : f.sha = File(j).sha
  /\ Reject(j, "DUPLICATE")

RejectDuplicate(j) ==
  /\ pc[j] = "accept" /\ File(j).kind # "unsupported"
  /\ Indexed(File(j).sha)
  /\ Reject(j, "DUPLICATE")

AcceptFile(j) ==
  /\ pc[j] = "accept" /\ File(j).kind # "unsupported"
  /\ ~ Indexed(File(j).sha)
  /\ pc' = [pc EXCEPT ![j] = "prepare"]
  /\ UNCHANGED <<pos, rows, index, platform>>

\* Defect: the raw file is left to be written after the index.
PrepareNoFile(j) ==
  /\ pc[j] = "prepare" /\ File(j).kind # "blank"
  /\ pc' = [pc EXCEPT ![j] = "index"]
  /\ UNCHANGED <<pos, rows, index, platform>>

\* Extraction in a thread, then one embedding call per batch of chunks.
Prepare(j) ==
  /\ pc[j] = "prepare" /\ File(j).kind # "blank"
  /\ pc' = [pc EXCEPT ![j] = "write"]
  /\ UNCHANGED <<pos, rows, index, platform>>

RejectBlank(j) ==
  /\ pc[j] = "prepare" /\ File(j).kind = "blank"
  /\ Reject(j, "EMPTY_CONTENT")

\* Defect: an exception raised after the commit of the document rejects it.
FailFileLate(j) ==
  /\ pc[j] \in {"prepare", "write", "report"}
  /\ Reject(j, "PROCESSING_ERROR")

\* Defect: the exception is not caught and ends the task.
FailFileUncaught(j) ==
  /\ pc[j] \in {"prepare", "write"}
  /\ pc' = [pc EXCEPT ![j] = "dead"]
  /\ UNCHANGED <<pos, rows, index, platform>>

\* The parser, the embedding service or the disk raised.
FailFile(j) ==
  /\ pc[j] \in {"prepare", "write"}
  /\ Reject(j, "PROCESSING_ERROR")

\* The raw file replaces whatever carries the same name.
WriteRaw(j) ==
  /\ pc[j] = "write"
  /\ corpus' = {f \in corpus : f.name # File(j).name}
                 \cup {[name |-> File(j).name, sha |-> File(j).sha]}
  /\ pc' = [pc EXCEPT ![j] = "index"]
  /\ UNCHANGED <<pos, rows, docs, deleted, doomed, platform>>

\* Defect: no UNIQUE constraint on sha256.
StorableTwice(j) == File(j).kind # "unstorable"

\* The INSERT of index_document passes the UNIQUE constraint on sha256.
Storable(j) == ~ Indexed(File(j).sha) /\ File(j).kind # "unstorable"

\* The document and its chunks are committed, then reported in the job row.
IndexDocument(j) ==
  /\ pc[j] = "index" /\ Storable(j)
  /\ docs' = docs \cup {<<j, pos[j]>>}
  /\ pc' = [pc EXCEPT ![j] = "report"]
  /\ UNCHANGED <<pos, rows, deleted, corpus, doomed, platform>>

ReportFile(j) ==
  /\ pc[j] = "report"
  /\ accepted' = [accepted EXCEPT ![j] = @ \cup {pos[j]}]
  /\ Advance(j)
  /\ UNCHANGED <<status, rejected, index, platform>>

\* The INSERT fails.  The exception is caught and the session is not rolled
\* back, so the commit of the file's entry raises and the task ends there.
IndexFails(j) ==
  /\ pc[j] = "index" /\ ~ Storable(j)
  /\ pc' = [pc EXCEPT ![j] = "dead"]
  /\ UNCHANGED <<pos, rows, index, platform>>

FinalStatus(j) ==
  IF accepted[j] = {} THEN "failed"
  ELSE IF rejected[j] = {} THEN "completed" ELSE "completed_with_errors"

FinishJob(j) ==
  /\ pc[j] = "finish"
  /\ status' = [status EXCEPT ![j] = FinalStatus(j)]
  /\ pc' = [pc EXCEPT ![j] = "done"]
  /\ UNCHANGED <<pos, accepted, rejected, index, platform>>

-----------------------------------------------------------------------------
(* DELETE /admin/documents/{id} *)

FindDocument(d, super) ==
  /\ up
  /\ Writable(DocTenant(d), super)
  /\ doomed' = doomed \cup {d}
  /\ UNCHANGED <<worker, rows, docs, deleted, corpus, platform>>

\* Chunks, document and audit entry in one transaction; the raw file stays.
DeleteDocument(d) ==
  /\ docs' = docs \ {d}
  /\ deleted' = deleted \cup {d}
  /\ doomed' = doomed \ {d}
  /\ UNCHANGED <<worker, rows, corpus, platform>>

-----------------------------------------------------------------------------
\* PATCH /tenants/{slug}/status, by a super-admin.
SetTenantStatus(t, s) ==
  /\ up /\ tstatus[t] # s
  /\ tstatus' = [tstatus EXCEPT ![t] = s]
  /\ UNCHANGED <<upload, up, crashes, worker, rows, index>>

\* The process dies: handlers and tasks are gone, rows and files remain.
Crash ==
  /\ up /\ crashes < MaxCrashes
  /\ up' = FALSE /\ crashes' = crashes + 1
  /\ pc' = [j \in Jobs |-> IF status[j] = "none" THEN "idle" ELSE "lost"]
  /\ pos' = [j \in Jobs |-> 1]
  /\ doomed' = {}
  /\ UNCHANGED <<upload, tstatus, rows, docs, deleted, corpus>>

\* Defects: every job is reset, or the jobs in the wrong status.
StaleAny(j) == status[j] # "none"
StaleCreated(j) == status[j] = "created"

\* reset_stale_jobs, run by the lifespan hook before requests are served.
Stale(j) == status[j] = "running"

Restart ==
  /\ ~ up
  /\ up' = TRUE
  /\ status' = [j \in Jobs |-> IF Stale(j) THEN "failed" ELSE status[j]]
  /\ UNCHANGED <<upload, tstatus, crashes, worker, accepted, rejected, index>>

-----------------------------------------------------------------------------
Request(j) == Admit(j) \/ CreateJob(j) \/ ReadUploads(j) \/ RefuseUploads(j)

Work(j) ==
  \/ RunJob(j)
  \/ RejectUnsupported(j) \/ RejectDuplicate(j) \/ AcceptFile(j)
  \/ Prepare(j) \/ RejectBlank(j) \/ FailFile(j)
  \/ WriteRaw(j) \/ IndexDocument(j) \/ IndexFails(j)
  \/ ReportFile(j) \/ FinishJob(j)

Next ==
  \/ \E j \in Jobs : Request(j) \/ Work(j)
  \/ \E d \in docs, super \in BOOLEAN : FindDocument(d, super)
  \/ \E d \in doomed : DeleteDocument(d)
  \/ \E t \in Tenants, s \in TenantStatus : SetTenantStatus(t, s)
  \/ Crash \/ Restart

Safety == Init /\ [][Next]_vars

\* The event loop resumes every task (each of its awaits returns or times
\* out), and the operators restart a process that died.
Fairness == WF_vars(Restart) /\ \A j \in Jobs : WF_vars(Work(j))

Spec == Safety /\ Fairness

-----------------------------------------------------------------------------
PC == {"idle", "admitted", "uploading", "refused", "queued", "accept", "prepare",
       "write", "index", "report", "finish", "done", "dead", "lost"}

\* Type of every variable.
TypeOK ==
  /\ upload \in [Jobs -> Requests]
  /\ status \in [Jobs -> {"none", "created", "running"} \cup Final]
  /\ accepted \in [Jobs -> SUBSET (Nat \ {0})]
  /\ rejected \in [Jobs -> SUBSET [pos : Nat \ {0}, reason : Reasons]]
  /\ pc \in [Jobs -> PC]
  /\ pos \in [Jobs -> Nat \ {0}]
  /\ docs \subseteq Jobs \X (Nat \ {0})
  /\ deleted \subseteq Jobs \X (Nat \ {0})
  /\ doomed \subseteq Jobs \X (Nat \ {0})
  /\ corpus \subseteq [name : STRING, sha : STRING]
  /\ tstatus \in [Tenants -> TenantStatus]
  /\ up \in BOOLEAN
  /\ crashes \in 0 .. MaxCrashes

Made(j)     == {d \in docs \cup deleted : d[1] = j}
Reported(j) == accepted[j] \cup {r.pos : r \in rejected[j]}

\* ingestion.md, "Idempotency": no content is indexed twice, although each
\* worker looks for the content several awaits before it inserts the document.
UniqueContent ==
  \A d, e \in docs : DocFile(d).sha = DocFile(e).sha => d = e

\* The job row tells what was indexed: an accepted entry has its document, and
\* a document without an entry is that of the one file the job was at when it
\* was last seen (a crash between the two commits leaves it so for good).
ReportMatchesIndex ==
  \A j \in Jobs :
     /\ \A i \in accepted[j] : <<j, i>> \in Made(j)
     /\ \A d \in Made(j) : d[2] \notin accepted[j] =>
           /\ Reported(j) = 1 .. (d[2] - 1)
           /\ status[j] \in {"running", "failed"}

\* A completed job has a verdict on every file of its upload, and the status
\* says whether one of them is a rejection.
CompletedIsTotal ==
  \A j \in Jobs :
     status[j] \in {"completed", "completed_with_errors"} =>
       /\ Reported(j) = DOMAIN upload[j].files
       /\ accepted[j] # {}
       /\ status[j] = "completed" <=> rejected[j] = {}

\* A file is turned away as DUPLICATE only if the content of another file was
\* indexed: not because an earlier attempt failed, nor because its raw bytes
\* were left in the corpus directory.
DuplicateWasIndexed ==
  \A j \in Jobs : \A r \in rejected[j] :
     r.reason = "DUPLICATE" =>
       \E d \in docs \cup deleted :
          d # <<j, r.pos>> /\ DocFile(d).sha = upload[j].files[r.pos].sha

\* file_path of a document always names a file of the corpus directory.
RawFileOnDisk ==
  \A d \in docs : \E f \in corpus : f.name = DocFile(d).name

\* A background task ends early for one cause only: another upload indexed the
\* same content between its check and its insert, or the text is unstorable.
DeadOnlyByClash ==
  \A j \in Jobs : pc[j] = "dead" =>
     \/ File(j).kind = "unstorable"
     \/ \E d \in docs \cup deleted : d[1] # j /\ DocFile(d).sha = File(j).sha

\* No step changes the row of a job that has a final status: neither a task
\* that was still running nor the reset after a restart.
FinalIsFinal ==
  [][\A j \in Jobs : status[j] \in Final =>
       /\ status'[j] = status[j]
       /\ accepted'[j] = accepted[j]
       /\ rejected'[j] = rejected[j]]_vars

\* A job that runs gets a final status, through a crash and restart too,
\* unless its task ended early.
RunningSettles ==
  \A j \in Jobs : status[j] = "running" ~> status[j] \in Final \/ pc[j] = "dead"

\* technical_specification.md 7.3: every batch upload has a final status.  The
\* task whose INSERT fails leaves its job "running" until the next restart.
StartedJobSettles ==
  \A j \in Jobs : status[j] = "running" ~> status[j] \in Final

=============================================================================
