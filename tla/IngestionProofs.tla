-------------------------- MODULE IngestionProofs --------------------------
(***************************************************************************)
(* Safety of the ingestion contour for any number of uploads, of files in  *)
(* an upload, of tenants and of crashes.                                   *)
(***************************************************************************)
EXTENDS Ingestion, TLAPS

LEMMA RequestType ==
  ASSUME NEW r \in Requests
  PROVE  /\ r.tenant \in Tenants
         /\ r.files \in Seq([name : STRING, sha : STRING, kind : Kinds])
         /\ Len(r.files) \in Nat
         /\ Len(r.files) # 0
         /\ DOMAIN r.files = 1 .. Len(r.files)
<1>1. /\ r.tenant \in Tenants
      /\ r.files \in Seq([name : STRING, sha : STRING, kind : Kinds])
      /\ r.files # <<>>
  BY RequestsAssumption
<1>2. QED
  BY <1>1

(***************************************************************************)
(* A worker is at a file of its upload while it has not finished.  The     *)
(* invariant gives the type of the record WriteRaw puts in the corpus.     *)
(***************************************************************************)
AtFile == {"accept", "prepare", "write", "index", "report", "dead"}
Early  == {"idle", "admitted", "uploading", "refused", "queued"}

CursorInv ==
  \A j \in Jobs :
     /\ pc[j] \in AtFile => pos[j] <= Len(upload[j].files)
     /\ pc[j] \in Early => pos[j] = 1
     /\ pc[j] = "finish" => pos[j] = Len(upload[j].files) + 1

LEMMA FileType ==
  ASSUME TypeOK, CursorInv, NEW j \in Jobs, pc[j] \in AtFile
  PROVE  /\ pos[j] \in 1 .. Len(upload[j].files)
         /\ File(j) \in [name : STRING, sha : STRING, kind : Kinds]
<1>1. upload[j] \in Requests /\ pos[j] \in Nat \ {0}
  BY DEF TypeOK
<1>2. /\ upload[j].files \in Seq([name : STRING, sha : STRING, kind : Kinds])
      /\ Len(upload[j].files) \in Nat
  BY <1>1, RequestType
<1>3. pos[j] \in 1 .. Len(upload[j].files)
  BY <1>1, <1>2 DEF CursorInv
<1>4. \A S : \A s \in Seq(S) : \A i \in 1 .. Len(s) : s[i] \in S
  OBVIOUS
<1>5. QED
  BY <1>2, <1>3, <1>4 DEF File

(***************************************************************************)
(* The actions that change nothing but pc, and perhaps a status.           *)
(***************************************************************************)
LEMMA TypeStep ==
  ASSUME TypeOK, CursorInv, [Next]_vars
  PROVE  TypeOK' /\ CursorInv'
<1> USE BoundAssumption
<1>a. \A j \in Jobs : /\ upload[j] \in Requests
                      /\ Len(upload[j].files) \in Nat \ {0}
  BY RequestType DEF TypeOK
<1>1. ASSUME NEW j \in Jobs, Request(j)
      PROVE  TypeOK' /\ CursorInv'
  BY <1>1, <1>a DEF Request, Admit, CreateJob, ReadUploads, RefuseUploads, TypeOK,
     CursorInv, AtFile, Early, PC, rows, index, platform
<1>2. ASSUME NEW j \in Jobs, Work(j)
      PROVE  TypeOK' /\ CursorInv'
  <2>1. CASE RunJob(j)
    BY <2>1, <1>a DEF RunJob, TypeOK, CursorInv, AtFile, Early, PC, index, platform
  <2>2. ASSUME NEW why \in Reasons, Reject(j, why), pc[j] \in AtFile
        PROVE  TypeOK' /\ CursorInv'
    <3>1. pos[j] \in 1 .. Len(upload[j].files)
      BY <2>2, FileType
    <3>2. TypeOK'
      BY <2>2, <1>a, <3>1 DEF Reject, Advance, TypeOK, PC, index, platform
    <3>3. CursorInv'
      BY <2>2, <1>a, <3>1 DEF Reject, Advance, TypeOK, CursorInv, AtFile, Early, index, platform
    <3>4. QED
      BY <3>2, <3>3
  <2>3. CASE RejectUnsupported(j) \/ RejectDuplicate(j) \/ RejectBlank(j) \/ FailFile(j)
    BY <2>2, <2>3 DEF RejectUnsupported, RejectDuplicate, RejectBlank, FailFile, AtFile, Reasons
  <2>4. CASE AcceptFile(j) \/ Prepare(j) \/ IndexFails(j)
    BY <2>4, <1>a DEF AcceptFile, Prepare, IndexFails, TypeOK, CursorInv, AtFile, Early, PC,
       rows, index, platform
  <2>5. CASE WriteRaw(j)
    <3>1. File(j).name \in STRING /\ File(j).sha \in STRING
      BY <2>5, FileType DEF WriteRaw, AtFile
    <3>2. QED
      BY <2>5, <1>a, <3>1 DEF WriteRaw, TypeOK, CursorInv, AtFile, Early, PC, rows, platform
  <2>6. CASE IndexDocument(j)
    BY <2>6, <1>a DEF IndexDocument, TypeOK, CursorInv, AtFile, Early, PC, rows, platform
  <2>7. CASE ReportFile(j)
    <3>1. pos[j] \in 1 .. Len(upload[j].files)
      BY <2>7, FileType DEF ReportFile, AtFile
    <3>2. TypeOK'
      BY <2>7, <1>a, <3>1 DEF ReportFile, Advance, TypeOK, PC, index, platform
    <3>3. CursorInv'
      BY <2>7, <1>a, <3>1 DEF ReportFile, Advance, TypeOK, CursorInv, AtFile, Early,
         index, platform
    <3>4. QED
      BY <3>2, <3>3
  <2>8. CASE FinishJob(j)
    <3>1. FinalStatus(j) \in Final
      BY DEF FinalStatus, Final
    <3>2. QED
      BY <2>8, <1>a, <3>1 DEF FinishJob, TypeOK, CursorInv, AtFile, Early, PC, index, platform
  <2>9. QED
    BY <1>2, <2>1, <2>3, <2>4, <2>5, <2>6, <2>7, <2>8 DEF Work
<1>3. ASSUME NEW d \in docs, NEW super \in BOOLEAN, FindDocument(d, super)
      PROVE  TypeOK' /\ CursorInv'
  BY <1>3 DEF FindDocument, TypeOK, CursorInv, worker, rows, platform
<1>4. ASSUME NEW d \in doomed, DeleteDocument(d)
      PROVE  TypeOK' /\ CursorInv'
  BY <1>4 DEF DeleteDocument, TypeOK, CursorInv, worker, rows, platform
<1>5. ASSUME NEW t \in Tenants, NEW s \in TenantStatus, SetTenantStatus(t, s)
      PROVE  TypeOK' /\ CursorInv'
  BY <1>5 DEF SetTenantStatus, TypeOK, CursorInv, worker, rows, index
<1>6. CASE Crash
  <2>1. \A j \in Jobs : pc'[j] \in {"idle", "lost"} /\ pos'[j] = 1
    BY <1>6 DEF Crash
  <2>a. pc' \in [Jobs -> PC] /\ pos' \in [Jobs -> Nat \ {0}]
    <3>1. \A j \in Jobs : (IF status[j] = "none" THEN "idle" ELSE "lost") \in PC
      BY DEF PC
    <3>2. QED
      BY <1>6, <3>1 DEF Crash
  <2>b. crashes' \in 0 .. MaxCrashes
    BY <1>6 DEF Crash, TypeOK
  <2>2. TypeOK'
    BY <1>6, <2>a, <2>b DEF Crash, TypeOK, rows
  <2>3. CursorInv'
    BY <2>1 DEF CursorInv, AtFile
  <2>4. QED
    BY <2>2, <2>3
<1>7. CASE Restart
  BY <1>7 DEF Restart, TypeOK, CursorInv, Final, worker, index
<1>8. CASE UNCHANGED vars
  BY <1>8 DEF vars, TypeOK, CursorInv
<1>9. QED
  BY <1>1, <1>2, <1>3, <1>4, <1>5, <1>6, <1>7, <1>8 DEF Next

LEMMA TypeInit == Init => TypeOK /\ CursorInv
<1> SUFFICES ASSUME Init PROVE TypeOK /\ CursorInv
  OBVIOUS
<1>1. TypeOK
  BY BoundAssumption DEF Init, TypeOK, PC, TenantStatus
<1>2. CursorInv
  BY DEF Init, CursorInv, AtFile
<1>3. QED
  BY <1>1, <1>2

\* Every variable keeps its type; the worker's cursor stays in its upload.
THEOREM TypeCorrect == Spec => []TypeOK
<1>1. Spec => [](TypeOK /\ CursorInv)
  BY TypeInit, TypeStep, PTL DEF Spec, Safety
<1>2. QED
  BY <1>1, PTL

-----------------------------------------------------------------------------
(***************************************************************************)
(* One document per content: the UNIQUE constraint is met when the         *)
(* document is inserted, whatever happened since the worker looked.        *)
(***************************************************************************)
LEMMA UniqueStep ==
  ASSUME TypeOK, UniqueContent, [Next]_vars
  PROVE  UniqueContent'
<1>1. upload' = upload
  BY DEF Next, Request, Admit, CreateJob, ReadUploads, RefuseUploads, Work, RunJob,
     RejectUnsupported, RejectDuplicate, AcceptFile, Prepare, RejectBlank, FailFile,
     Reject, WriteRaw, IndexDocument, IndexFails, ReportFile, FinishJob, FindDocument,
     DeleteDocument, SetTenantStatus, Crash, Restart, platform, vars
<1>2. CASE docs' \subseteq docs
  BY <1>1, <1>2 DEF UniqueContent, DocFile
<1>3. ASSUME NEW j \in Jobs, IndexDocument(j)
      PROVE  UniqueContent'
  <2>1. docs' = docs \cup {<<j, pos[j]>>} /\ ~ Indexed(File(j).sha)
    BY <1>3 DEF IndexDocument, Storable
  <2>2. DocFile(<<j, pos[j]>>) = File(j)
    BY DEF DocFile, File
  <2>3. \A d \in docs : DocFile(d).sha # DocFile(<<j, pos[j]>>).sha
    BY <2>1, <2>2 DEF Indexed
  <2>4. \A d, e \in docs' : DocFile(d).sha = DocFile(e).sha => d = e
    BY <2>1, <2>3 DEF UniqueContent
  <2>5. QED
    BY <1>1, <2>4 DEF UniqueContent, DocFile
<1>4. (\E j \in Jobs : IndexDocument(j)) \/ docs' \subseteq docs
  BY DEF Next, Request, Admit, CreateJob, ReadUploads, RefuseUploads, Work, RunJob,
     RejectUnsupported, RejectDuplicate, AcceptFile, Prepare, RejectBlank, FailFile,
     Reject, WriteRaw, IndexFails, ReportFile, FinishJob, FindDocument,
     DeleteDocument, SetTenantStatus, Crash, Restart, index, vars
<1>5. QED
  BY <1>2, <1>3, <1>4

\* No content is indexed twice, for any number of concurrent workers.
THEOREM ContentIsUnique == Spec => []UniqueContent
<1>1. Init => UniqueContent
  BY DEF Init, UniqueContent
<1>2. QED
  BY <1>1, UniqueStep, TypeInit, TypeStep, PTL DEF Spec, Safety

-----------------------------------------------------------------------------
(***************************************************************************)
(* The status of a job against the place of its handler or task.           *)
(***************************************************************************)
StatusInv ==
  \A j \in Jobs :
     /\ status[j] = "none" <=> pc[j] \in {"idle", "admitted"}
     /\ pc[j] \in {"uploading", "refused", "queued"} => status[j] = "created"
     /\ pc[j] \in AtFile \cup {"finish"} => status[j] = "running"
     /\ ~ up => pc[j] \in {"idle", "lost"}

(***************************************************************************)
(* What is reported against what is indexed.  While a task lives, the      *)
(* entries are exactly the files before its cursor; only the file between  *)
(* its two commits (pc "report") is indexed and not reported.              *)
(***************************************************************************)
JobReport(j) ==
  /\ pc[j] \in Early => accepted[j] = {} /\ rejected[j] = {} /\ Made(j) = {}
  /\ pc[j] \in AtFile => Reported(j) = 1 .. (pos[j] - 1)
  /\ pc[j] = "finish" => Reported(j) = 1 .. Len(upload[j].files)
  /\ \A i \in accepted[j] : <<j, i>> \in Made(j)
  /\ \A d \in Made(j) : d[2] \notin accepted[j] =>
        \/ pc[j] = "report" /\ d[2] = pos[j]
        \/ pc[j] = "lost" /\ status[j] \in {"running", "failed"}
             /\ Reported(j) = 1 .. (d[2] - 1)
  /\ pc[j] = "report" => <<j, pos[j]>> \in Made(j)

CompletedJob(j) ==
  status[j] \in {"completed", "completed_with_errors"} =>
    /\ Reported(j) = DOMAIN upload[j].files
    /\ accepted[j] # {}
    /\ status[j] = "completed" <=> rejected[j] = {}

ReportInv ==
  /\ doomed \subseteq docs \cup deleted
  /\ \A j \in Jobs : JobReport(j) /\ CompletedJob(j)

IInv == TypeOK /\ CursorInv /\ StatusInv /\ ReportInv

LEMMA StatusStep ==
  ASSUME TypeOK, StatusInv, [Next]_vars
  PROVE  StatusInv'
<1> USE DEF StatusInv, AtFile
<1>1. ASSUME NEW j \in Jobs, Request(j)
      PROVE  StatusInv'
  BY <1>1 DEF Request, Admit, CreateJob, ReadUploads, RefuseUploads, TypeOK, rows, platform
<1>2. ASSUME NEW j \in Jobs, Work(j)
      PROVE  StatusInv'
  <2>1. CASE RunJob(j)
    BY <2>1 DEF RunJob, TypeOK, platform
  <2>2. ASSUME Advance(j), pc[j] \in AtFile, UNCHANGED <<status, up>>
        PROVE  StatusInv'
    <3>1. pc'[j] \in {"accept", "finish"} /\ \A k \in Jobs \ {j} : pc'[k] = pc[k]
      BY <2>2 DEF Advance, TypeOK
    <3>2. QED
      BY <2>2, <3>1
  <2>3. CASE RejectUnsupported(j) \/ RejectDuplicate(j) \/ RejectBlank(j) \/ FailFile(j)
    BY <2>2, <2>3 DEF RejectUnsupported, RejectDuplicate, RejectBlank, FailFile, Reject, platform
  <2>4. CASE ReportFile(j)
    BY <2>2, <2>4 DEF ReportFile, platform
  <2>5. CASE AcceptFile(j) \/ Prepare(j) \/ IndexFails(j) \/ WriteRaw(j) \/ IndexDocument(j)
    BY <2>5 DEF AcceptFile, Prepare, IndexFails, WriteRaw, IndexDocument, TypeOK, rows, platform
  <2>6. CASE FinishJob(j)
    <3>1. FinalStatus(j) \in Final
      BY DEF FinalStatus, Final
    <3>2. FinalStatus(j) # "none"
      BY DEF FinalStatus
    <3>3. QED
      BY <2>6, <3>2 DEF FinishJob, TypeOK, platform
  <2>7. QED
    BY <1>2, <2>1, <2>3, <2>4, <2>5, <2>6 DEF Work
<1>3. CASE Crash
  BY <1>3 DEF Crash, TypeOK, rows
<1>4. CASE Restart
  BY <1>4 DEF Restart, Stale, TypeOK, worker
<1>5. CASE UNCHANGED <<status, pc, up>>
  BY <1>5
<1>6. QED
  BY <1>1, <1>2, <1>3, <1>4, <1>5 DEF Next, FindDocument, DeleteDocument, SetTenantStatus,
     worker, rows, platform, vars

\* The row of a job that has a final status is never written again.
THEOREM FinalRowsStay == Spec => FinalIsFinal
<1>1. Init => StatusInv
  BY DEF Init, StatusInv, AtFile
<1>2. ASSUME TypeOK, StatusInv, [Next]_vars
      PROVE  [\A j \in Jobs : status[j] \in Final =>
                /\ status'[j] = status[j]
                /\ accepted'[j] = accepted[j]
                /\ rejected'[j] = rejected[j]]_vars
  <2> USE DEF StatusInv, AtFile, Final
  <2>1. ASSUME NEW k \in Jobs, Request(k), NEW j \in Jobs, status[j] \in Final
        PROVE  status'[j] = status[j] /\ accepted'[j] = accepted[j] /\ rejected'[j] = rejected[j]
    BY <1>2, <2>1 DEF Request, Admit, CreateJob, ReadUploads, RefuseUploads, TypeOK, rows
  <2>2. ASSUME NEW k \in Jobs, Work(k), NEW j \in Jobs, status[j] \in Final
        PROVE  status'[j] = status[j] /\ accepted'[j] = accepted[j] /\ rejected'[j] = rejected[j]
    <3>1. status[k] \in {"created", "running"} /\ k # j
      BY <1>2, <2>2 DEF Work, RunJob, RejectUnsupported, RejectDuplicate, AcceptFile, Prepare,
         RejectBlank, FailFile, WriteRaw, IndexDocument, IndexFails, ReportFile, FinishJob
    <3>2. QED
      BY <1>2, <2>2, <3>1 DEF Work, RunJob, RejectUnsupported, RejectDuplicate, AcceptFile,
         Prepare, RejectBlank, FailFile, Reject, WriteRaw, IndexDocument, IndexFails,
         ReportFile, FinishJob, rows, TypeOK
  <2>3. CASE Restart
    BY <1>2, <2>3 DEF Restart, Stale, TypeOK
  <2>4. CASE UNCHANGED rows
    BY <2>4 DEF rows
  <2>5. QED
    BY <1>2, <2>1, <2>2, <2>3, <2>4 DEF Next, Crash, FindDocument, DeleteDocument,
       SetTenantStatus
<1>3. QED
  BY <1>1, <1>2, StatusStep, TypeInit, TypeStep, PTL DEF Spec, Safety, FinalIsFinal

-----------------------------------------------------------------------------
\* A job keeps its facts in a step that leaves its row and its task alone.
LEMMA Frame ==
  ASSUME NEW j \in Jobs, JobReport(j), CompletedJob(j),
         UNCHANGED <<upload, status[j], accepted[j], rejected[j], pc[j], pos[j]>>,
         Made(j)' = Made(j)
  PROVE  JobReport(j)' /\ CompletedJob(j)'
<1>1. Reported(j)' = Reported(j)
  BY DEF Reported
<1>2. QED
  BY <1>1 DEF JobReport, CompletedJob

\* The verdict on the file at the cursor extends the reported files by one.
LEMMA Extend ==
  ASSUME IInv, NEW j \in Jobs, pc[j] \in AtFile, Advance(j), upload' = upload,
         status' = status, Made(j)' = Made(j),
         Reported(j)' = Reported(j) \cup {pos[j]},
         \A i \in accepted'[j] : <<j, i>> \in Made(j),
         \A d \in Made(j) : d[2] \in accepted'[j]
  PROVE  JobReport(j)' /\ CompletedJob(j)'
<1>1. pos[j] \in 1 .. Len(upload[j].files) /\ Len(upload[j].files) \in Nat
  BY FileType, RequestType DEF IInv, TypeOK
<1>2. Reported(j)' = 1 .. pos[j]
  <2>1. Reported(j) = 1 .. (pos[j] - 1)
    BY DEF IInv, ReportInv, JobReport
  <2>2. (1 .. (pos[j] - 1)) \cup {pos[j]} = 1 .. pos[j]
    BY <1>1
  <2>3. QED
    BY <2>1, <2>2
<1>3. /\ pos'[j] = pos[j] + 1
      /\ pc'[j] \in {"accept", "finish"}
      /\ pc'[j] = "finish" => pos[j] = Len(upload[j].files)
  BY <1>1 DEF IInv, TypeOK, Advance
<1>4. JobReport(j)'
  BY <1>1, <1>2, <1>3 DEF JobReport, Early, AtFile
<1>5. CompletedJob(j)'
  BY DEF CompletedJob, IInv, StatusInv
<1>6. QED
  BY <1>4, <1>5

LEMMA ReportStep ==
  ASSUME IInv, [Next]_vars
  PROVE  ReportInv'
<1> USE DEF IInv, ReportInv
<1>1. ASSUME NEW j \in Jobs, Request(j)
      PROVE  ReportInv'
  <2>1. UNCHANGED <<upload, accepted, rejected, pos, docs, deleted, doomed>>
    BY <1>1 DEF Request, Admit, CreateJob, ReadUploads, RefuseUploads, rows, index, platform
  <2>2. \A k \in Jobs : Made(k)' = Made(k) /\ Reported(k)' = Reported(k)
    BY <2>1 DEF Made, Reported
  <2>3. \A k \in Jobs \ {j} : status'[k] = status[k] /\ pc'[k] = pc[k]
    BY <1>1 DEF Request, Admit, CreateJob, ReadUploads, RefuseUploads, rows, TypeOK
  <2>4. \A k \in Jobs \ {j} : JobReport(k)' /\ CompletedJob(k)'
    BY <2>1, <2>2, <2>3, Frame
  <2>5. pc[j] \in Early /\ pc'[j] \in Early /\ status'[j] \in {"none", "created"}
    BY <1>1 DEF Request, Admit, CreateJob, ReadUploads, RefuseUploads, rows, TypeOK, Early, StatusInv
  <2>6. JobReport(j)' /\ CompletedJob(j)'
    BY <2>1, <2>2, <2>5 DEF JobReport, CompletedJob, Early, AtFile
  <2>7. QED
    BY <2>1, <2>4, <2>6
<1>2. ASSUME NEW j \in Jobs, Work(j)
      PROVE  ReportInv'
  <2>1. /\ upload' = upload /\ deleted' = deleted /\ doomed' = doomed
        /\ \A k \in Jobs \ {j} : /\ status'[k] = status[k] /\ accepted'[k] = accepted[k]
                                 /\ rejected'[k] = rejected[k] /\ pc'[k] = pc[k]
                                 /\ pos'[k] = pos[k]
    BY <1>2 DEF Work, RunJob, RejectUnsupported, RejectDuplicate, AcceptFile, Prepare,
       RejectBlank, FailFile, Reject, Advance, WriteRaw, IndexDocument, IndexFails, ReportFile,
       FinishJob, rows, index, platform, TypeOK
  <2>2. docs' = docs \/ IndexDocument(j)
    BY <1>2 DEF Work, RunJob, RejectUnsupported, RejectDuplicate, AcceptFile, Prepare,
       RejectBlank, FailFile, Reject, WriteRaw, IndexFails, ReportFile, FinishJob, index
  <2>3. docs \subseteq docs' /\ \A d \in docs' \ docs : d[1] = j
    BY <2>2 DEF IndexDocument
  <2>4. \A k \in Jobs \ {j} : JobReport(k)' /\ CompletedJob(k)'
    <3>1. \A k \in Jobs \ {j} : Made(k)' = Made(k)
      BY <2>1, <2>3 DEF Made
    <3>2. QED
      BY <2>1, <3>1, Frame
  <2>5. SUFFICES JobReport(j)' /\ CompletedJob(j)'
    BY <2>1, <2>3, <2>4
  <2>6. docs' = docs => Made(j)' = Made(j)
    BY <2>1 DEF Made
  <2>7. CASE RunJob(j)
    <3>1. /\ pc[j] \in Early /\ pc'[j] = "accept" /\ pos'[j] = 1 /\ Made(j)' = {}
          /\ accepted'[j] = {} /\ rejected'[j] = {} /\ status'[j] = "running"
      BY <2>7, <2>6 DEF RunJob, index, TypeOK, Early, JobReport, CursorInv
    <3>2. Reported(j)' = {}
      BY <3>1 DEF Reported
    <3>3. QED
      BY <3>1, <3>2 DEF JobReport, CompletedJob, Early, AtFile
  <2>8. ASSUME NEW why \in Reasons, Reject(j, why), pc[j] \in AtFile \ {"report"}
        PROVE  JobReport(j)' /\ CompletedJob(j)'
    <3>1. /\ accepted'[j] = accepted[j] /\ status' = status /\ docs' = docs
          /\ rejected'[j] = rejected[j] \cup {[pos |-> pos[j], reason |-> why]}
      BY <2>8 DEF Reject, TypeOK, index
    <3>2. Reported(j)' = Reported(j) \cup {pos[j]}
      <4> DEFINE e == [pos |-> pos[j], reason |-> why]
      <4>0. e.pos = pos[j]
        OBVIOUS
      <4> HIDE DEF e
      <4>1. {r.pos : r \in rejected[j] \cup {e}} = {r.pos : r \in rejected[j]} \cup {pos[j]}
        BY <4>0
      <4>2. QED
        BY <3>1, <4>1 DEF Reported, e
    <3>3. \A d \in Made(j) : d[2] \in accepted[j]
      BY <2>8 DEF JobReport, AtFile
    <3>4. \A i \in accepted[j] : <<j, i>> \in Made(j)
      BY DEF JobReport
    <3>5. QED
      BY <2>1, <2>6, <2>8, <3>1, <3>2, <3>3, <3>4, Extend DEF Reject
  <2>9. CASE RejectUnsupported(j) \/ RejectDuplicate(j) \/ RejectBlank(j) \/ FailFile(j)
    BY <2>8, <2>9 DEF RejectUnsupported, RejectDuplicate, RejectBlank, FailFile, AtFile, Reasons
  <2>10. CASE ReportFile(j)
    <3>1. /\ accepted'[j] = accepted[j] \cup {pos[j]} /\ status' = status /\ docs' = docs
          /\ rejected'[j] = rejected[j]
      BY <2>10 DEF ReportFile, TypeOK, index
    <3>2. Reported(j)' = Reported(j) \cup {pos[j]}
      BY <3>1 DEF Reported
    <3>3. \A d \in Made(j) : d[2] \in accepted'[j]
      BY <2>10, <3>1 DEF JobReport, ReportFile
    <3>4. \A i \in accepted'[j] : <<j, i>> \in Made(j)
      BY <2>10, <3>1 DEF JobReport, ReportFile
    <3>5. QED
      BY <2>1, <2>6, <2>10, <3>1, <3>2, <3>3, <3>4, Extend DEF ReportFile, AtFile
  <2>11. CASE AcceptFile(j) \/ Prepare(j) \/ WriteRaw(j) \/ IndexFails(j)
    <3>1. /\ accepted' = accepted /\ rejected' = rejected /\ status' = status
          /\ pos' = pos /\ docs' = docs
      BY <2>11 DEF AcceptFile, Prepare, WriteRaw, IndexFails, rows, index
    <3>2. pc[j] \in AtFile \ {"report"} /\ pc'[j] \in AtFile \ {"report"}
      BY <2>11 DEF AcceptFile, Prepare, WriteRaw, IndexFails, AtFile, TypeOK
    <3>3. Reported(j)' = Reported(j) /\ Made(j)' = Made(j)
      BY <2>6, <3>1 DEF Reported
    <3>4. QED
      BY <2>1, <3>1, <3>2, <3>3 DEF JobReport, CompletedJob, AtFile, Early
  <2>12. CASE IndexDocument(j)
    <3>1. /\ accepted' = accepted /\ rejected' = rejected /\ status' = status
          /\ pos' = pos /\ pc[j] = "index" /\ pc'[j] = "report"
      BY <2>12 DEF IndexDocument, rows, TypeOK
    <3>2. Made(j)' = Made(j) \cup {<<j, pos[j]>>}
      BY <2>1, <2>12 DEF IndexDocument, Made
    <3>3. Reported(j)' = Reported(j)
      BY <3>1 DEF Reported
    <3>4. \A d \in Made(j) : d[2] \in accepted[j]
      BY <3>1 DEF JobReport
    <3>5. Reported(j) = 1 .. (pos[j] - 1) /\ \A i \in accepted[j] : <<j, i>> \in Made(j)
      BY <3>1 DEF JobReport, AtFile
    <3>6. JobReport(j)'
      BY <2>1, <3>1, <3>2, <3>3, <3>4, <3>5 DEF JobReport, AtFile, Early
    <3>7. CompletedJob(j)'
      BY <2>1, <3>1, <3>3 DEF CompletedJob
    <3>8. QED
      BY <3>6, <3>7
  <2>13. CASE FinishJob(j)
    <3>1. /\ accepted' = accepted /\ rejected' = rejected /\ pc[j] = "finish"
          /\ pc'[j] = "done" /\ status'[j] = FinalStatus(j) /\ docs' = docs
      BY <2>13 DEF FinishJob, TypeOK, index
    <3>2. Reported(j)' = Reported(j) /\ Made(j)' = Made(j)
      BY <2>6, <3>1 DEF Reported
    <3>3. DOMAIN upload[j].files = 1 .. Len(upload[j].files)
      BY RequestType DEF TypeOK
    <3>4. JobReport(j)'
      <4>1. /\ \A i \in accepted[j] : <<j, i>> \in Made(j)
            /\ \A d \in Made(j) : d[2] \in accepted[j]
        BY <3>1 DEF JobReport
      <4>2. QED
        BY <3>1, <3>2, <4>1 DEF JobReport, AtFile, Early
    <3>5. CompletedJob(j)'
      <4>1. upload' = upload /\ Reported(j) = DOMAIN upload[j].files
        BY <2>1, <2>13, <3>1, <3>3 DEF JobReport, FinishJob
      <4>2. status'[j] \in {"completed", "completed_with_errors"} =>
              accepted[j] # {} /\ (status'[j] = "completed" <=> rejected[j] = {})
        BY <3>1 DEF FinalStatus
      <4>3. QED
        BY <3>1, <3>2, <4>1, <4>2 DEF CompletedJob
    <3>6. QED
      BY <3>4, <3>5
  <2>14. QED
    BY <1>2, <2>7, <2>9, <2>10, <2>11, <2>12, <2>13 DEF Work
<1>3. CASE UNCHANGED <<upload, status, accepted, rejected, pc, pos>>
           /\ docs' \cup deleted' = docs \cup deleted
           /\ doomed' \subseteq docs \cup deleted
  <2>1. \A k \in Jobs : Made(k)' = Made(k)
    BY <1>3 DEF Made
  <2>2. QED
    BY <1>3, <2>1, Frame
<1>4. ASSUME NEW d \in docs, NEW super \in BOOLEAN, FindDocument(d, super)
      PROVE  ReportInv'
  BY <1>3, <1>4 DEF FindDocument, worker, rows, platform
<1>5. ASSUME NEW d \in doomed, DeleteDocument(d)
      PROVE  ReportInv'
  <2>1. docs' \cup deleted' = docs \cup deleted /\ doomed' \subseteq docs \cup deleted
    BY <1>5 DEF DeleteDocument
  <2>2. QED
    BY <1>3, <1>5, <2>1 DEF DeleteDocument, worker, rows, platform
<1>6. ASSUME NEW t \in Tenants, NEW s \in TenantStatus, SetTenantStatus(t, s)
      PROVE  ReportInv'
  BY <1>3, <1>6 DEF SetTenantStatus, worker, rows, index
<1>7. CASE Crash
  <2>1. UNCHANGED <<upload, status, accepted, rejected, docs, deleted>> /\ doomed' = {}
    BY <1>7 DEF Crash, rows
  <2>2. \A k \in Jobs : Made(k)' = Made(k) /\ Reported(k)' = Reported(k)
    BY <2>1 DEF Made, Reported
  <2>3. ASSUME NEW k \in Jobs
        PROVE  JobReport(k)' /\ CompletedJob(k)'
    <3>1. /\ pos'[k] = 1
          /\ status[k] = "none" => pc'[k] = "idle" /\ pc[k] \in Early
          /\ status[k] # "none" => pc'[k] = "lost"
      BY <1>7 DEF Crash, StatusInv, Early
    <3>2. pc[k] = "report" => status[k] = "running" /\ Reported(k) = 1 .. (pos[k] - 1)
      BY DEF StatusInv, JobReport, AtFile
    <3>3. JobReport(k)'
      BY <2>1, <2>2, <3>1, <3>2 DEF JobReport, Early, AtFile
    <3>4. CompletedJob(k)'
      BY <2>1, <2>2 DEF CompletedJob
    <3>5. QED
      BY <3>3, <3>4
  <2>4. QED
    BY <2>1, <2>3
<1>8. CASE Restart
  <2>1. UNCHANGED <<upload, accepted, rejected, pc, pos, docs, deleted, doomed>>
    BY <1>8 DEF Restart, worker, index
  <2>2. \A k \in Jobs : Made(k)' = Made(k) /\ Reported(k)' = Reported(k)
    BY <2>1 DEF Made, Reported
  <2>3. \A k \in Jobs : \/ status'[k] = status[k]
                        \/ status[k] = "running" /\ status'[k] = "failed"
    BY <1>8 DEF Restart, Stale
  <2>4. ASSUME NEW k \in Jobs
        PROVE  JobReport(k)' /\ CompletedJob(k)'
    <3>1. JobReport(k)'
      BY <2>1, <2>2, <2>3 DEF JobReport
    <3>2. CompletedJob(k)'
      BY <2>1, <2>2, <2>3 DEF CompletedJob
    <3>3. QED
      BY <3>1, <3>2
  <2>5. QED
    BY <2>1, <2>4
<1>9. QED
  BY <1>1, <1>2, <1>3, <1>4, <1>5, <1>6, <1>7, <1>8 DEF Next, vars

LEMMA IInvInit == Init => IInv
<1> SUFFICES ASSUME Init PROVE IInv
  OBVIOUS
<1>1. StatusInv
  BY DEF Init, StatusInv, AtFile
<1>2. ReportInv
  BY DEF Init, ReportInv, JobReport, CompletedJob, Made, Early, AtFile
<1>3. QED
  BY <1>1, <1>2, TypeInit DEF IInv

LEMMA IInvariant == Spec => []IInv
<1>1. IInv /\ [Next]_vars => IInv'
  BY TypeStep, StatusStep, ReportStep DEF IInv
<1>2. QED
  BY <1>1, IInvInit, PTL DEF Spec, Safety

\* The job row and the index agree, but for the file a task was at.
THEOREM ReportIsFaithful == Spec => []ReportMatchesIndex
<1>1. IInv => ReportMatchesIndex
  <2> SUFFICES ASSUME IInv, NEW j \in Jobs
               PROVE  /\ \A i \in accepted[j] : <<j, i>> \in Made(j)
                      /\ \A d \in Made(j) : d[2] \notin accepted[j] =>
                            /\ Reported(j) = 1 .. (d[2] - 1)
                            /\ status[j] \in {"running", "failed"}
    BY DEF ReportMatchesIndex
  <2>1. pc[j] = "report" => status[j] = "running" /\ Reported(j) = 1 .. (pos[j] - 1)
    BY DEF IInv, StatusInv, ReportInv, JobReport, AtFile
  <2>2. QED
    BY <2>1 DEF IInv, ReportInv, JobReport
<1>2. QED
  BY <1>1, IInvariant, PTL

\* A completed job has a verdict on each of its files.
THEOREM CompletedJobsAreTotal == Spec => []CompletedIsTotal
<1>1. IInv => CompletedIsTotal
  BY DEF IInv, ReportInv, CompletedJob, CompletedIsTotal
<1>2. QED
  BY <1>1, IInvariant, PTL

-----------------------------------------------------------------------------
(***************************************************************************)
(* Why a file was turned away, why a task ended early, and where the raw   *)
(* file of a document is.  All three rest on what only grows: the          *)
(* documents ever made, and the names in the corpus directory.             *)
(***************************************************************************)
RawWritten ==
  \A j \in Jobs : pc[j] = "index" => \E f \in corpus : f.name = File(j).name

\* A task past its check has no document of its own with the content at hand.
OthersOnly ==
  \A j \in Jobs : pc[j] \in {"prepare", "write", "index"} =>
     \A d \in docs : DocFile(d).sha = File(j).sha => d[1] # j

CauseInv ==
  /\ RawWritten /\ RawFileOnDisk
  /\ OthersOnly /\ DuplicateWasIndexed /\ DeadOnlyByClash

LEMMA Growth ==
  ASSUME [Next]_vars
  PROVE  /\ upload' = upload
         /\ docs \cup deleted \subseteq docs' \cup deleted'
         /\ \A f \in corpus : \E g \in corpus' : g.name = f.name
         /\ docs' \subseteq docs \/ \E j \in Jobs : IndexDocument(j)
<1>1. ASSUME NEW j \in Jobs, WriteRaw(j)
      PROVE  /\ UNCHANGED <<upload, docs, deleted>>
             /\ \A f \in corpus : \E g \in corpus' : g.name = f.name
  <2> DEFINE raw == [name |-> File(j).name, sha |-> File(j).sha]
  <2>1. corpus' = {f \in corpus : f.name # File(j).name} \cup {raw}
    BY <1>1 DEF WriteRaw
  <2>2. raw.name = File(j).name
    OBVIOUS
  <2> HIDE DEF raw
  <2>3. QED
    BY <1>1, <2>1, <2>2 DEF WriteRaw, platform
<1>2. ASSUME NEW j \in Jobs, Request(j) \/ Work(j), ~ WriteRaw(j), ~ IndexDocument(j)
      PROVE  UNCHANGED <<upload, docs, deleted, corpus>>
  BY <1>2 DEF Request, Admit, CreateJob, ReadUploads, RefuseUploads, Work, RunJob,
     RejectUnsupported, RejectDuplicate, AcceptFile, Prepare, RejectBlank, FailFile,
     Reject, IndexFails, ReportFile, FinishJob, index, platform
<1>3. ASSUME NEW j \in Jobs, IndexDocument(j)
      PROVE  UNCHANGED <<upload, deleted, corpus>> /\ docs \subseteq docs'
  BY <1>3 DEF IndexDocument, platform
<1>4. ASSUME NEW d \in doomed, DeleteDocument(d)
      PROVE  /\ UNCHANGED <<upload, corpus>> /\ docs' \subseteq docs
             /\ docs \cup deleted \subseteq docs' \cup deleted'
  BY <1>4 DEF DeleteDocument, platform
<1>5. CASE \/ \E d \in docs, super \in BOOLEAN : FindDocument(d, super)
           \/ \E t \in Tenants, s \in TenantStatus : SetTenantStatus(t, s)
           \/ Crash \/ Restart \/ UNCHANGED vars
  BY <1>5 DEF FindDocument, SetTenantStatus, Crash, Restart, index, platform, vars
<1>6. QED
  BY <1>1, <1>2, <1>3, <1>4, <1>5 DEF Next

\* A step leaves a task where it is, or moves it along its path.
LEMMA CursorMoves ==
  ASSUME TypeOK, [Next]_vars, NEW j \in Jobs
  PROVE  \/ pos'[j] = pos[j] /\ pc'[j] = pc[j] /\ ~ IndexDocument(j)
         \/ AcceptFile(j) \/ Prepare(j) \/ WriteRaw(j) \/ IndexDocument(j) \/ IndexFails(j)
         \/ pc'[j] \notin {"prepare", "write", "index", "dead"} /\ ~ IndexDocument(j)
<1>1. ASSUME NEW k \in Jobs, Request(k) \/ Work(k), k # j
      PROVE  pos'[j] = pos[j] /\ pc'[j] = pc[j]
  BY <1>1 DEF TypeOK, Request, Admit, CreateJob, ReadUploads, RefuseUploads, Work, RunJob,
     RejectUnsupported, RejectDuplicate, AcceptFile, Prepare, RejectBlank, FailFile,
     Reject, Advance, WriteRaw, IndexDocument, IndexFails, ReportFile, FinishJob
<1>2. CASE Request(j)
  BY <1>2 DEF TypeOK, Request, Admit, CreateJob, ReadUploads, RefuseUploads
<1>3. CASE Work(j)
  BY <1>3 DEF TypeOK, Work, RunJob, RejectUnsupported, RejectDuplicate, RejectBlank,
     FailFile, Reject, Advance, ReportFile, FinishJob
<1>4. CASE Crash
  BY <1>4 DEF Crash
<1>5. CASE UNCHANGED worker
  BY <1>5 DEF worker
<1>6. QED
  BY <1>1, <1>2, <1>3, <1>4, <1>5 DEF Next, FindDocument, DeleteDocument, SetTenantStatus,
     Restart, worker, vars

LEMMA RawStep ==
  ASSUME TypeOK, RawWritten, RawFileOnDisk, [Next]_vars
  PROVE  RawWritten' /\ RawFileOnDisk'
<1>1. RawWritten'
  <2> SUFFICES ASSUME NEW j \in Jobs, pc'[j] = "index"
               PROVE  \E f \in corpus' : f.name = File(j)'.name
    BY DEF RawWritten
  <2>1. CASE pos'[j] = pos[j] /\ pc'[j] = pc[j]
    BY <2>1, Growth DEF RawWritten, File
  <2>2. CASE WriteRaw(j)
    <3> DEFINE raw == [name |-> File(j).name, sha |-> File(j).sha]
    <3>1. raw \in corpus' /\ pos' = pos /\ upload' = upload
      BY <2>2 DEF WriteRaw, rows, platform
    <3>2. raw.name = File(j).name
      OBVIOUS
    <3>3. QED
      BY <3>1, <3>2 DEF File
  <2>3. QED
    BY <2>1, <2>2, CursorMoves DEF AcceptFile, Prepare, IndexDocument, IndexFails, TypeOK
<1>2. RawFileOnDisk'
  <2> SUFFICES ASSUME NEW d \in docs'
               PROVE  \E f \in corpus' : f.name = DocFile(d)'.name
    BY DEF RawFileOnDisk
  <2>1. CASE d \in docs
    BY <2>1, Growth DEF RawFileOnDisk, DocFile
  <2>2. ASSUME NEW j \in Jobs, IndexDocument(j), d \notin docs
        PROVE  \E f \in corpus' : f.name = DocFile(d)'.name
    <3>1. d = <<j, pos[j]>> /\ pc[j] = "index"
      BY <2>2 DEF IndexDocument
    <3>2. DocFile(d)' = File(j)
      BY <3>1, Growth DEF DocFile, File
    <3>3. QED
      BY <3>1, <3>2, Growth DEF RawWritten
  <2>3. QED
    BY <2>1, <2>2, Growth
<1>3. QED
  BY <1>1, <1>2

LEMMA OthersStep ==
  ASSUME IInv, OthersOnly, [Next]_vars
  PROVE  OthersOnly'
<1> SUFFICES ASSUME NEW j \in Jobs, pc'[j] \in {"prepare", "write", "index"},
                    NEW d \in docs', DocFile(d)'.sha = File(j)'.sha
             PROVE  d[1] # j
  BY DEF OthersOnly
<1>1. /\ pos'[j] = pos[j] /\ ~ IndexDocument(j)
      /\ pc[j] \in {"prepare", "write", "index"} \/ AcceptFile(j)
  <2>1. CASE AcceptFile(j) \/ Prepare(j) \/ WriteRaw(j)
    BY <2>1 DEF AcceptFile, Prepare, WriteRaw, IndexDocument, rows, IInv, TypeOK
  <2>2. ~ IndexDocument(j) /\ ~ IndexFails(j)
    BY DEF IndexDocument, IndexFails, IInv, TypeOK
  <2>3. QED
    BY <2>1, <2>2, CursorMoves DEF IInv
<1>2. DocFile(d)' = DocFile(d) /\ File(j)' = File(j)
  BY <1>1, Growth DEF DocFile, File
<1>3. CASE d \in docs
  BY <1>1, <1>2, <1>3 DEF OthersOnly, AcceptFile, Indexed
<1>4. CASE d \notin docs
  <2>1. PICK k \in Jobs : IndexDocument(k)
    BY <1>4, Growth
  <2>2. d = <<k, pos[k]>> /\ k # j
    BY <1>1, <1>4, <2>1 DEF IndexDocument
  <2>3. QED
    BY <2>2
<1>5. QED
  BY <1>3, <1>4

LEMMA DuplicateStep ==
  ASSUME IInv, DuplicateWasIndexed, [Next]_vars
  PROVE  DuplicateWasIndexed'
<1> SUFFICES ASSUME NEW j \in Jobs, NEW r \in rejected'[j], r.reason = "DUPLICATE"
             PROVE  \E d \in docs' \cup deleted' :
                       d # <<j, r.pos>> /\ DocFile(d)'.sha = upload'[j].files[r.pos].sha
  BY DEF DuplicateWasIndexed
<1>1. ASSUME NEW d \in docs \cup deleted, d # <<j, r.pos>>,
             DocFile(d).sha = upload[j].files[r.pos].sha
      PROVE  \E e \in docs' \cup deleted' :
                e # <<j, r.pos>> /\ DocFile(e)'.sha = upload'[j].files[r.pos].sha
  BY <1>1, Growth DEF DocFile
<1>2. CASE r \in rejected[j]
  BY <1>1, <1>2 DEF DuplicateWasIndexed
<1>3. CASE RejectDuplicate(j) /\ r \notin rejected[j]
  <2>1. r.pos = pos[j] /\ pc[j] = "accept"
    BY <1>3 DEF RejectDuplicate, Reject, IInv, TypeOK
  <2>2. PICK d \in docs : DocFile(d).sha = File(j).sha
    BY <1>3 DEF RejectDuplicate, Indexed
  <2>3. d # <<j, pos[j]>>
    <3> SUFFICES ASSUME d = <<j, pos[j]>> PROVE FALSE
      OBVIOUS
    <3>1. d \in Made(j) /\ d[2] = pos[j]
      BY DEF Made
    <3>2. pos[j] \in accepted[j] /\ Reported(j) = 1 .. (pos[j] - 1)
      BY <2>1, <3>1 DEF IInv, ReportInv, JobReport, AtFile
    <3>3. pos[j] \in 1 .. (pos[j] - 1) /\ pos[j] \in Nat
      BY <3>2 DEF Reported, IInv, TypeOK
    <3>4. QED
      BY <3>3
  <2>4. QED
    BY <1>1, <2>1, <2>2, <2>3 DEF File
<1>4. r \in rejected[j] \/ RejectDuplicate(j)
  <2> DEFINE e(why) == [pos |-> pos[j], reason |-> why]
  <2>1. ASSUME NEW why \in Reasons \ {"DUPLICATE"}, Reject(j, why)
        PROVE  r \in rejected[j]
    <3>1. rejected'[j] = rejected[j] \cup {e(why)} /\ e(why).reason = why
      BY <2>1 DEF Reject, IInv, TypeOK
    <3>2. QED
      BY <2>1, <3>1
  <2>2. CASE RejectUnsupported(j) \/ RejectBlank(j) \/ FailFile(j)
    BY <2>1, <2>2 DEF RejectUnsupported, RejectBlank, FailFile, Reasons
  <2>3. ASSUME NEW k \in Jobs, Request(k) \/ Work(k), k # j
        PROVE  rejected'[j] = rejected[j]
    BY <2>3 DEF IInv, TypeOK, Request, Admit, CreateJob, ReadUploads, RefuseUploads, Work,
       RunJob, RejectUnsupported, RejectDuplicate, AcceptFile, Prepare, RejectBlank, FailFile,
       Reject, WriteRaw, IndexDocument, IndexFails, ReportFile, FinishJob, rows
  <2>4. CASE Request(j) \/ Work(j)
    BY <2>2, <2>4 DEF IInv, TypeOK, Request, Admit, CreateJob, ReadUploads, RefuseUploads,
       Work, RunJob, AcceptFile, Prepare, WriteRaw, IndexDocument, IndexFails, ReportFile,
       FinishJob, rows
  <2>5. CASE rejected' = rejected
    BY <2>5
  <2>6. QED
    BY <2>3, <2>4, <2>5 DEF Next, FindDocument, DeleteDocument, SetTenantStatus, Crash,
       Restart, rows, vars
<1>5. QED
  BY <1>2, <1>3, <1>4

LEMMA DeadStep ==
  ASSUME TypeOK, OthersOnly, DeadOnlyByClash, [Next]_vars
  PROVE  DeadOnlyByClash'
<1> SUFFICES ASSUME NEW j \in Jobs, pc'[j] = "dead", File(j)'.kind # "unstorable"
             PROVE  \E d \in docs' \cup deleted' : d[1] # j /\ DocFile(d)'.sha = File(j)'.sha
  BY DEF DeadOnlyByClash
<1>1. CASE pos'[j] = pos[j] /\ pc'[j] = pc[j]
  <2>1. File(j)' = File(j)
    BY <1>1, Growth DEF File
  <2>2. PICK d \in docs \cup deleted : d[1] # j /\ DocFile(d).sha = File(j).sha
    BY <1>1, <2>1 DEF DeadOnlyByClash
  <2>3. QED
    BY <2>1, <2>2, Growth DEF DocFile
<1>2. CASE IndexFails(j)
  <2>1. File(j)' = File(j)
    BY <1>2, Growth DEF IndexFails, File
  <2>2. PICK d \in docs : DocFile(d).sha = File(j).sha
    BY <1>2, <2>1 DEF IndexFails, Storable, Indexed
  <2>3. d[1] # j
    BY <1>2, <2>2 DEF IndexFails, OthersOnly
  <2>4. QED
    BY <2>1, <2>2, <2>3, Growth DEF DocFile
<1>3. QED
  BY <1>1, <1>2, CursorMoves DEF AcceptFile, Prepare, WriteRaw, IndexDocument, TypeOK

LEMMA CauseInvariant == Spec => []CauseInv
<1>1. Init => CauseInv
  BY DEF Init, CauseInv, RawWritten, RawFileOnDisk, OthersOnly, DuplicateWasIndexed,
     DeadOnlyByClash
<1>2. IInv /\ CauseInv /\ [Next]_vars => CauseInv'
  BY RawStep, OthersStep, DuplicateStep, DeadStep DEF CauseInv, IInv
<1>3. QED
  BY <1>1, <1>2, IInvariant, PTL DEF Spec, Safety

\* Every document has a raw file under its name, whatever was written over it.
THEOREM RawFilesStay == Spec => []RawFileOnDisk
BY CauseInvariant, PTL DEF CauseInv

\* A file is turned away as DUPLICATE only for another file that was indexed.
THEOREM DuplicatesWereIndexed == Spec => []DuplicateWasIndexed
BY CauseInvariant, PTL DEF CauseInv

\* Only an unstorable text or another upload's document ends a task early.
THEOREM EarlyEndsExplained == Spec => []DeadOnlyByClash
BY CauseInvariant, PTL DEF CauseInv

=============================================================================
