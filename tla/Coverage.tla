------------------------------ MODULE Coverage ------------------------------
(***************************************************************************)
(* The programme of a tenant and what its materials cover:                 *)
(* POST /tenants/{slug}/program, POST .../materials/{id}/topics, DELETE    *)
(* /admin/documents/{id}, and the triggers of migration 0008 that keep     *)
(* program_topics.coverage_chunks, the number the coverage report, the     *)
(* student's topic list and the full-programme self-check rely on.         *)
(*                                                                         *)
(* A handler reads in one step and writes in a later one.  Its transaction *)
(* runs at READ COMMITTED: the triggers fire when the rows are written,    *)
(* and what they wrote is seen by others, and survives, only at COMMIT.    *)
(*                                                                         *)
(* Abstracted: one tenant, to which every query is confined; chunk_topics, *)
(* of which each chunk of a document holds the topics of the document; and *)
(* the tenant's status, which does not bind a super-admin (see Ingestion). *)
(***************************************************************************)
EXTENDS Integers, FiniteSets, Functions

CONSTANTS
  Uploads,     \* program uploads, each the id of the program it inserts
  Syllabus,    \* the external ids of the topics in each upload
  Attaches,    \* requests that set the topics of a material
  Flips,       \* changes of documents.status, by an operator's SQL
  Docs,        \* ids of documents, never reused
  Chunks       \* the number of chunks of each document

Eids   == UNION Range(Syllabus)
Topics == {t \in Uploads \X Eids : t[2] \in Syllabus[t[1]]}
Txs    == Attaches \cup Flips

ASSUME CoverageAssumption ==
  /\ Syllabus \in [Uploads -> SUBSET Eids]
  /\ Chunks \in [Docs -> Nat \ {0}]
  /\ IsFiniteSet(Docs) /\ Docs # {}
  /\ Attaches \cap Flips = {}

VARIABLES
  program,     \* programs.status, "none" while there is no row
  doc,         \* documents.status; "superseded" stands for "deleted" as well
  topics,      \* material_topics, as <<document, topic>>
  coverage,    \* program_topics.coverage_chunks
  upc, old,    \* an upload: where it stands, the active programs it has read
  pc,          \* where a transaction of Txs stands
  target,      \* its document
  wanted,      \* the topics an attach request resolved
  add, del,    \* the rows of material_topics it inserts and deletes
  new,         \* the status a flip writes
  delta,       \* what the triggers added to each counter so far
  overlap,     \* history: attaches of one document that were under way at once
  raced,       \* history: topics attached or detached while a flip was open
  leaked       \* history: chunks of each topic deleted with an active document

programs == <<program, upc, old>>
txs      == <<pc, target, wanted, add, del, new, delta>>
history  == <<overlap, raced, leaked>>
vars     == <<program, doc, topics, coverage, upc, old, pc, target, wanted,
              add, del, new, delta, overlap, raced, leaked>>

-----------------------------------------------------------------------------
Active    == {p \in Uploads : program[p] = "active"}
Present   == {d \in Docs : doc[d] \in {"active", "superseded"}}
Covers(d) == {t \in Topics : <<d, t>> \in topics}

\* Transactions that have written to a document and are not committed.
Open(d)  == {x \in Txs : pc[x] = "written" /\ target[x] = d}
Zero     == [t \in Topics |-> 0]

Init ==
  /\ program = [p \in Uploads |-> "none"]
  /\ doc = [d \in Docs |-> "none"]
  /\ topics = {}
  /\ coverage = Zero
  /\ upc = [p \in Uploads |-> "idle"] /\ old = [p \in Uploads |-> {}]
  /\ pc = [x \in Txs |-> "idle"]
  /\ target = [x \in Txs |-> CHOOSE d \in Docs : TRUE]
  /\ wanted = [x \in Txs |-> {}]
  /\ add = [x \in Txs |-> {}] /\ del = [x \in Txs |-> {}]
  /\ new = [x \in Txs |-> "active"]
  /\ delta = [x \in Txs |-> Zero]
  /\ overlap = {} /\ raced = {} /\ leaked = Zero

\* The transaction is over, and the handler with what it held.
End(x, how) ==
  /\ pc' = [pc EXCEPT ![x] = how]
  /\ wanted' = [wanted EXCEPT ![x] = {}]
  /\ add' = [add EXCEPT ![x] = {}] /\ del' = [del EXCEPT ![x] = {}]
  /\ delta' = [delta EXCEPT ![x] = Zero]
  /\ UNCHANGED <<target, new>>

-----------------------------------------------------------------------------
(* POST /tenants/{slug}/program *)

\* Defect: the active program is archived by a commit of its own.
ReadAndArchive(p) ==
  /\ upc[p] = "idle"
  /\ upc' = [upc EXCEPT ![p] = "read"]
  /\ old' = [old EXCEPT ![p] = Active]
  /\ program' = [q \in Uploads |-> IF q \in Active THEN "archived" ELSE program[q]]
  /\ UNCHANGED <<doc, topics, coverage, txs, history>>

\* The text is parsed, and the active programs are selected.
ReadActive(p) ==
  /\ upc[p] = "idle"
  /\ upc' = [upc EXCEPT ![p] = "read"]
  /\ old' = [old EXCEPT ![p] = Active]
  /\ UNCHANGED <<program, doc, topics, coverage, txs, history>>

\* Defect: no partial unique index on the active program of a tenant.
NoOtherActive(p) == TRUE

\* programs_one_active: the programs read are archived by the same flush.
OneActiveIndex(p) == Active \subseteq old[p]

ReplaceProgram(p) ==
  /\ upc[p] = "read" /\ OneActiveIndex(p)
  /\ program' = [q \in Uploads |-> IF q = p THEN "active"
                                   ELSE IF q \in old[p] THEN "archived" ELSE program[q]]
  /\ upc' = [upc EXCEPT ![p] = "done"]
  /\ UNCHANGED <<old, doc, topics, coverage, txs, history>>

\* Another upload was faster: the INSERT fails and all is rolled back.
ReplaceFails(p) ==
  /\ upc[p] = "read" /\ ~ OneActiveIndex(p)
  /\ upc' = [upc EXCEPT ![p] = "failed"]
  /\ UNCHANGED <<program, old, doc, topics, coverage, txs, history>>

-----------------------------------------------------------------------------
\* index_document: a new document has no topics for its chunks to inherit.
IndexDocument(d) ==
  /\ doc[d] = "none"
  /\ doc' = [doc EXCEPT ![d] = "active"]
  /\ UNCHANGED <<topics, coverage, programs, txs, history>>

\* delete_document: the chunks go first, so the trigger on the chunk_topics
\* that go with them finds no document, and leaves the counters alone.  It
\* waits for the transactions that hold a lock on the document or its chunks.
DeleteDocument(d) ==
  /\ d \in Present /\ Open(d) = {}
  /\ doc' = [doc EXCEPT ![d] = "gone"]
  /\ topics' = {m \in topics : m[1] # d}
  /\ leaked' = [t \in Topics |-> IF t \in Covers(d) /\ doc[d] = "active"
                                   THEN leaked[t] + Chunks[d] ELSE leaked[t]]
  /\ UNCHANGED <<coverage, programs, txs, overlap, raced>>

-----------------------------------------------------------------------------
(* POST /tenants/{slug}/materials/{material_id}/topics *)

Rivals(r, d) == {x \in Attaches : pc[x] \in {"resolved", "read", "written"} /\ target[x] = d} \ {r}

\* The material and the topics of the active program are found: an empty list
\* needs no program, else it is a 409 without one, a 422 for an unknown id.
ResolveTopics(r) ==
  /\ pc[r] = "idle"
  /\ \E d \in Present, ts \in SUBSET Topics :
       /\ ts = {} \/ \E p \in Active : ts \subseteq {p} \X Syllabus[p]
       /\ pc' = [pc EXCEPT ![r] = "resolved"]
       /\ target' = [target EXCEPT ![r] = d]
       /\ wanted' = [wanted EXCEPT ![r] = ts]
       /\ overlap' = IF Rivals(r, d) = {} THEN overlap ELSE overlap \cup Rivals(r, d) \cup {r}
  /\ UNCHANGED <<add, del, new, delta, doc, topics, coverage, programs, raced, leaked>>

\* Defect: the topics that are not wanted any more stay.
ReadCurrentAddOnly(r) ==
  /\ pc[r] = "resolved"
  /\ add' = [add EXCEPT ![r] = wanted[r] \ Covers(target[r])]
  /\ pc' = [pc EXCEPT ![r] = "read"]
  /\ UNCHANGED <<target, wanted, del, new, delta, doc, topics, coverage, programs, history>>

\* The current topics are selected, and the difference is computed.
ReadCurrent(r) ==
  /\ pc[r] = "resolved"
  /\ add' = [add EXCEPT ![r] = wanted[r] \ Covers(target[r])]
  /\ del' = [del EXCEPT ![r] = Covers(target[r]) \ wanted[r]]
  /\ pc' = [pc EXCEPT ![r] = "read"]
  /\ UNCHANGED <<target, wanted, new, delta, doc, topics, coverage, programs, history>>

\* A row another open transaction wrote: the statement waits for it.
Blocked(r) ==
  \E x \in Open(target[r]) : (add[x] \cup del[x]) \cap (add[r] \cup del[r]) # {}

\* Primary key of material_topics, or its reference to documents.
Violates(r) ==
  add[r] # {} /\ (doc[target[r]] = "gone" \/ add[r] \cap Covers(target[r]) # {})

\* Defect: a material that is not active is counted too.
CountsAlways(d) == Chunks[d]

\* The triggers count the chunks of a document that is active.
Counts(d) == IF doc[d] = "active" THEN Chunks[d] ELSE 0

\* The flush: rows of material_topics, and through the triggers chunk_topics
\* and the counters.  A row to delete may be gone already.
WriteTopics(r) ==
  /\ pc[r] = "read" /\ ~ Blocked(r) /\ ~ Violates(r)
  /\ LET d == target[r]
         gone == del[r] \cap Covers(d)
     IN /\ delta' = [delta EXCEPT ![r] =
              [t \in Topics |-> IF t \in add[r] THEN Counts(d)
                                ELSE IF t \in gone THEN - Counts(d) ELSE 0]]
        /\ del' = [del EXCEPT ![r] = gone]
        /\ raced' = IF Open(d) \cap Flips = {} THEN raced ELSE raced \cup add[r] \cup gone
  /\ pc' = [pc EXCEPT ![r] = "written"]
  /\ UNCHANGED <<target, wanted, add, new, doc, topics, coverage, programs, overlap, leaked>>

WriteFails(r) ==
  /\ pc[r] = "read" /\ ~ Blocked(r) /\ Violates(r)
  /\ End(r, "failed")
  /\ UNCHANGED <<doc, topics, coverage, programs, history>>

\* Defect: the counter is not kept from falling below zero.
CountedRaw(n) == n

\* GREATEST(coverage_chunks + n, 0)
Counted(n) == IF n < 0 THEN 0 ELSE n

ApplyDeltas(x) ==
  coverage' = [t \in Topics |-> Counted(coverage[t] + delta[x][t])]

CommitTopics(r) ==
  /\ pc[r] = "written"
  /\ topics' = (topics \ ({target[r]} \X del[r])) \cup ({target[r]} \X add[r])
  /\ ApplyDeltas(r)
  /\ End(r, "done")
  /\ UNCHANGED <<doc, programs, history>>

-----------------------------------------------------------------------------
(* UPDATE documents SET status, and its trigger *)

WriteStatus(f, d, s) ==
  /\ pc[f] = "idle"
  /\ d \in Present /\ doc[d] # s /\ Open(d) \cap Flips = {}
  /\ target' = [target EXCEPT ![f] = d]
  /\ new' = [new EXCEPT ![f] = s]
  /\ delta' = [delta EXCEPT ![f] =
       [t \in Topics |-> IF t \notin Covers(d) THEN 0
                         ELSE IF s = "active" THEN Chunks[d] ELSE - Chunks[d]]]
  /\ raced' = raced \cup UNION {add[x] \cup del[x] : x \in Open(d)}
  /\ pc' = [pc EXCEPT ![f] = "written"]
  /\ UNCHANGED <<wanted, add, del, doc, topics, coverage, programs, overlap, leaked>>

CommitStatus(f) ==
  /\ pc[f] = "written"
  /\ doc' = [doc EXCEPT ![target[f]] = new[f]]
  /\ ApplyDeltas(f)
  /\ End(f, "done")
  /\ UNCHANGED <<topics, programs, history>>

\* A deadlock, a lost connection or a crash: the transaction is rolled back.
Abort(x) ==
  /\ pc[x] \in {"resolved", "read", "written"}
  /\ End(x, "failed")
  /\ UNCHANGED <<doc, topics, coverage, programs, history>>

-----------------------------------------------------------------------------
Next ==
  \/ \E p \in Uploads : ReadActive(p) \/ ReplaceProgram(p) \/ ReplaceFails(p)
  \/ \E d \in Docs : IndexDocument(d) \/ DeleteDocument(d)
  \/ \E r \in Attaches : \/ ResolveTopics(r) \/ ReadCurrent(r)
                         \/ WriteTopics(r) \/ WriteFails(r) \/ CommitTopics(r)
  \/ \E f \in Flips : \/ \E d \in Docs, s \in {"active", "superseded"} : WriteStatus(f, d, s)
                      \/ CommitStatus(f)
  \/ \E x \in Txs : Abort(x)

Spec == Init /\ [][Next]_vars

-----------------------------------------------------------------------------
DocStatus == {"active", "superseded"}

\* Type of every variable.
TypeOK ==
  /\ program \in [Uploads -> {"none", "active", "archived"}]
  /\ doc \in [Docs -> {"none", "gone"} \cup DocStatus]
  /\ topics \subseteq Docs \X Topics
  /\ coverage \in [Topics -> Nat]
  /\ upc \in [Uploads -> {"idle", "read", "done", "failed"}]
  /\ old \in [Uploads -> SUBSET Uploads]
  /\ pc \in [Txs -> {"idle", "resolved", "read", "written", "done", "failed"}]
  /\ target \in [Txs -> Docs]
  /\ wanted \in [Txs -> SUBSET Topics]
  /\ add \in [Txs -> SUBSET Topics] /\ del \in [Txs -> SUBSET Topics]
  /\ new \in [Txs -> DocStatus]
  /\ delta \in [Txs -> [Topics -> Int]]
  /\ overlap \subseteq Attaches /\ raced \subseteq Topics
  /\ leaked \in [Topics -> Nat]

\* The chunks of every document, as <<document, index>>, and how many of them
\* belong to active documents that are attached to a topic.
AllChunks == UNION {{d} \X (1 .. Chunks[d]) : d \in Docs}
Live(t)   == Cardinality({c \in AllChunks : doc[c[1]] = "active" /\ <<c[1], t>> \in topics})

\* BDD 7.4: a tenant never has two active programs, however uploads interleave;
\* active_prog.scalar_one_or_none() of the attach handler relies on it.
OneActiveProgram == Cardinality(Active) <= 1

\* A tenant that has an active program keeps having one: archiving the old and
\* inserting the new succeed or fail together.
ProgramNeverLost == [][Active # {} => Active' # {}]_vars

\* The counter counts what it should and the chunks that were deleted with an
\* active document, and nothing else, for every topic that was not attached or
\* detached while the status of the same document was being changed.
CoverageExplained ==
  \A t \in Topics \ raced : coverage[t] = Live(t) + leaked[t]

\* A material ends with the topics of the request, unless another request for
\* the same material was under way, or the material was deleted meanwhile.
SerialAttachSets ==
  [][\A r \in Attaches \ overlap :
       pc[r] = "written" /\ pc'[r] = "done" /\ doc[target[r]] # "gone" =>
         {t \in Topics : <<target[r], t>> \in topics'} = wanted[r]]_vars

\* roadmap.md, M4.5.D: the counter counts the chunks of active materials, and
\* falls when a material is deleted.
CoverageExact == \A t \in Topics \ raced : coverage[t] = Live(t)

=============================================================================
