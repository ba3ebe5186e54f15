--------------------------- MODULE CoverageProofs ---------------------------
(***************************************************************************)
(* Programs and the topics of materials, for any number of uploads, attach *)
(* requests, changes of status and documents, and what the counters of the *)
(* topics hold.                                                            *)
(***************************************************************************)
EXTENDS Coverage, FiniteSetTheorems, TLAPS

Busy == {"resolved", "read", "written"}

\* A tenant has one active program.
SingleInv == \A p, q \in Active : p = q

\* A transaction that wrote the status of a document holds it: it is there.
StatusInv == \A f \in Flips : pc[f] = "written" => doc[target[f]] # "gone"

\* An attach request that met no other is alone with the topics of its material,
\* and they are still those it has read.
AttachInv ==
  \A r \in Attaches \ overlap :
    /\ \A x \in Attaches \ {r} : pc[r] \in Busy /\ pc[x] \in Busy => target[x] # target[r]
    /\ pc[r] \in {"read", "written"} /\ doc[target[r]] # "gone" =>
         /\ add[r] = wanted[r] \ Covers(target[r])
         /\ del[r] = Covers(target[r]) \ wanted[r]

IInv == TypeOK /\ SingleInv /\ StatusInv /\ AttachInv

LEMMA InitIInv == Init => IInv
<1> SUFFICES ASSUME Init PROVE IInv
  OBVIOUS
<1> USE CoverageAssumption
<1>1. (CHOOSE d \in Docs : TRUE) \in Docs
  OBVIOUS
<1>2. TypeOK
  BY <1>1 DEF Init, TypeOK, Zero, DocStatus
<1>3. SingleInv /\ StatusInv /\ AttachInv
  BY DEF Init, SingleInv, StatusInv, AttachInv, Active, Txs, Busy
<1> QED
  BY <1>2, <1>3 DEF IInv

LEMMA TypeStep == TypeOK /\ [Next]_vars => TypeOK'
<1> SUFFICES ASSUME TypeOK, [Next]_vars PROVE TypeOK'
  OBVIOUS
<1> USE CoverageAssumption DEF TypeOK, DocStatus
<1>0. /\ Attaches \subseteq Txs /\ Flips \subseteq Txs /\ Zero \in [Topics -> Int]
      /\ \A d \in Docs : Chunks[d] \in Nat /\ Counts(d) \in Int
      /\ \A d \in Docs : Covers(d) \subseteq Topics
  BY DEF Txs, Zero, Counts, Covers
<1>1. ASSUME NEW p \in Uploads, ReadActive(p) \/ ReplaceProgram(p) \/ ReplaceFails(p)
      PROVE  TypeOK'
  <2>1. CASE ReadActive(p)
    BY <2>1 DEF ReadActive, Active, txs, history
  <2>2. CASE ReplaceProgram(p)
    BY <2>2 DEF ReplaceProgram, txs, history
  <2>3. CASE ReplaceFails(p)
    BY <2>3 DEF ReplaceFails, txs, history
  <2> QED
    BY <1>1, <2>1, <2>2, <2>3
<1>2. ASSUME NEW d \in Docs, IndexDocument(d) PROVE TypeOK'
  BY <1>2 DEF IndexDocument, programs, txs, history
<1>3. ASSUME NEW d \in Docs, DeleteDocument(d) PROVE TypeOK'
  BY <1>0, <1>3 DEF DeleteDocument, programs, txs
<1>4. ASSUME NEW r \in Attaches, ResolveTopics(r) PROVE TypeOK'
  BY <1>0, <1>4 DEF ResolveTopics, Rivals, Present, programs
<1>5. ASSUME NEW r \in Attaches, ReadCurrent(r) PROVE TypeOK'
  BY <1>0, <1>5 DEF ReadCurrent, programs, history
<1>6. ASSUME NEW r \in Attaches, WriteTopics(r) PROVE TypeOK'
  <2>1. target[r] \in Docs /\ add[r] \subseteq Topics /\ del[r] \cap Covers(target[r]) \subseteq Topics
    BY <1>0
  <2>2. delta' \in [Txs -> [Topics -> Int]]
    BY <1>0, <1>6, <2>1 DEF WriteTopics
  <2>3. del' \in [Txs -> SUBSET Topics] /\ raced' \subseteq Topics
    BY <1>0, <1>6, <2>1 DEF WriteTopics
  <2> QED
    BY <1>6, <2>2, <2>3 DEF WriteTopics, programs
<1>7. ASSUME NEW x \in Txs, ApplyDeltas(x) PROVE coverage' \in [Topics -> Nat]
  <2>1. \A t \in Topics : coverage[t] + delta[x][t] \in Int
    BY <1>7
  <2> QED
    BY <1>7, <2>1 DEF ApplyDeltas, Counted
<1>8. ASSUME NEW x \in Txs, NEW how \in {"done", "failed"}, End(x, how)
      PROVE  /\ pc' \in [Txs -> {"idle", "resolved", "read", "written", "done", "failed"}]
             /\ target' \in [Txs -> Docs] /\ wanted' \in [Txs -> SUBSET Topics]
             /\ add' \in [Txs -> SUBSET Topics] /\ del' \in [Txs -> SUBSET Topics]
             /\ new' \in [Txs -> DocStatus] /\ delta' \in [Txs -> [Topics -> Int]]
  BY <1>0, <1>8 DEF End
<1>9. ASSUME NEW r \in Attaches, WriteFails(r) PROVE TypeOK'
  BY <1>0, <1>8, <1>9 DEF WriteFails, programs, history
<1>10. ASSUME NEW r \in Attaches, CommitTopics(r) PROVE TypeOK'
  <2>1. topics' \subseteq Docs \X Topics
    BY <1>0, <1>10 DEF CommitTopics
  <2> QED
    BY <1>0, <1>7, <1>8, <1>10, <2>1 DEF CommitTopics, programs, history
<1>11. ASSUME NEW f \in Flips, NEW d \in Docs, NEW s \in {"active", "superseded"},
              WriteStatus(f, d, s)
       PROVE  TypeOK'
  <2>1. delta' \in [Txs -> [Topics -> Int]]
    BY <1>0, <1>11 DEF WriteStatus
  <2>2. raced' \subseteq Topics
    BY <1>11 DEF WriteStatus, Open
  <2> QED
    BY <1>0, <1>11, <2>1, <2>2 DEF WriteStatus, programs
<1>12. ASSUME NEW f \in Flips, CommitStatus(f) PROVE TypeOK'
  BY <1>0, <1>7, <1>8, <1>12 DEF CommitStatus, programs, history
<1>13. ASSUME NEW x \in Txs, Abort(x) PROVE TypeOK'
  BY <1>8, <1>13 DEF Abort, programs, history
<1>14. CASE UNCHANGED vars
  BY <1>14 DEF vars
<1> QED
  BY <1>1, <1>2, <1>3, <1>4, <1>5, <1>6, <1>9, <1>10, <1>11, <1>12, <1>13, <1>14 DEF Next

\* An upload archives what was active or fails; nothing else changes a program.
LEMMA SingleStep ==
  TypeOK /\ SingleInv /\ [Next]_vars => SingleInv' /\ (Active # {} => Active' # {})
<1> SUFFICES ASSUME TypeOK, SingleInv, [Next]_vars
             PROVE  SingleInv' /\ (Active # {} => Active' # {})
  OBVIOUS
<1>1. ASSUME NEW p \in Uploads, ReplaceProgram(p)
      PROVE  SingleInv' /\ (Active # {} => Active' # {})
  <2>1. Active' = {p}
    BY <1>1 DEF ReplaceProgram, OneActiveIndex, Active, TypeOK
  <2> QED
    BY <2>1 DEF SingleInv
<1>2. ASSUME UNCHANGED program PROVE SingleInv' /\ (Active # {} => Active' # {})
  <2>1. Active' = Active
    BY <1>2 DEF Active
  <2> QED
    BY <2>1 DEF SingleInv
<1> QED
  BY <1>1, <1>2 DEF Next, ReadActive, ReplaceFails, IndexDocument, DeleteDocument, ResolveTopics,
     ReadCurrent, WriteTopics, WriteFails, CommitTopics, WriteStatus, CommitStatus, Abort,
     programs, vars

LEMMA StatusStep == TypeOK /\ StatusInv /\ [Next]_vars => StatusInv'
<1> SUFFICES ASSUME TypeOK, StatusInv, [Next]_vars PROVE StatusInv'
  OBVIOUS
<1> USE CoverageAssumption DEF TypeOK, StatusInv, Txs
<1>1. ASSUME NEW p \in Uploads, ReadActive(p) \/ ReplaceProgram(p) \/ ReplaceFails(p)
      PROVE  StatusInv'
  BY <1>1 DEF ReadActive, ReplaceProgram, ReplaceFails, txs
<1>2. ASSUME NEW d \in Docs, IndexDocument(d) PROVE StatusInv'
  BY <1>2 DEF IndexDocument, txs
<1>3. ASSUME NEW d \in Docs, DeleteDocument(d) PROVE StatusInv'
  BY <1>3 DEF DeleteDocument, Open, txs
<1>4. ASSUME NEW r \in Attaches, ResolveTopics(r) \/ ReadCurrent(r) \/ WriteTopics(r)
      PROVE  StatusInv'
  BY <1>4 DEF ResolveTopics, ReadCurrent, WriteTopics
<1>5. ASSUME NEW r \in Attaches, WriteFails(r) \/ CommitTopics(r) PROVE StatusInv'
  BY <1>5 DEF WriteFails, CommitTopics, End
<1>6. ASSUME NEW f \in Flips, NEW d \in Docs, NEW s \in {"active", "superseded"},
             WriteStatus(f, d, s)
      PROVE  StatusInv'
  BY <1>6 DEF WriteStatus, Present
<1>7. ASSUME NEW f \in Flips, CommitStatus(f) PROVE StatusInv'
  BY <1>7 DEF CommitStatus, End, DocStatus
<1>8. ASSUME NEW x \in Txs, Abort(x) PROVE StatusInv'
  BY <1>8 DEF Abort, End
<1>9. CASE UNCHANGED vars
  BY <1>9 DEF vars
<1> QED
  BY <1>1, <1>2, <1>3, <1>4, <1>5, <1>6, <1>7, <1>8, <1>9 DEF Next

LEMMA AttachStep == IInv /\ [Next]_vars => AttachInv'
<1> SUFFICES ASSUME IInv, [Next]_vars PROVE AttachInv'
  OBVIOUS
<1> USE CoverageAssumption DEF IInv, TypeOK, AttachInv, Txs, Busy, Covers
<1>1. ASSUME NEW p \in Uploads, ReadActive(p) \/ ReplaceProgram(p) \/ ReplaceFails(p)
      PROVE  AttachInv'
  BY <1>1 DEF ReadActive, ReplaceProgram, ReplaceFails, txs, history
<1>2. ASSUME NEW d \in Docs, IndexDocument(d) PROVE AttachInv'
  BY <1>2 DEF IndexDocument, txs, history
<1>3. ASSUME NEW d \in Docs, DeleteDocument(d) PROVE AttachInv'
  BY <1>3 DEF DeleteDocument, txs
<1>4. ASSUME NEW r \in Attaches, ResolveTopics(r) PROVE AttachInv'
  BY <1>4 DEF ResolveTopics, Rivals
<1>5. ASSUME NEW r \in Attaches, ReadCurrent(r) PROVE AttachInv'
  BY <1>5 DEF ReadCurrent, history
<1>6. ASSUME NEW r \in Attaches, WriteTopics(r) PROVE AttachInv'
  BY <1>6 DEF WriteTopics
<1>7. ASSUME NEW r \in Attaches, WriteFails(r) PROVE AttachInv'
  BY <1>7 DEF WriteFails, End, history
<1>8. ASSUME NEW r \in Attaches, CommitTopics(r) PROVE AttachInv'
  BY <1>8 DEF CommitTopics, End, history
<1>9. ASSUME NEW f \in Flips, NEW d \in Docs, NEW s \in {"active", "superseded"},
             WriteStatus(f, d, s)
      PROVE  AttachInv'
  BY <1>9 DEF WriteStatus
<1>10. ASSUME NEW f \in Flips, CommitStatus(f) PROVE AttachInv'
  BY <1>10 DEF CommitStatus, End, history, StatusInv
<1>11. ASSUME NEW x \in Txs, Abort(x) PROVE AttachInv'
  BY <1>11 DEF Abort, End, history
<1>12. CASE UNCHANGED vars
  BY <1>12 DEF vars
<1> QED
  BY <1>1, <1>2, <1>3, <1>4, <1>5, <1>6, <1>7, <1>8, <1>9, <1>10, <1>11, <1>12 DEF Next

LEMMA SafetyIInv == Spec => []IInv
<1>1. IInv /\ [Next]_vars => IInv'
  BY TypeStep, SingleStep, StatusStep, AttachStep DEF IInv
<1> QED
  BY <1>1, InitIInv, PTL DEF Spec

\* Every variable of programs, materials and transactions keeps its type.
THEOREM TypeCorrect == Spec => []TypeOK
<1>1. IInv => TypeOK
  BY DEF IInv
<1> QED
  BY <1>1, SafetyIInv, PTL

\* However uploads interleave, there is never more than one active program.
THEOREM OneProgram == Spec => []OneActiveProgram
<1>1. IInv => OneActiveProgram
  <2> SUFFICES ASSUME SingleInv PROVE Cardinality(Active) <= 1
    BY DEF IInv, OneActiveProgram
  <2>1. CASE Active = {}
    BY <2>1, FS_EmptySet
  <2>2. ASSUME NEW p \in Active PROVE Cardinality(Active) <= 1
    <3>1. Active = {p}
      BY <2>2 DEF SingleInv
    <3> QED
      BY <3>1, FS_Singleton
  <2> QED
    BY <2>1, <2>2
<1> QED
  BY <1>1, SafetyIInv, PTL

\* No upload, whether it succeeds or fails, leaves a tenant without a program.
THEOREM ProgramKept == Spec => ProgramNeverLost
<1>1. IInv /\ [Next]_vars => [Active # {} => Active' # {}]_vars
  BY SingleStep DEF IInv
<1> QED
  BY <1>1, SafetyIInv, PTL DEF Spec, ProgramNeverLost

\* An attach request that met no other leaves exactly the topics it was sent for.
THEOREM AttachSets == Spec => SerialAttachSets
<1> DEFINE Sets ==
      \A r \in Attaches \ overlap :
        pc[r] = "written" /\ pc'[r] = "done" /\ doc[target[r]] # "gone" =>
          {t \in Topics : <<target[r], t>> \in topics'} = wanted[r]
<1>1. IInv /\ [Next]_vars => [Sets]_vars
  <2> SUFFICES ASSUME IInv, Next, NEW r \in Attaches \ overlap, pc[r] = "written",
                      pc'[r] = "done", doc[target[r]] # "gone"
               PROVE  {t \in Topics : <<target[r], t>> \in topics'} = wanted[r]
    OBVIOUS
  <2>1. CommitTopics(r)
    BY CoverageAssumption DEF Next, ReadActive, ReplaceProgram, ReplaceFails, IndexDocument,
       DeleteDocument, ResolveTopics, ReadCurrent, WriteTopics, WriteFails, CommitTopics,
       WriteStatus, CommitStatus, Abort, End, txs, Txs, IInv, TypeOK
  <2>2. /\ add[r] = wanted[r] \ Covers(target[r]) /\ del[r] = Covers(target[r]) \ wanted[r]
        /\ wanted[r] \subseteq Topics /\ target[r] \in Docs
    BY DEF IInv, AttachInv, TypeOK, Txs
  <2>3. topics' = (topics \ ({target[r]} \X del[r])) \cup ({target[r]} \X add[r])
    BY <2>1 DEF CommitTopics
  <2> QED
    BY <2>2, <2>3 DEF Covers
<1> QED
  BY <1>1, SafetyIInv, PTL DEF Spec, SerialAttachSets

-----------------------------------------------------------------------------
(***************************************************************************)
(* What the counters hold.  A transaction that has written and is not      *)
(* committed yet will add to them what its document counts when it commits *)
(* (but for the topics over which it raced with a change of status).       *)
(***************************************************************************)

\* An attach request that has written: its rows of material_topics can still be
\* inserted and deleted, and its document still counts as its triggers took it to.
WroteTopics(r) ==
  LET d == target[r] IN
  /\ del[r] \subseteq Covers(d) /\ add[r] \cap Covers(d) = {}
  /\ add[r] # {} => d \in Present
  /\ \A t \in Topics \ raced : delta[r][t] = IF t \in add[r] THEN Counts(d)
                                             ELSE IF t \in del[r] THEN - Counts(d) ELSE 0

\* A change of status that has written: it is still a change, and of the same
\* topics.
WroteStatus(f) ==
  LET d == target[f] IN
  /\ d \in Present /\ doc[d] # new[f]
  /\ \A t \in Topics \ raced : delta[f][t] = IF t \notin Covers(d) THEN 0
                                             ELSE IF new[f] = "active" THEN Chunks[d]
                                             ELSE - Chunks[d]

\* Two attach requests that have written to a document have other rows; two
\* changes of status do not meet; and what an attach request wrote beside a
\* change of status is what they race for.
Apart(x, y) ==
  /\ x \in Attaches /\ y \in Attaches => (add[x] \cup del[x]) \cap (add[y] \cup del[y]) = {}
  /\ x \in Attaches /\ y \in Flips => add[x] \cup del[x] \subseteq raced
  /\ ~ (x \in Flips /\ y \in Flips)

LedgerInv ==
  /\ \A d \in Docs : Covers(d) # {} => d \in Present
  /\ \A r \in Attaches : pc[r] \in Busy => doc[target[r]] # "none"
  /\ \A r \in Attaches : pc[r] = "written" => WroteTopics(r)
  /\ \A f \in Flips : pc[f] = "written" => WroteStatus(f)
  /\ \A d \in Docs : \A x, y \in Open(d) : x # y => Apart(x, y)

-----------------------------------------------------------------------------
(* Counting chunks *)

ChunksOf(D)  == {c \in AllChunks : c[1] \in D}
LiveDocs(t)  == {d \in Docs : doc[d] = "active" /\ <<d, t>> \in topics}

LEMMA ChunksFinite == IsFiniteSet(AllChunks)
<1> DEFINE row == [d \in Docs |-> {d} \X (1 .. Chunks[d])]
           S   == {row[d] : d \in Docs}
<1>1. \A d \in Docs : IsFiniteSet(row[d])
  <2> TAKE d \in Docs
  <2>1. IsFiniteSet({d}) /\ IsFiniteSet(1 .. Chunks[d])
    <3>1. Chunks[d] \in Int /\ 1 \in Int
      BY CoverageAssumption
    <3> QED
      BY <3>1, FS_Singleton, FS_Interval
  <2> QED
    BY <2>1, FS_Product
<1>2. row \in Surjection(Docs, S)
  BY DEF Surjection
<1> HIDE DEF row
<1>3. IsFiniteSet(S)
  BY <1>2, CoverageAssumption, FS_Surjection
<1>4. \A s \in S : IsFiniteSet(s)
  BY <1>1
<1>5. IsFiniteSet(UNION S)
  BY <1>3, <1>4, FS_UNION
<1> QED
  BY <1>5 DEF AllChunks, row

\* A document more or less among those counted is its chunks more or less.
LEMMA ChunksAdd ==
  ASSUME NEW D, NEW d \in Docs, d \notin D
  PROVE  /\ Cardinality(ChunksOf(D)) \in Nat
         /\ Cardinality(ChunksOf(D \cup {d})) = Cardinality(ChunksOf(D)) + Chunks[d]
<1> DEFINE R == {d} \X (1 .. Chunks[d])
<1>1. IsFiniteSet(R) /\ Cardinality(R) = Chunks[d]
  <2>1. /\ IsFiniteSet({d}) /\ Cardinality({d}) = 1 /\ Chunks[d] \in Nat
        /\ IsFiniteSet(1 .. Chunks[d]) /\ Cardinality(1 .. Chunks[d]) = Chunks[d]
    <3>1. Chunks[d] \in Nat \ {0} /\ Chunks[d] \in Int /\ 1 \in Int
      BY CoverageAssumption
    <3>2. /\ IsFiniteSet(1 .. Chunks[d])
          /\ Cardinality(1 .. Chunks[d]) = IF 1 > Chunks[d] THEN 0 ELSE Chunks[d] - 1 + 1
      BY <3>1, FS_Interval
    <3>3. Cardinality(1 .. Chunks[d]) = Chunks[d]
      BY <3>1, <3>2
    <3> QED
      BY <3>1, <3>2, <3>3, FS_Singleton
  <2>2. IsFiniteSet(R) /\ Cardinality(R) = Cardinality({d}) * Cardinality(1 .. Chunks[d])
    BY <2>1, FS_Product
  <2> QED
    BY <2>1, <2>2
<1>2. IsFiniteSet(ChunksOf(D)) /\ Cardinality(ChunksOf(D)) \in Nat
  <2>1. ChunksOf(D) \in SUBSET AllChunks
    BY DEF ChunksOf
  <2> QED
    BY <2>1, ChunksFinite, FS_Subset, FS_CardinalityType
<1>3. ChunksOf(D \cup {d}) = ChunksOf(D) \cup R /\ ChunksOf(D) \cap R = {}
  BY DEF ChunksOf, AllChunks
<1>4. Cardinality(ChunksOf(D) \cup R) = Cardinality(ChunksOf(D)) + Chunks[d]
  <2>1. Cardinality(ChunksOf(D) \cup R) =
          Cardinality(ChunksOf(D)) + Cardinality(R) - Cardinality({})
    BY <1>1, <1>2, <1>3, FS_Union
  <2>2. Cardinality({}) = 0 /\ Chunks[d] \in Nat
    BY FS_EmptySet, CoverageAssumption
  <2> QED
    BY <1>1, <1>2, <2>1, <2>2
<1> QED
  BY <1>2, <1>3, <1>4

LEMMA LiveIs == \A t : Live(t) = Cardinality(ChunksOf(LiveDocs(t)))
<1> TAKE t
<1>1. ChunksOf(LiveDocs(t)) = {c \in AllChunks : doc[c[1]] = "active" /\ <<c[1], t>> \in topics}
  BY DEF ChunksOf, LiveDocs, AllChunks
<1> QED
  BY <1>1 DEF Live

LEMMA LiveNat == \A t : Live(t) \in Nat
<1> TAKE t
<1>1. ChunksOf(LiveDocs(t)) \in SUBSET AllChunks
  BY DEF ChunksOf
<1> QED
  BY <1>1, LiveIs, ChunksFinite, FS_Subset, FS_CardinalityType

LEMMA LiveSame ==
  ASSUME NEW t, LiveDocs(t)' = LiveDocs(t)
  PROVE  Live(t)' = Live(t)
<1>1. Live(t)' = Cardinality(ChunksOf(LiveDocs(t)'))
  <2>1. ChunksOf(LiveDocs(t)') = {c \in AllChunks : doc'[c[1]] = "active" /\ <<c[1], t>> \in topics'}
    BY DEF ChunksOf, LiveDocs, AllChunks
  <2> QED
    BY <2>1 DEF Live
<1> QED
  BY <1>1, LiveIs

LEMMA LiveMore ==
  ASSUME NEW t, NEW d \in Docs, d \notin LiveDocs(t), LiveDocs(t)' = LiveDocs(t) \cup {d}
  PROVE  Live(t)' = Live(t) + Chunks[d]
<1>1. Live(t)' = Cardinality(ChunksOf(LiveDocs(t)'))
  <2>1. ChunksOf(LiveDocs(t)') = {c \in AllChunks : doc'[c[1]] = "active" /\ <<c[1], t>> \in topics'}
    BY DEF ChunksOf, LiveDocs, AllChunks
  <2> QED
    BY <2>1 DEF Live
<1> QED
  BY <1>1, LiveIs, ChunksAdd

LEMMA LiveLess ==
  ASSUME NEW t, NEW d \in LiveDocs(t), LiveDocs(t)' = LiveDocs(t) \ {d}
  PROVE  Live(t) = Live(t)' + Chunks[d] /\ Live(t)' \in Nat
<1>1. Live(t)' = Cardinality(ChunksOf(LiveDocs(t)'))
  <2>1. ChunksOf(LiveDocs(t)') = {c \in AllChunks : doc'[c[1]] = "active" /\ <<c[1], t>> \in topics'}
    BY DEF ChunksOf, LiveDocs, AllChunks
  <2> QED
    BY <2>1 DEF Live
<1>2. d \in Docs /\ d \notin LiveDocs(t)' /\ LiveDocs(t)' \cup {d} = LiveDocs(t)
  BY DEF LiveDocs
<1> QED
  BY <1>1, <1>2, LiveIs, ChunksAdd

-----------------------------------------------------------------------------
(* Steps of the ledger *)

LEMMA InitLedger == Init => LedgerInv /\ CoverageExplained
<1> SUFFICES ASSUME Init PROVE LedgerInv /\ CoverageExplained
  OBVIOUS
<1>1. LedgerInv
  BY CoverageAssumption DEF Init, LedgerInv, Covers, Open, Txs, Busy
<1>2. ASSUME NEW t \in Topics
      PROVE  coverage[t] = Live(t) + leaked[t]
  <2>1. ChunksOf(LiveDocs(t)) = {}
    BY DEF Init, ChunksOf, LiveDocs
  <2>2. Live(t) = 0
    BY <2>1, LiveIs, FS_EmptySet
  <2> QED
    BY <2>2 DEF Init, Zero
<1> QED
  BY <1>1, <1>2 DEF CoverageExplained

\* What a transaction has written, and its document, are as they were.
Same(x) == /\ target'[x] = target[x] /\ add'[x] = add[x] /\ del'[x] = del[x]
           /\ new'[x] = new[x] /\ delta'[x] = delta[x]

LEMMA WroteSame ==
  ASSUME NEW x, Same(x), NEW d, d = target[x], raced \subseteq raced',
         doc'[d] = doc[d], Covers(d)' = Covers(d)
  PROVE  /\ WroteTopics(x) => WroteTopics(x)'
         /\ WroteStatus(x) => WroteStatus(x)'
<1>1. /\ target'[x] = d /\ target[x] = d /\ Topics \ raced' \subseteq Topics \ raced
      /\ Counts(d)' = Counts(d) /\ (d \in Present' <=> d \in Present)
  BY DEF Same, Counts, Present
<1>2. ASSUME WroteTopics(x)
      PROVE  WroteTopics(x)'
  <2>1. /\ del[x] \subseteq Covers(d) /\ add[x] \cap Covers(d) = {}
        /\ add[x] # {} => d \in Present
        /\ \A t \in Topics \ raced : delta[x][t] = IF t \in add[x] THEN Counts(d)
                                                   ELSE IF t \in del[x] THEN - Counts(d) ELSE 0
    BY <1>1, <1>2 DEF WroteTopics
  <2> SUFFICES /\ del'[x] \subseteq Covers(d)' /\ add'[x] \cap Covers(d)' = {}
               /\ add'[x] # {} => d \in Present'
               /\ \A t \in Topics \ raced' :
                    delta'[x][t] = IF t \in add'[x] THEN Counts(d)'
                                   ELSE IF t \in del'[x] THEN - Counts(d)' ELSE 0
    BY <1>1 DEF WroteTopics, Covers, Counts
  <2> QED
    BY <1>1, <2>1 DEF Same
<1>3. ASSUME WroteStatus(x)
      PROVE  WroteStatus(x)'
  <2>1. /\ d \in Present /\ doc[d] # new[x]
        /\ \A t \in Topics \ raced : delta[x][t] = IF t \notin Covers(d) THEN 0
                                                   ELSE IF new[x] = "active" THEN Chunks[d]
                                                   ELSE - Chunks[d]
    BY <1>1, <1>3 DEF WroteStatus
  <2> SUFFICES /\ d \in Present' /\ doc'[d] # new'[x]
               /\ \A t \in Topics \ raced' :
                    delta'[x][t] = IF t \notin Covers(d)' THEN 0
                                   ELSE IF new'[x] = "active" THEN Chunks[d] ELSE - Chunks[d]
    BY <1>1 DEF WroteStatus, Covers
  <2> QED
    BY <1>1, <2>1 DEF Same
<1> QED
  BY <1>2, <1>3

LEMMA ApartSame ==
  ASSUME NEW x, NEW y, Same(x), Same(y), raced \subseteq raced', Apart(x, y)
  PROVE  Apart(x, y)'
BY DEF Same, Apart

\* A step that lets alone what the transactions but those of Z have written, and
\* their documents.
Untouched(Z) ==
  \A x \in Txs \ Z : pc'[x] = "written" =>
    /\ pc[x] = "written" /\ Same(x) /\ doc'[target[x]] = doc[target[x]]
    /\ \A t \in Topics : <<target[x], t>> \in topics' <=> <<target[x], t>> \in topics

LEMMA LedgerFrame ==
  ASSUME IInv, LedgerInv, NEW Z, Untouched(Z), raced \subseteq raced'
  PROVE  /\ \A r \in Attaches \ Z : pc'[r] = "written" => WroteTopics(r)'
         /\ \A f \in Flips \ Z : pc'[f] = "written" => WroteStatus(f)'
         /\ \A d \in Docs : \A x, y \in Open(d)' \ Z : x # y => Apart(x, y)'
<1>1. \A x \in Txs \ Z : pc'[x] = "written" =>
        /\ pc[x] = "written" /\ Same(x)
        /\ \A d : d = target[x] => doc'[d] = doc[d] /\ Covers(d)' = Covers(d)
  BY DEF Untouched, Covers
<1>2. \A r \in Attaches \ Z : pc'[r] = "written" => WroteTopics(r)'
  BY <1>1, WroteSame DEF LedgerInv, Txs
<1>3. \A f \in Flips \ Z : pc'[f] = "written" => WroteStatus(f)'
  BY <1>1, WroteSame DEF LedgerInv, Txs
<1>4. ASSUME NEW d \in Docs, NEW x \in Open(d)' \ Z, NEW y \in Open(d)' \ Z, x # y
      PROVE  Apart(x, y)'
  <2>1. x \in Open(d) /\ y \in Open(d) /\ Same(x) /\ Same(y)
    BY <1>1, <1>4 DEF Open, Same
  <2> QED
    BY <1>4, <2>1, ApartSame DEF LedgerInv
<1> QED
  BY <1>2, <1>3, <1>4

LEMMA QuietStep ==
  ASSUME IInv, LedgerInv, Untouched({}), raced \subseteq raced',
         \A d \in Docs : Covers(d)' # {} => d \in Present',
         \A r \in Attaches : pc'[r] \in Busy => doc'[target'[r]] # "none"
  PROVE  LedgerInv'
BY LedgerFrame DEF LedgerInv

LEMMA WriteTopicsLedger ==
  ASSUME IInv, LedgerInv, NEW r \in Attaches, WriteTopics(r)
  PROVE  LedgerInv'
<1> USE CoverageAssumption DEF Txs
<1> DEFINE d == target[r]
<1>1. /\ d \in Docs /\ pc[r] = "read" /\ add[r] \subseteq Topics
      /\ UNCHANGED <<doc, topics, target, add, new>>
      /\ pc' = [pc EXCEPT ![r] = "written"] /\ raced \subseteq raced'
      /\ \A x \in Txs \ {r} : pc'[x] = pc[x] /\ Same(x)
      /\ del'[r] = del[r] \cap Covers(d)
      /\ delta'[r] = [t \in Topics |-> IF t \in add[r] THEN Counts(d)
                                       ELSE IF t \in del[r] \cap Covers(d) THEN - Counts(d) ELSE 0]
  BY DEF WriteTopics, IInv, TypeOK, Same
<1>2. Untouched({r})
  BY <1>1 DEF Untouched
<1>3. \A e \in Docs : Covers(e)' = Covers(e) /\ Counts(e)' = Counts(e) /\ (e \in Present' <=> e \in Present)
  BY <1>1 DEF Covers, Counts, Present
<1>4. WroteTopics(r)'
  <2>1. target'[r] = d /\ add'[r] = add[r] /\ Covers(d)' = Covers(d) /\ Counts(d)' = Counts(d)
    BY <1>1, <1>3
  <2>2. add[r] \cap Covers(d) = {}
    BY DEF WriteTopics, Violates
  <2>3. add[r] # {} => d \in Present
    BY <1>1 DEF WriteTopics, Violates, LedgerInv, IInv, TypeOK, Present, DocStatus, Busy
  <2> SUFFICES /\ del'[r] \subseteq Covers(d) /\ add[r] \cap Covers(d) = {}
               /\ add[r] # {} => d \in Present
               /\ \A t \in Topics \ raced' :
                    delta'[r][t] = IF t \in add[r] THEN Counts(d)
                                   ELSE IF t \in del'[r] THEN - Counts(d) ELSE 0
    BY <1>1, <1>3, <2>1 DEF WroteTopics, Covers, Counts
  <2> QED
    BY <1>1, <2>2, <2>3
<1>5. \A x \in Open(d) : x \in Attaches =>
        (add[x] \cup del[x]) \cap (add[r] \cup (del[r] \cap Covers(d))) = {}
  BY DEF WriteTopics, Blocked
<1>6. \A x \in Open(d) : x \in Flips => add[r] \cup (del[r] \cap Covers(d)) \subseteq raced'
  BY DEF WriteTopics
<1>7. \A e \in Docs : r \in Open(e)' => e = d /\ \A x \in Open(e)' \ {r} : x \in Open(d)
  BY <1>1 DEF Open
<1>8. \A x \in Open(d) \ {r} : Apart(x, r)' /\ Apart(r, x)'
  BY <1>1, <1>5, <1>6 DEF Apart, Open, Same
<1>9. \A e \in Docs : \A x, y \in Open(e)' : x # y => Apart(x, y)'
  <2>1. ASSUME NEW e \in Docs, NEW x \in Open(e)', NEW y \in Open(e)', x # y
        PROVE  Apart(x, y)'
    <3>1. CASE x # r /\ y # r
      <4>1. \A z \in Docs : \A u, v \in Open(z)' \ {r} : u # v => Apart(u, v)'
        BY <1>1, <1>2, LedgerFrame
      <4> QED
        BY <2>1, <3>1, <4>1
    <3>2. CASE x = r
      BY <1>7, <1>8, <2>1, <3>2
    <3>3. CASE y = r
      BY <1>7, <1>8, <2>1, <3>3
    <3> QED
      BY <3>1, <3>2, <3>3
  <2> QED
    BY <2>1
<1>10. /\ \A q \in Attaches : pc'[q] = "written" => WroteTopics(q)'
       /\ \A f \in Flips : pc'[f] = "written" => WroteStatus(f)'
  BY <1>1, <1>2, <1>4, LedgerFrame
<1>11. \A q \in Attaches : pc'[q] \in Busy => doc'[target'[q]] # "none"
  BY <1>1 DEF LedgerInv, Busy, IInv, TypeOK
<1>12. \A e \in Docs : Covers(e)' # {} => e \in Present'
  BY <1>3 DEF LedgerInv
<1> QED
  BY <1>9, <1>10, <1>11, <1>12 DEF LedgerInv

LEMMA WriteStatusLedger ==
  ASSUME IInv, LedgerInv, NEW f \in Flips, NEW d \in Docs, NEW s \in {"active", "superseded"},
         WriteStatus(f, d, s)
  PROVE  LedgerInv'
<1> USE CoverageAssumption DEF Txs
<1>1. /\ d \in Present /\ doc[d] # s
      /\ UNCHANGED <<doc, topics, add, del>>
      /\ pc' = [pc EXCEPT ![f] = "written"] /\ raced \subseteq raced'
      /\ target'[f] = d /\ new'[f] = s
      /\ \A x \in Txs \ {f} : pc'[x] = pc[x] /\ Same(x)
      /\ delta'[f] = [t \in Topics |-> IF t \notin Covers(d) THEN 0
                                       ELSE IF s = "active" THEN Chunks[d] ELSE - Chunks[d]]
  BY DEF WriteStatus, IInv, TypeOK, Same
<1>2. Untouched({f})
  BY <1>1 DEF Untouched
<1>3. \A e \in Docs : Covers(e)' = Covers(e) /\ (e \in Present' <=> e \in Present)
  BY <1>1 DEF Covers, Present
<1>4. WroteStatus(f)'
  <2> SUFFICES /\ d \in Present /\ doc[d] # s
               /\ \A t \in Topics \ raced' : delta'[f][t] = IF t \notin Covers(d) THEN 0
                                                            ELSE IF s = "active" THEN Chunks[d]
                                                            ELSE - Chunks[d]
    BY <1>1, <1>3 DEF WroteStatus, Covers, Present
  <2> QED
    BY <1>1
<1>5. \A x \in Open(d) : x \notin Flips /\ add[x] \cup del[x] \subseteq raced'
  BY DEF WriteStatus
<1>6. \A e \in Docs : f \in Open(e)' => e = d /\ \A x \in Open(e)' \ {f} : x \in Open(d)
  BY <1>1 DEF Open, Same
<1>7. \A x \in Open(d) \ {f} : Apart(x, f)' /\ Apart(f, x)'
  BY <1>1, <1>5 DEF Apart, Open
<1>8. \A e \in Docs : \A x, y \in Open(e)' : x # y => Apart(x, y)'
  <2>1. ASSUME NEW e \in Docs, NEW x \in Open(e)', NEW y \in Open(e)', x # y
        PROVE  Apart(x, y)'
    <3>1. CASE x # f /\ y # f
      <4>1. \A z \in Docs : \A u, v \in Open(z)' \ {f} : u # v => Apart(u, v)'
        BY <1>1, <1>2, LedgerFrame
      <4> QED
        BY <2>1, <3>1, <4>1
    <3>2. CASE x = f
      BY <1>6, <1>7, <2>1, <3>2
    <3>3. CASE y = f
      BY <1>6, <1>7, <2>1, <3>3
    <3> QED
      BY <3>1, <3>2, <3>3
  <2> QED
    BY <2>1
<1>9. /\ \A q \in Attaches : pc'[q] = "written" => WroteTopics(q)'
      /\ \A g \in Flips : pc'[g] = "written" => WroteStatus(g)'
  BY <1>1, <1>2, <1>4, LedgerFrame
<1>10. \A q \in Attaches : pc'[q] \in Busy => doc'[target'[q]] # "none"
  BY <1>1 DEF LedgerInv, Busy, Same
<1>11. \A e \in Docs : Covers(e)' # {} => e \in Present'
  BY <1>3 DEF LedgerInv
<1> QED
  BY <1>8, <1>9, <1>10, <1>11 DEF LedgerInv

LEMMA CommitTopicsLedger ==
  ASSUME IInv, LedgerInv, NEW r \in Attaches, CommitTopics(r)
  PROVE  LedgerInv'
<1> USE CoverageAssumption DEF Txs
<1>0. PICK d \in Docs : d = target[r]
  BY DEF IInv, TypeOK
<1>1. /\ d \in Docs /\ pc[r] = "written"
      /\ topics' = (topics \ ({d} \X del[r])) \cup ({d} \X add[r])
      /\ UNCHANGED <<doc, raced>>
      /\ pc' = [pc EXCEPT ![r] = "done"] /\ pc'[r] = "done" /\ target[r] = d
      /\ \A x \in Txs \ {r} : pc'[x] = pc[x] /\ Same(x)
  BY <1>0 DEF CommitTopics, End, IInv, TypeOK, Same, history
<1>2. /\ \A e \in Docs \ {d} : Covers(e)' = Covers(e)
      /\ Covers(d)' = (Covers(d) \ del[r]) \cup add[r]
      /\ \A e \in Docs : Counts(e)' = Counts(e) /\ (e \in Present' <=> e \in Present)
  BY <1>1 DEF Covers, Counts, Present, IInv, TypeOK
<1>3. WroteTopics(r) /\ \A x \in Open(d) \ {r} : Apart(x, r) /\ Apart(r, x)
  BY <1>1 DEF LedgerInv, Open
<1>4. ASSUME NEW x \in Attaches, pc'[x] = "written"
      PROVE  WroteTopics(x)'
  <2>1. x # r /\ pc[x] = "written" /\ Same(x) /\ target[x] \in Docs /\ WroteTopics(x)
    BY <1>1, <1>4 DEF LedgerInv, IInv, TypeOK
  <2>2. CASE target[x] # d
    BY <1>1, <1>2, <2>1, <2>2, WroteSame
  <2>3. CASE target[x] = d
    <3>1. Apart(x, r)
      BY <1>3, <2>1, <2>3 DEF Open
    <3>2. (add[x] \cup del[x]) \cap (add[r] \cup del[r]) = {}
      BY <3>1 DEF Apart
    <3>3. /\ del[x] \subseteq Covers(d) /\ add[x] \cap Covers(d) = {}
          /\ add[x] # {} => d \in Present
          /\ \A t \in Topics \ raced : delta[x][t] = IF t \in add[x] THEN Counts(d)
                                                     ELSE IF t \in del[x] THEN - Counts(d) ELSE 0
      BY <2>1, <2>3 DEF WroteTopics
    <3>4. target'[x] = d /\ add'[x] = add[x] /\ del'[x] = del[x] /\ delta'[x] = delta[x]
      BY <2>1, <2>3 DEF Same
    <3> SUFFICES /\ del[x] \subseteq Covers(d)' /\ add[x] \cap Covers(d)' = {}
                 /\ add[x] # {} => d \in Present'
                 /\ \A t \in Topics \ raced' :
                      delta[x][t] = IF t \in add[x] THEN Counts(d)'
                                    ELSE IF t \in del[x] THEN - Counts(d)' ELSE 0
      BY <1>1, <3>4 DEF WroteTopics, Covers, Counts
    <3> QED
      BY <1>1, <1>2, <3>2, <3>3
  <2> QED
    BY <2>2, <2>3
<1>5. ASSUME NEW f \in Flips, pc'[f] = "written"
      PROVE  WroteStatus(f)'
  <2>1. f # r /\ pc[f] = "written" /\ Same(f) /\ target[f] \in Docs /\ WroteStatus(f)
    BY <1>1, <1>5 DEF LedgerInv, IInv, TypeOK
  <2>2. CASE target[f] # d
    BY <1>1, <1>2, <2>1, <2>2, WroteSame
  <2>3. CASE target[f] = d
    <3>1. Apart(r, f)
      BY <1>3, <2>1, <2>3 DEF Open
    <3>2. add[r] \cup del[r] \subseteq raced
      BY <3>1 DEF Apart
    <3>3. \A t \in Topics \ raced : t \in Covers(d)' <=> t \in Covers(d)
      BY <1>2, <3>2
    <3>4. /\ d \in Present /\ doc[d] # new[f]
          /\ \A t \in Topics \ raced : delta[f][t] = IF t \notin Covers(d) THEN 0
                                                     ELSE IF new[f] = "active" THEN Chunks[d]
                                                     ELSE - Chunks[d]
      BY <2>1, <2>3 DEF WroteStatus
    <3>5. target'[f] = d /\ new'[f] = new[f] /\ delta'[f] = delta[f]
      BY <2>1, <2>3 DEF Same
    <3> SUFFICES /\ d \in Present' /\ doc[d] # new[f]
                 /\ \A t \in Topics \ raced : delta[f][t] = IF t \notin Covers(d)' THEN 0
                                                            ELSE IF new[f] = "active"
                                                                 THEN Chunks[d] ELSE - Chunks[d]
      BY <1>1, <3>5 DEF WroteStatus, Covers
    <3> QED
      BY <1>2, <3>3, <3>4
  <2> QED
    BY <2>2, <2>3
<1>6. \A e \in Docs : \A x, y \in Open(e)' : x # y => Apart(x, y)'
  <2>1. ASSUME NEW e \in Docs, NEW x \in Open(e)', NEW y \in Open(e)', x # y
        PROVE  Apart(x, y)'
    <3>1. x \in Open(e) /\ y \in Open(e) /\ Same(x) /\ Same(y)
      BY <1>0, <1>1 DEF Open, Same, IInv, TypeOK
    <3> QED
      BY <1>1, <2>1, <3>1, ApartSame DEF LedgerInv
  <2> QED
    BY <2>1
<1>7. \A q \in Attaches : pc'[q] \in Busy => doc'[target'[q]] # "none"
  BY <1>1 DEF LedgerInv, Busy, Same, IInv, TypeOK
<1>8. \A e \in Docs : Covers(e)' # {} => e \in Present'
  <2>1. ASSUME NEW e \in Docs, Covers(e)' # {}
        PROVE  e \in Present'
    <3>1. Covers(e) # {} \/ (e = d /\ add[r] # {})
      BY <1>2, <2>1
    <3> QED
      BY <1>0, <1>2, <1>3, <3>1 DEF LedgerInv, WroteTopics
  <2> QED
    BY <2>1
<1> QED
  BY <1>4, <1>5, <1>6, <1>7, <1>8 DEF LedgerInv

LEMMA CommitStatusLedger ==
  ASSUME IInv, LedgerInv, NEW f \in Flips, CommitStatus(f)
  PROVE  LedgerInv'
<1> USE CoverageAssumption DEF Txs
<1>0. PICK d \in Docs : d = target[f]
  BY DEF IInv, TypeOK
<1>1. /\ d \in Docs /\ pc[f] = "written" /\ new[f] \in DocStatus
      /\ UNCHANGED <<topics, raced>>
      /\ doc' = [doc EXCEPT ![d] = new[f]]
      /\ pc' = [pc EXCEPT ![f] = "done"] /\ pc'[f] = "done" /\ target[f] = d
      /\ \A x \in Txs \ {f} : pc'[x] = pc[x] /\ Same(x)
  BY <1>0 DEF CommitStatus, End, IInv, TypeOK, Same, history
<1>2. /\ \A e \in Docs : Covers(e)' = Covers(e)
      /\ \A e \in Docs \ {d} : doc'[e] = doc[e]
      /\ doc'[d] \in DocStatus /\ d \in Present'
      /\ \A e \in Present : e \in Present'
  BY <1>1 DEF Covers, Present, IInv, TypeOK, DocStatus
<1>3. \A x \in Open(d) \ {f} : Apart(x, f)
  BY <1>1 DEF LedgerInv, Open
<1>4. ASSUME NEW x \in Attaches, pc'[x] = "written"
      PROVE  WroteTopics(x)'
  <2>1. x # f /\ pc[x] = "written" /\ Same(x) /\ target[x] \in Docs /\ WroteTopics(x)
    BY <1>1, <1>4 DEF LedgerInv, IInv, TypeOK
  <2>2. CASE target[x] # d
    BY <1>1, <1>2, <2>1, <2>2, WroteSame
  <2>3. CASE target[x] = d
    <3>1. Apart(x, f)
      BY <1>3, <2>1, <2>3 DEF Open
    <3>2. add[x] \cup del[x] \subseteq raced
      BY <3>1 DEF Apart
    <3>3. /\ del[x] \subseteq Covers(d) /\ add[x] \cap Covers(d) = {}
          /\ \A t \in Topics \ raced : delta[x][t] = 0
      BY <2>1, <2>3, <3>2 DEF WroteTopics
    <3>4. target'[x] = d /\ add'[x] = add[x] /\ del'[x] = del[x] /\ delta'[x] = delta[x]
      BY <2>1, <2>3 DEF Same
    <3> SUFFICES /\ del[x] \subseteq Covers(d)' /\ add[x] \cap Covers(d)' = {}
                 /\ d \in Present'
                 /\ \A t \in Topics \ raced :
                      delta[x][t] = IF t \in add[x] THEN Counts(d)'
                                    ELSE IF t \in del[x] THEN - Counts(d)' ELSE 0
      BY <1>1, <3>4 DEF WroteTopics, Covers, Counts
    <3> QED
      BY <1>1, <1>2, <3>2, <3>3
  <2> QED
    BY <2>2, <2>3
<1>5. ASSUME NEW g \in Flips, pc'[g] = "written"
      PROVE  WroteStatus(g)'
  <2>1. g # f /\ pc[g] = "written" /\ Same(g) /\ target[g] \in Docs /\ WroteStatus(g)
    BY <1>1, <1>5 DEF LedgerInv, IInv, TypeOK
  <2>2. target[g] # d
    BY <1>3, <2>1 DEF Apart, Open
  <2> QED
    BY <1>1, <1>2, <2>1, <2>2, WroteSame
<1>6. \A e \in Docs : \A x, y \in Open(e)' : x # y => Apart(x, y)'
  <2>1. ASSUME NEW e \in Docs, NEW x \in Open(e)', NEW y \in Open(e)', x # y
        PROVE  Apart(x, y)'
    <3>1. x \in Open(e) /\ y \in Open(e) /\ Same(x) /\ Same(y)
      BY <1>0, <1>1 DEF Open, Same, IInv, TypeOK
    <3> QED
      BY <1>1, <2>1, <3>1, ApartSame DEF LedgerInv
  <2> QED
    BY <2>1
<1>7. \A q \in Attaches : pc'[q] \in Busy => doc'[target'[q]] # "none"
  BY <1>1 DEF LedgerInv, Busy, Same, IInv, TypeOK, DocStatus
<1>8. \A e \in Docs : Covers(e)' # {} => e \in Present'
  BY <1>2 DEF LedgerInv
<1> QED
  BY <1>4, <1>5, <1>6, <1>7, <1>8 DEF LedgerInv

LEMMA LedgerStep ==
  ASSUME IInv, LedgerInv, [Next]_vars
  PROVE  LedgerInv'
<1> USE CoverageAssumption DEF Txs
<1>1. ASSUME UNCHANGED <<doc, topics, raced>>, NEW x \in Txs,
             \A y \in Txs \ {x} : pc'[y] = pc[y] /\ Same(y),
             pc'[x] # "written", x \in Attaches /\ pc'[x] \in Busy => doc[target'[x]] # "none"
      PROVE  LedgerInv'
  <2>1. Untouched({})
    BY <1>1 DEF Untouched
  <2>2. \A d \in Docs : Covers(d)' # {} => d \in Present'
    BY <1>1 DEF LedgerInv, Covers, Present
  <2>3. \A r \in Attaches : pc'[r] \in Busy => doc'[target'[r]] # "none"
    BY <1>1 DEF LedgerInv, Same
  <2> QED
    BY <1>1, <2>1, <2>2, <2>3, QuietStep
<1>2. ASSUME NEW x \in Txs, NEW how \in {"done", "failed"}, End(x, how),
             UNCHANGED <<doc, topics, raced>>
      PROVE  LedgerInv'
  BY <1>1, <1>2 DEF End, Same, Busy, IInv, TypeOK
<1>3. ASSUME NEW r \in Attaches, ResolveTopics(r) PROVE LedgerInv'
  BY <1>1, <1>3 DEF ResolveTopics, Same, Present, IInv, TypeOK
<1>4. ASSUME NEW r \in Attaches, ReadCurrent(r) PROVE LedgerInv'
  <2>1. doc[target'[r]] # "none"
    BY <1>4 DEF ReadCurrent, LedgerInv, Busy
  <2> QED
    BY <1>1, <1>4, <2>1 DEF ReadCurrent, Same, history, IInv, TypeOK
<1>5. ASSUME UNCHANGED txs, raced' = raced, NEW d \in Docs, Open(d) = {},
             \A r \in Attaches : pc[r] \in Busy /\ target[r] = d => doc'[d] # "none",
             \A e \in Docs \ {d} : doc'[e] = doc[e],
             \A e \in Docs \ {d}, t \in Topics : <<e, t>> \in topics' <=> <<e, t>> \in topics,
             Covers(d)' # {} => d \in Present'
      PROVE  LedgerInv'
  <2>1. Untouched({})
    BY <1>5 DEF Untouched, txs, Open, Same, IInv, TypeOK
  <2>2. \A e \in Docs : Covers(e)' # {} => e \in Present'
    BY <1>5 DEF LedgerInv, Covers, Present
  <2>3. \A r \in Attaches : pc'[r] \in Busy => doc'[target'[r]] # "none"
    BY <1>5 DEF LedgerInv, txs, IInv, TypeOK
  <2> QED
    BY <1>5, <2>1, <2>2, <2>3, QuietStep
<1>6. ASSUME NEW d \in Docs, IndexDocument(d) PROVE LedgerInv'
  <2>1. Open(d) = {}
    BY <1>6 DEF IndexDocument, Open, LedgerInv, Busy, WroteStatus, Present
  <2> QED
    BY <1>5, <1>6, <2>1 DEF IndexDocument, history, Present, IInv, TypeOK, Covers
<1>7. ASSUME NEW d \in Docs, DeleteDocument(d) PROVE LedgerInv'
  <2>1. /\ UNCHANGED txs /\ raced' = raced /\ Open(d) = {} /\ doc' = [doc EXCEPT ![d] = "gone"]
        /\ topics' = {m \in topics : m[1] # d}
    BY <1>7 DEF DeleteDocument
  <2>2. /\ doc'[d] = "gone" /\ \A e \in Docs \ {d} : doc'[e] = doc[e]
        /\ \A e \in Docs, t \in Topics : <<e, t>> \in topics' <=> <<e, t>> \in topics /\ e # d
    BY <2>1 DEF IInv, TypeOK
  <2>3. Covers(d)' = {}
    BY <2>2 DEF Covers
  <2> QED
    BY <1>5, <2>1, <2>2, <2>3
<1>8. CASE UNCHANGED <<txs, doc, topics, raced>>
  <2>1. Untouched({})
    BY <1>8 DEF Untouched, Same, txs
  <2>2. /\ \A d \in Docs : Covers(d)' # {} => d \in Present'
        /\ \A r \in Attaches : pc'[r] \in Busy => doc'[target'[r]] # "none"
    BY <1>8 DEF LedgerInv, Covers, Present, txs
  <2> QED
    BY <1>8, <2>1, <2>2, QuietStep
<1>9. ASSUME NEW p \in Uploads, ReadActive(p) \/ ReplaceProgram(p) \/ ReplaceFails(p)
      PROVE  LedgerInv'
  BY <1>8, <1>9 DEF ReadActive, ReplaceProgram, ReplaceFails, history
<1>10. ASSUME NEW r \in Attaches, WriteFails(r) PROVE LedgerInv'
  BY <1>2, <1>10 DEF WriteFails, history
<1>11. ASSUME NEW x \in Txs, Abort(x) PROVE LedgerInv'
  BY <1>2, <1>11 DEF Abort, history
<1>12. CASE UNCHANGED vars
  BY <1>8, <1>12 DEF vars, txs
<1> QED
  BY <1>3, <1>4, <1>6, <1>7, <1>9, <1>10, <1>11, <1>12, WriteTopicsLedger, CommitTopicsLedger,
     WriteStatusLedger, CommitStatusLedger DEF Next

-----------------------------------------------------------------------------
(* The counters *)

\* A commit adds to a counter what makes it right again; it never falls below
\* zero, for what is taken from it was counted.
LEMMA CommitCounts ==
  ASSUME IInv, CoverageExplained, NEW x \in Txs, ApplyDeltas(x), leaked' = leaked,
         NEW t \in Topics \ raced, NEW d \in Docs,
         \/ delta[x][t] = 0 /\ LiveDocs(t)' = LiveDocs(t)
         \/ /\ delta[x][t] = Chunks[d] /\ d \notin LiveDocs(t)
            /\ LiveDocs(t)' = LiveDocs(t) \cup {d}
         \/ /\ delta[x][t] = - Chunks[d] /\ d \in LiveDocs(t)
            /\ LiveDocs(t)' = LiveDocs(t) \ {d}
  PROVE  coverage'[t] = Live(t)' + leaked'[t]
<1>1. /\ coverage[t] = Live(t) + leaked[t] /\ leaked[t] \in Nat /\ Live(t) \in Nat
      /\ Chunks[d] \in Nat
      /\ coverage'[t] = Counted(coverage[t] + delta[x][t])
  BY LiveNat, CoverageAssumption DEF CoverageExplained, ApplyDeltas, IInv, TypeOK
<1>2. CASE delta[x][t] = 0 /\ LiveDocs(t)' = LiveDocs(t)
  <2>1. Live(t)' = Live(t)
    BY <1>2, LiveSame
  <2> QED
    BY <1>1, <1>2, <2>1 DEF Counted
<1>3. CASE delta[x][t] = Chunks[d] /\ d \notin LiveDocs(t) /\ LiveDocs(t)' = LiveDocs(t) \cup {d}
  <2>1. Live(t)' = Live(t) + Chunks[d]
    BY <1>3, LiveMore
  <2> QED
    BY <1>1, <1>3, <2>1 DEF Counted
<1>4. CASE delta[x][t] = - Chunks[d] /\ d \in LiveDocs(t) /\ LiveDocs(t)' = LiveDocs(t) \ {d}
  <2>1. Live(t) = Live(t)' + Chunks[d] /\ Live(t)' \in Nat
    BY <1>4, LiveLess
  <2> QED
    BY <1>1, <1>4, <2>1 DEF Counted
<1> QED
  BY <1>2, <1>3, <1>4

LEMMA CountStep ==
  ASSUME IInv, LedgerInv, CoverageExplained, [Next]_vars
  PROVE  CoverageExplained'
<1> USE CoverageAssumption DEF Txs
<1>1. ASSUME UNCHANGED <<coverage, leaked>>, raced \subseteq raced',
             \A t \in Topics : LiveDocs(t)' = LiveDocs(t)
      PROVE  CoverageExplained'
  <2>1. \A t \in Topics : Live(t)' = Live(t)
    BY <1>1, LiveSame
  <2> QED
    BY <1>1, <2>1 DEF CoverageExplained
<1>2. ASSUME UNCHANGED <<coverage, leaked, doc, topics>>, raced \subseteq raced'
      PROVE  CoverageExplained'
  BY <1>1, <1>2 DEF LiveDocs
<1>3. ASSUME NEW d \in Docs, IndexDocument(d)
      PROVE  CoverageExplained'
  <2>1. /\ UNCHANGED <<coverage, leaked, raced, topics>>
        /\ \A e \in Docs \ {d} : doc'[e] = doc[e]
        /\ Covers(d) = {}
    BY <1>3 DEF IndexDocument, history, IInv, TypeOK, LedgerInv, Present
  <2>2. \A t \in Topics : LiveDocs(t)' = LiveDocs(t)
    BY <2>1 DEF LiveDocs, Covers
  <2> QED
    BY <1>1, <2>1, <2>2
<1>4. ASSUME NEW d \in Docs, DeleteDocument(d)
      PROVE  CoverageExplained'
  <2>1. /\ UNCHANGED <<coverage, raced>>
        /\ \A e \in Docs \ {d} : doc'[e] = doc[e]
        /\ doc'[d] = "gone"
        /\ \A e \in Docs, t \in Topics : <<e, t>> \in topics' <=> <<e, t>> \in topics /\ e # d
    BY <1>4 DEF DeleteDocument, IInv, TypeOK
  <2>2. \A t \in Topics : LiveDocs(t)' = LiveDocs(t) \ {d}
    BY <2>1 DEF LiveDocs
  <2> SUFFICES ASSUME NEW t \in Topics \ raced
               PROVE  coverage[t] = Live(t)' + leaked'[t]
    BY <2>1 DEF CoverageExplained
  <2>3. /\ coverage[t] = Live(t) + leaked[t] /\ leaked[t] \in Nat /\ Live(t) \in Nat
        /\ Chunks[d] \in Nat
        /\ leaked'[t] = IF d \in LiveDocs(t) THEN leaked[t] + Chunks[d] ELSE leaked[t]
    BY <1>4, LiveNat DEF CoverageExplained, IInv, TypeOK, DeleteDocument, LiveDocs, Covers
  <2>4. CASE d \in LiveDocs(t)
    <3>1. Live(t) = Live(t)' + Chunks[d] /\ Live(t)' \in Nat
      BY <2>2, <2>4, LiveLess
    <3> QED
      BY <2>3, <2>4, <3>1
  <2>5. CASE d \notin LiveDocs(t)
    <3>1. Live(t)' = Live(t)
      BY <2>2, <2>5, LiveSame
    <3> QED
      BY <2>3, <2>5, <3>1
  <2> QED
    BY <2>4, <2>5
<1>5. ASSUME NEW r \in Attaches, CommitTopics(r)
      PROVE  CoverageExplained'
  <2>0. PICK d \in Docs : d = target[r]
    BY DEF IInv, TypeOK
  <2>1. /\ ApplyDeltas(r) /\ UNCHANGED <<doc, raced, leaked>> /\ WroteTopics(r)
        /\ topics' = (topics \ ({d} \X del[r])) \cup ({d} \X add[r])
    BY <1>5, <2>0 DEF CommitTopics, history, LedgerInv
  <2> SUFFICES ASSUME NEW t \in Topics \ raced
               PROVE  coverage'[t] = Live(t)' + leaked'[t]
    BY <2>1 DEF CoverageExplained
  <2>2. /\ t \in del[r] => <<d, t>> \in topics
        /\ t \in add[r] => <<d, t>> \notin topics
        /\ delta[r][t] = IF t \in add[r] THEN Counts(d)
                         ELSE IF t \in del[r] THEN - Counts(d) ELSE 0
    BY <2>0, <2>1 DEF WroteTopics, Covers
  <2>3. /\ \A e \in Docs \ {d} : <<e, t>> \in topics' <=> <<e, t>> \in topics
        /\ <<d, t>> \in topics' <=> t \in add[r] \/ (<<d, t>> \in topics /\ t \notin del[r])
    BY <2>1
  <2>4. \/ delta[r][t] = 0 /\ LiveDocs(t)' = LiveDocs(t)
        \/ /\ delta[r][t] = Chunks[d] /\ d \notin LiveDocs(t)
           /\ LiveDocs(t)' = LiveDocs(t) \cup {d}
        \/ /\ delta[r][t] = - Chunks[d] /\ d \in LiveDocs(t)
           /\ LiveDocs(t)' = LiveDocs(t) \ {d}
    <3>1. CASE doc[d] # "active"
      <4>1. delta[r][t] = 0
        <5>1. Counts(d) = 0
          BY <3>1 DEF Counts
        <5>2. delta[r][t] \in Int /\ Counts(d) \in Int
          BY <5>1 DEF IInv, TypeOK
        <5>3. t \in del[r] /\ t \notin add[r] => delta[r][t] + Counts(d) = 0
          <6>1. \A m, n \in Int : m = - n => m + n = 0
            OBVIOUS
          <6> QED
            BY <2>2, <5>2, <6>1
        <5> QED
          BY <2>2, <5>1, <5>2, <5>3
      <4>2. LiveDocs(t)' = LiveDocs(t)
        BY <2>1, <2>3, <3>1 DEF LiveDocs
      <4> QED
        BY <4>1, <4>2
    <3>2. CASE doc[d] = "active" /\ t \in add[r]
      BY <2>1, <2>2, <2>3, <3>2 DEF LiveDocs, Counts
    <3>3. CASE doc[d] = "active" /\ t \notin add[r] /\ t \in del[r]
      BY <2>1, <2>2, <2>3, <3>3 DEF LiveDocs, Counts
    <3>4. CASE t \notin add[r] /\ t \notin del[r]
      BY <2>1, <2>2, <2>3, <3>4 DEF LiveDocs
    <3> QED
      BY <3>1, <3>2, <3>3, <3>4
  <2> QED
    BY <2>1, <2>4, CommitCounts
<1>6. ASSUME NEW f \in Flips, CommitStatus(f)
      PROVE  CoverageExplained'
  <2>0. PICK d \in Docs : d = target[f]
    BY DEF IInv, TypeOK
  <2>1. /\ ApplyDeltas(f) /\ UNCHANGED <<topics, raced, leaked>> /\ WroteStatus(f)
        /\ doc'[d] = new[f] /\ new[f] \in DocStatus /\ doc[d] \in DocStatus /\ doc[d] # new[f]
        /\ \A e \in Docs \ {d} : doc'[e] = doc[e]
    BY <1>6, <2>0 DEF CommitStatus, history, LedgerInv, WroteStatus, Present, IInv, TypeOK, DocStatus
  <2> SUFFICES ASSUME NEW t \in Topics \ raced
               PROVE  coverage'[t] = Live(t)' + leaked'[t]
    BY <2>1 DEF CoverageExplained
  <2>2. delta[f][t] = IF <<d, t>> \notin topics THEN 0
                      ELSE IF new[f] = "active" THEN Chunks[d] ELSE - Chunks[d]
    BY <2>0, <2>1 DEF WroteStatus, Covers
  <2>3. \/ delta[f][t] = 0 /\ LiveDocs(t)' = LiveDocs(t)
        \/ /\ delta[f][t] = Chunks[d] /\ d \notin LiveDocs(t)
           /\ LiveDocs(t)' = LiveDocs(t) \cup {d}
        \/ /\ delta[f][t] = - Chunks[d] /\ d \in LiveDocs(t)
           /\ LiveDocs(t)' = LiveDocs(t) \ {d}
    <3>1. CASE <<d, t>> \notin topics
      BY <2>1, <2>2, <3>1 DEF LiveDocs
    <3>2. CASE <<d, t>> \in topics /\ new[f] = "active"
      BY <2>1, <2>2, <3>2 DEF LiveDocs
    <3>3. CASE <<d, t>> \in topics /\ new[f] # "active"
      BY <2>1, <2>2, <3>3 DEF LiveDocs, DocStatus
    <3> QED
      BY <3>1, <3>2, <3>3
  <2> QED
    BY <2>1, <2>3, CommitCounts
<1>7. ASSUME NEW p \in Uploads, ReadActive(p) \/ ReplaceProgram(p) \/ ReplaceFails(p)
      PROVE  CoverageExplained'
  BY <1>2, <1>7 DEF ReadActive, ReplaceProgram, ReplaceFails, history
<1>8. ASSUME NEW r \in Attaches,
             ResolveTopics(r) \/ ReadCurrent(r) \/ WriteTopics(r) \/ WriteFails(r)
      PROVE  CoverageExplained'
  BY <1>2, <1>8 DEF ResolveTopics, ReadCurrent, WriteTopics, WriteFails, history
<1>9. ASSUME NEW f \in Flips, NEW d \in Docs, NEW s \in {"active", "superseded"},
             WriteStatus(f, d, s)
      PROVE  CoverageExplained'
  BY <1>2, <1>9 DEF WriteStatus
<1>10. ASSUME NEW x \in Txs, Abort(x)
       PROVE  CoverageExplained'
  BY <1>2, <1>10 DEF Abort, history
<1>11. CASE UNCHANGED vars
  BY <1>2, <1>11 DEF vars
<1> QED
  BY <1>3, <1>4, <1>5, <1>6, <1>7, <1>8, <1>9, <1>10, <1>11 DEF Next

\* The triggers keep the counters: a counter that is not what is attached is off
\* by documents deleted while they were active, or by a race with a change of status.
THEOREM CountersExplained == Spec => []CoverageExplained
<1>1. Init => LedgerInv /\ CoverageExplained
  BY InitLedger
<1>2. IInv /\ LedgerInv /\ CoverageExplained /\ [Next]_vars =>
        LedgerInv' /\ CoverageExplained'
  BY LedgerStep, CountStep
<1> QED
  BY <1>1, <1>2, SafetyIInv, PTL DEF Spec

=============================================================================
