----------------------------- MODULE ChatProofs -----------------------------
(***************************************************************************)
(* The question answering flow implements the evidence gate: every step of *)
(* a request, in either mode, is a step of EvidenceGate or changes nothing *)
(* that is seen there.  So does the flow within the chats; and what the    *)
(* chats keep of it is proved after that.                                  *)
(***************************************************************************)
EXTENDS Chat, TLAPS

\* What the model is asked with, and how often.
DraftingFounded ==
  \A r \in Requests :
    stage[r] = "drafting" => found[r].some /\ (r \in Gated => found[r].enough)

DraftsCounted ==
  \A r \in Requests :
    /\ stage[r] # "drafting" /\ stage[r] # "replied" => drafted[r] = 0
    /\ stage[r] = "drafting" => drafted[r] < (IF r \in Gated THEN 2 ELSE 1)
    /\ reply[r] = "none" <=> stage[r] # "replied"

FlowInv == QATypeOK /\ DraftingFounded /\ DraftsCounted

LEMMA InitFlow == QAInit => FlowInv
BY QAFlowAssumption
   DEF QAInit, FlowInv, QATypeOK, DraftingFounded, DraftsCounted, Nothing, Found

LEMMA StepFlow == FlowInv /\ [QANext]_qaVars => FlowInv'
<1> SUFFICES ASSUME FlowInv, [QANext]_qaVars PROVE FlowInv'
  OBVIOUS
<1> USE QAFlowAssumption
<1>1. ASSUME NEW r \in Requests, Ask(r) PROVE FlowInv'
  BY <1>1 DEF Ask, Await, FlowInv, QATypeOK, DraftingFounded, DraftsCounted
<1>2. ASSUME NEW r \in Requests, Search(r) PROVE FlowInv'
  <2>1. QATypeOK'
    BY <1>2 DEF Search, Retrieve, Reply, Await, FlowInv, QATypeOK
  <2>2. DraftingFounded' /\ DraftsCounted'
    BY <1>2 DEF Search, Retrieve, Reply, Await, FlowInv, QATypeOK, DraftingFounded,
                DraftsCounted
  <2> QED
    BY <2>1, <2>2 DEF FlowInv
<1>3. ASSUME NEW r \in Requests, Widen(r) PROVE FlowInv'
  <2>1. QATypeOK'
    BY <1>3 DEF Widen, Retrieve, Reply, Await, FlowInv, QATypeOK
  <2>2. DraftingFounded' /\ DraftsCounted'
    BY <1>3 DEF Widen, Retrieve, Reply, Await, FlowInv, QATypeOK, DraftingFounded,
                DraftsCounted
  <2> QED
    BY <2>1, <2>2 DEF FlowInv
<1>4. ASSUME NEW r \in Requests, Raise(r) PROVE FlowInv'
  BY <1>4 DEF Raise, Reply, FlowInv, QATypeOK, DraftingFounded, DraftsCounted
<1>5. ASSUME NEW r \in Requests, RetryDraft(r) PROVE FlowInv'
  BY <1>5 DEF RetryDraft, TryAgain, FlowInv, QATypeOK, DraftingFounded, DraftsCounted
<1>6. ASSUME NEW r \in Requests, Draft(r) PROVE FlowInv'
  <2>1. QATypeOK'
    BY <1>6 DEF Draft, Reply, Await, Drafts, FlowInv, QATypeOK, DraftsCounted
  <2>2. DraftingFounded' /\ DraftsCounted'
    BY <1>6 DEF Draft, Reply, Await, Drafts, FlowInv, QATypeOK, DraftingFounded,
                DraftsCounted
  <2> QED
    BY <2>1, <2>2 DEF FlowInv
<1>7. CASE UNCHANGED qaVars
  BY <1>7 DEF qaVars, FlowInv, QATypeOK, DraftingFounded, DraftsCounted
<1> QED
  BY <1>1, <1>2, <1>3, <1>4, <1>5, <1>6, <1>7 DEF QANext, QAStep

LEMMA InitGate == QAInit => Gate!GateInit
BY DEF QAInit, Nothing, EvidenceOf, VerdictOf, Gate!GateInit

\* What a step of request r leaves alone, seen from the gate.
LEMMA Seen ==
  /\ [r \in Requests |-> EvidenceOf(r)] \in [Requests -> {"none", "some", "enough"}]
  /\ \A r \in Requests : [q \in Requests |-> EvidenceOf(q)][r] = EvidenceOf(r)
  /\ \A r \in Requests : [q \in Requests |-> VerdictOf(q)][r] = VerdictOf(r)
BY DEF EvidenceOf

LEMMA StepGate == FlowInv /\ [QANext]_qaVars => [Gate!GateNext]_(Gate!gateVars)
<1> SUFFICES ASSUME FlowInv, [QANext]_qaVars PROVE [Gate!GateNext]_(Gate!gateVars)
  OBVIOUS
<1> USE QAFlowAssumption
<1>1. ASSUME NEW r \in Requests, Ask(r) \/ RetryDraft(r) PROVE UNCHANGED Gate!gateVars
  BY <1>1 DEF Ask, RetryDraft, TryAgain, Await, Gate!gateVars, EvidenceOf, VerdictOf
<1>2. ASSUME NEW r \in Requests, Search(r) \/ Widen(r)
      PROVE  Gate!Gather(r) \/ Gate!RefuseUnfounded(r)
  <2>1. /\ drafted[r] = 0 /\ reply[r] = "none" /\ drafted' = drafted
        /\ \A q \in Requests \ {r} : found'[q] = found[q] /\ reply'[q] = reply[q]
    BY <1>2 DEF Search, Widen, Retrieve, Reply, Await, FlowInv, QATypeOK, DraftsCounted
  <2>2. \/ reply' = reply
        \/ reply'[r] = "low_evidence" /\ ~ (found'[r].some /\ found'[r].enough)
    BY <1>2 DEF Search, Widen, Retrieve, Reply, Await, FlowInv, QATypeOK
  <2>3. EvidenceOf(r)' \in {"none", "some", "enough"}
    BY DEF EvidenceOf
  <2>4. [q \in Requests |-> EvidenceOf(q)]'
          = [[q \in Requests |-> EvidenceOf(q)] EXCEPT ![r] = EvidenceOf(r)']
    BY <2>1 DEF EvidenceOf
  <2>5. VerdictOf(r) = "open"
    BY <2>1 DEF VerdictOf
  <2>6. CASE reply' = reply
    <3>1. [q \in Requests |-> VerdictOf(q)]' = [q \in Requests |-> VerdictOf(q)]
      BY <2>6 DEF VerdictOf
    <3> QED
      BY <2>1, <2>3, <2>4, <2>5, <3>1 DEF Gate!Gather, Gate!Gathered
  <2>7. CASE reply'[r] = "low_evidence" /\ ~ (found'[r].some /\ found'[r].enough)
    <3>1. EvidenceOf(r)' \in {"none", "some"}
      BY <2>7 DEF EvidenceOf
    <3>2. [q \in Requests |-> VerdictOf(q)]'
            = [[q \in Requests |-> VerdictOf(q)] EXCEPT ![r] = "refused"]
      BY <2>1, <2>7 DEF VerdictOf
    <3> QED
      BY <2>1, <2>4, <2>5, <3>1, <3>2 DEF Gate!RefuseUnfounded, Gate!Decide
  <2> QED
    BY <2>2, <2>6, <2>7
<1>3. ASSUME NEW r \in Requests, Raise(r) PROVE Gate!GiveUp(r)
  <2>1. /\ reply[r] = "none" /\ reply' = [reply EXCEPT ![r] = "error"]
        /\ drafted' = drafted /\ found' = found
    BY <1>3 DEF Raise, Reply, FlowInv, QATypeOK, DraftsCounted
  <2>2. VerdictOf(r) = "open"
    BY <2>1 DEF VerdictOf
  <2>3. [q \in Requests |-> EvidenceOf(q)]' = [q \in Requests |-> EvidenceOf(q)]
    BY <2>1 DEF EvidenceOf
  <2>4. [q \in Requests |-> VerdictOf(q)]'
          = [[q \in Requests |-> VerdictOf(q)] EXCEPT ![r] = "failed"]
    BY <2>1 DEF VerdictOf, FlowInv, QATypeOK
  <2> QED
    BY <2>1, <2>2, <2>3, <2>4 DEF Gate!GiveUp, Gate!Decide
<1>4. ASSUME NEW r \in Requests, Draft(r) PROVE Gate!Judge(r)
  <2>1. /\ reply[r] = "none" /\ found' = found
        /\ drafted[r] < (IF r \in Gated THEN 2 ELSE 1)
        /\ drafted[r] \in 0 .. 2
        /\ found[r].some /\ (r \in Gated => found[r].enough)
        /\ drafted' = [drafted EXCEPT ![r] = @ + 1]
    BY <1>4 DEF Draft, FlowInv, QATypeOK, DraftingFounded, DraftsCounted
  <2>2. VerdictOf(r) = "open"
    BY <2>1 DEF VerdictOf
  <2>3. [q \in Requests |-> EvidenceOf(q)]' = [q \in Requests |-> EvidenceOf(q)]
    BY <2>1 DEF EvidenceOf
  <2>4. EvidenceOf(r) = "enough" \/ (r \notin Gated /\ EvidenceOf(r) = "some")
    BY <2>1 DEF EvidenceOf
  <2>5. drafted \in [Requests -> 0 .. 2] /\ drafted'[r] = drafted[r] + 1
    BY <2>1 DEF FlowInv, QATypeOK
  <2> DEFINE verdicts == [q \in Requests |-> VerdictOf(q)]
  <2>6. \/ verdicts' = [verdicts EXCEPT ![r] = "cited"]
        \/ r \notin Gated /\ verdicts' = [verdicts EXCEPT ![r] = "uncited"]
        \/ r \in Gated /\ drafted[r] = 0 /\ verdicts' = verdicts
        \/ r \in Gated /\ drafted[r] = 1 /\ verdicts' = [verdicts EXCEPT ![r] = "refused"]
    <3>1. PICK d \in Drafts :
            \/ r \notin Gated /\ reply' = [reply EXCEPT ![r] = d]
            \/ r \in Gated /\ d = "cited" /\ reply' = [reply EXCEPT ![r] = d]
            \/ r \in Gated /\ drafted[r] = 0 /\ reply' = reply
            \/ r \in Gated /\ drafted[r] = 1 /\ reply' = [reply EXCEPT ![r] = "no_citations"]
      BY <1>4 DEF Draft, Reply, Await, Passes
    <3>2. ASSUME NEW a, reply' = [reply EXCEPT ![r] = a]
          PROVE  verdicts' = [verdicts EXCEPT ![r] =
                   CASE a = "none" -> "open"
                     [] a = "cited" -> "cited"
                     [] a \in {"uncited", "blank"} -> "uncited"
                     [] a = "error" -> "failed"
                     [] OTHER -> "refused"]
      BY <3>2 DEF VerdictOf, FlowInv, QATypeOK
    <3>3. ASSUME reply' = reply PROVE verdicts' = verdicts
      BY <3>3 DEF VerdictOf
    <3> HIDE DEF verdicts
    <3> QED
      BY <3>1, <3>2, <3>3, <2>1 DEF Drafts
  <2> QED
    BY <2>1, <2>2, <2>3, <2>4, <2>5, <2>6
       DEF Gate!Judge, Gate!Sufficient, Gate!MaxDrafts, Gate!Decide
<1>5. CASE UNCHANGED qaVars
  BY <1>5 DEF qaVars, Gate!gateVars, EvidenceOf, VerdictOf
<1> QED
  BY <1>1, <1>2, <1>3, <1>4, <1>5 DEF QANext, QAStep, Gate!GateNext

\* The flow implements the gate, for every number of requests in either mode
\* and every number of attempts.
THEOREM FlowKeepsGate == QASpec => GateKept
<1>1. QASpec => []FlowInv
  BY InitFlow, StepFlow, PTL DEF QASpec
<1> QED
  BY <1>1, InitGate, StepGate, PTL DEF QASpec, GateKept, Gate!GateSpec

-----------------------------------------------------------------------------
(* The chats *)

\* How far a message is in the flow when the chat has it elsewhere.
StageInv ==
  \A m \in Requests :
    /\ pc[m] \in {"idle", "planning", "quizzing"} => stage[m] = "idle"
    /\ pc[m] \in {"asking"} => stage[m] # "idle"

\* The chat a message names has had a row, and what it holds is of that chat.
ChatInv ==
  /\ \A m \in Requests :
       /\ target[m] \in Chats => row[target[m]] # "absent"
       /\ pc[m] = "writing" => outcome[m] # "none"
       /\ outcome[m] = "self_check" => m \in attempts
       /\ \A i \in DOMAIN held[m] : held[m][i].outcome = "self_check" => held[m][i].msg \in attempts
  /\ \A c \in Chats : \A i \in DOMAIN history[c] :
       history[c][i].outcome = "self_check" => history[c][i].msg \in attempts

IInv == FlowInv /\ StageInv /\ TypeOK /\ ChatInv /\ LostOnlyByOverlap

\* A step of the chats changes nothing in the flow, is one of its steps, or takes
\* a message into it and forgets the attempts of a call.
LEMMA ChatSteps ==
  ASSUME IInv, [Next]_vars
  PROVE  \/ UNCHANGED qaVars
         \/ \E m \in Requests : QAStep(m) \/ Ask(m)
         \/ \E m \in Requests :
              /\ stage[m] = "idle"
              /\ stage' \in {stage, [stage EXCEPT ![m] = "searching"]}
              /\ tries' \in [Requests -> 0 .. Attempts - 1]
              /\ expired' \subseteq Requests
              /\ UNCHANGED <<found, drafted, reply>>
<1> USE QAFlowAssumption, ChatAssumption
<1>1. ASSUME NEW m \in Requests, Receive(m) PROVE UNCHANGED qaVars \/ Ask(m)
  BY <1>1 DEF Receive
<1>2. ASSUME NEW m \in Requests, Plan(m) \/ Quiz(m) \/ RetryCall(m)
      PROVE  /\ stage[m] = "idle"
             /\ stage' \in {stage, [stage EXCEPT ![m] = "searching"]}
             /\ tries' \in [Requests -> 0 .. Attempts - 1]
             /\ expired' \subseteq Requests
             /\ UNCHANGED <<found, drafted, reply>>
  <2>1. /\ stage[m] = "idle" /\ tries \in [Requests -> 0 .. Attempts - 1]
        /\ expired \subseteq Requests /\ Attempts \in Nat \ {0}
    BY <1>2 DEF Plan, Quiz, RetryCall, IInv, StageInv, TypeOK, QATypeOK
  <2>2. CASE Plan(m)
    BY <2>1, <2>2 DEF Plan, CallDone
  <2>3. CASE Quiz(m)
    BY <2>1, <2>3 DEF Quiz, CallDone
  <2>4. CASE RetryCall(m)
    BY <2>1, <2>4 DEF RetryCall, TryAgain
  <2> QED
    BY <1>2, <2>1, <2>2, <2>3, <2>4
<1>3. ASSUME NEW m \in Requests, QuizFails(m) \/ Conclude(m) PROVE UNCHANGED qaVars
  BY <1>3 DEF QuizFails, Conclude
<1>4. ASSUME NEW m \in Requests, Answer(m) PROVE QAStep(m)
  BY <1>4 DEF Answer
<1>5. ASSUME (\E c \in Chats : DeleteSession(c)) \/ Restart \/ UNCHANGED vars
      PROVE  UNCHANGED qaVars
  BY <1>5 DEF DeleteSession, Restart, vars
<1> QED
  BY <1>1, <1>2, <1>3, <1>4, <1>5 DEF Next, Step

\* Seen from the gate, what the chats add to the flow changes nothing.
LEMMA ChatGate == IInv /\ [Next]_vars => [Gate!GateNext]_(Gate!gateVars) /\ FlowInv'
<1> SUFFICES ASSUME IInv, [Next]_vars PROVE [Gate!GateNext]_(Gate!gateVars) /\ FlowInv'
  OBVIOUS
<1>1. CASE [QANext]_qaVars
  BY <1>1, StepGate, StepFlow DEF IInv
<1>2. ASSUME NEW m \in Requests, stage[m] = "idle",
             stage' \in {stage, [stage EXCEPT ![m] = "searching"]},
             tries' \in [Requests -> 0 .. Attempts - 1], expired' \subseteq Requests,
             UNCHANGED <<found, drafted, reply>>
      PROVE  UNCHANGED Gate!gateVars /\ FlowInv'
  <2>1. UNCHANGED Gate!gateVars
    BY <1>2 DEF Gate!gateVars, EvidenceOf, VerdictOf
  <2>2. FlowInv'
    BY <1>2 DEF IInv, FlowInv, QATypeOK, DraftingFounded, DraftsCounted
  <2> QED
    BY <2>1, <2>2
<1> QED
  BY <1>1, <1>2, ChatSteps DEF QANext

LEMMA InitIInv == Init => IInv
<1> SUFFICES ASSUME Init PROVE IInv
  OBVIOUS
<1> USE ChatAssumption
<1>1. FlowInv
  BY InitFlow DEF Init
<1>2. TypeOK
  <2>1. << >> \in Seq(Exchanges) /\ <<Earlier>> \in Seq(Exchanges)
    BY DEF Exchanges, Earlier
  <2> QED
    BY <1>1, <2>1 DEF Init, TypeOK, FlowInv, NewChat
<1>3. StageInv
  BY DEF Init, QAInit, StageInv
<1>4. ChatInv
  BY DEF Init, ChatInv, Earlier, NewChat
<1>5. LostOnlyByOverlap
  BY DEF Init, LostOnlyByOverlap
<1> QED
  BY <1>1, <1>2, <1>3, <1>4, <1>5 DEF IInv

LEMMA StageStep == IInv /\ [Next]_vars => StageInv'
<1> SUFFICES ASSUME IInv, [Next]_vars PROVE StageInv'
  OBVIOUS
<1> USE QAFlowAssumption DEF Goto, Record, IInv, StageInv, TypeOK, QATypeOK
<1>1. ASSUME NEW m \in Requests, Receive(m) PROVE StageInv'
  BY <1>1 DEF Receive, Ask, Await, qaVars
<1>2. ASSUME NEW m \in Requests, Plan(m) PROVE StageInv'
  BY <1>2 DEF Plan, CallDone
<1>3. ASSUME NEW m \in Requests, Quiz(m) \/ QuizFails(m) \/ RetryCall(m) PROVE StageInv'
  BY <1>3 DEF Quiz, QuizFails, RetryCall, TryAgain, CallDone, qaVars, chatVars
<1>4. ASSUME NEW m \in Requests, Answer(m) PROVE StageInv'
  <2>1. /\ stage[m] # "idle" /\ pc[m] = "asking"
        /\ \A n \in Requests \ {m} : stage'[n] = stage[n] /\ pc'[n] = pc[n]
    BY <1>4 DEF Answer, QAStep, Search, Widen, Draft, Raise, RetryDraft, TryAgain, Reply, Await
  <2>2. pc'[m] \in {"asking", "writing"}
    BY <1>4, <2>1 DEF Answer
  <2>3. stage'[m] # "idle"
    BY <1>4, <2>1 DEF Answer, QAStep, Search, Widen, Draft, Raise, RetryDraft, TryAgain, Reply, Await
  <2> QED
    BY <2>1, <2>2, <2>3
<1>5. ASSUME NEW m \in Requests, Conclude(m) PROVE StageInv'
  BY <1>5 DEF Conclude, Write, WriteStale, WriteExpired, WriteNew, ReplyDirect, qaVars
<1>6. ASSUME (\E c \in Chats : DeleteSession(c)) \/ Restart \/ UNCHANGED vars
      PROVE  StageInv'
  BY <1>6 DEF DeleteSession, Restart, Busy, vars, chatVars, qaVars
<1> QED
  BY <1>1, <1>2, <1>3, <1>4, <1>5, <1>6 DEF Next, Step

\* What is appended to a history.
LEMMA Appended ==
  ASSUME NEW h \in Seq(Exchanges), NEW e \in Exchanges
  PROVE  /\ Append(h, e) \in Seq(Exchanges) /\ <<e>> \in Seq(Exchanges)
         /\ DOMAIN Append(h, e) = 1 .. Len(h) + 1 /\ DOMAIN h = 1 .. Len(h)
         /\ \A i \in 1 .. Len(h) : Append(h, e)[i] = h[i]
         /\ Append(h, e)[Len(h) + 1] = e
  OBVIOUS

LEMMA TypeStep == IInv /\ [Next]_vars => TypeOK'
<1> SUFFICES ASSUME IInv, [Next]_vars PROVE TypeOK'
  OBVIOUS
<1>0. QATypeOK'
  BY ChatGate DEF FlowInv
<1> USE <1>0, ChatAssumption DEF Goto, Record, IInv, TypeOK
<1>1. ASSUME NEW m \in Requests, Receive(m) PROVE TypeOK'
  <2>1. PICK t \in Chats \cup {NewChat, Direct} :
          /\ target' = [target EXCEPT ![m] = t]
          /\ \/ UNCHANGED held
             \/ t \in Chats /\ held' = [held EXCEPT ![m] = history[t]]
          /\ \E p \in {"asking", "planning", "not_found"} : pc' = [pc EXCEPT ![m] = p]
    BY <1>1 DEF Receive, Open
  <2>2. held' \in [Requests -> Seq(Exchanges)]
    BY <2>1
  <2>3. UNCHANGED <<outcome, row, history, attempts>>
    BY <1>1 DEF Receive
  <2> QED
    BY <2>1, <2>2, <2>3
<1>2. ASSUME NEW m \in Requests, Plan(m) PROVE TypeOK'
  BY <1>2 DEF Plan
<1>3. ASSUME NEW m \in Requests, Quiz(m) \/ QuizFails(m) \/ RetryCall(m) PROVE TypeOK'
  BY <1>3 DEF Quiz, QuizFails, RetryCall, chatVars
<1>4. ASSUME NEW m \in Requests, Answer(m) PROVE TypeOK'
  BY <1>4 DEF Answer
<1>5. ASSUME NEW m \in Requests, Conclude(m) PROVE TypeOK'
  <2>1. pc[m] = "writing" => Exchange(m) \in Exchanges
    BY DEF Exchange, Exchanges, ChatInv
  <2>2. CASE Write(m)
    BY <1>5, <2>1, <2>2, Appended DEF Conclude, Write, Open
  <2>3. CASE WriteNew(m)
    BY <1>5, <2>1, <2>3, Appended DEF Conclude, WriteNew
  <2>4. CASE WriteStale(m) \/ WriteExpired(m) \/ ReplyDirect(m)
    BY <1>5, <2>4 DEF Conclude, WriteStale, WriteExpired, ReplyDirect
  <2> QED
    BY <1>5, <2>2, <2>3, <2>4 DEF Conclude
<1>6. ASSUME NEW c \in Chats, DeleteSession(c) PROVE TypeOK'
  <2>1. << >> \in Seq(Exchanges)
    OBVIOUS
  <2> QED
    BY <1>6, <2>1 DEF DeleteSession, Open
<1>7. ASSUME Restart \/ UNCHANGED vars PROVE TypeOK'
  BY <1>7 DEF Restart, vars, chatVars
<1> QED
  BY <1>1, <1>2, <1>3, <1>4, <1>5, <1>6, <1>7 DEF Next, Step

LEMMA ChatInvStep == IInv /\ [Next]_vars => ChatInv'
<1> SUFFICES ASSUME IInv, [Next]_vars PROVE ChatInv'
  OBVIOUS
<1> USE ChatAssumption DEF Goto, Record, IInv, TypeOK, ChatInv
<1>1. ASSUME NEW m \in Requests, Receive(m) PROVE ChatInv'
  BY <1>1 DEF Receive, Open, NewChat, Direct
<1>2. ASSUME NEW m \in Requests, Plan(m) PROVE ChatInv'
  BY <1>2 DEF Plan
<1>3. ASSUME NEW m \in Requests, Quiz(m) \/ QuizFails(m) \/ RetryCall(m) PROVE ChatInv'
  BY <1>3 DEF Quiz, QuizFails, RetryCall, chatVars
<1>4. ASSUME NEW m \in Requests, Answer(m) PROVE ChatInv'
  BY <1>4 DEF Answer
<1>5. ASSUME NEW m \in Requests, Conclude(m) PROVE ChatInv'
  <2>1. pc[m] = "writing" => Exchange(m) \in Exchanges
    BY DEF Exchange, Exchanges, ChatInv
  <2>2. CASE Write(m)
    BY <1>5, <2>1, <2>2, Appended DEF Conclude, Write, Open, Exchange
  <2>3. CASE WriteNew(m)
    BY <1>5, <2>1, <2>3 DEF Conclude, WriteNew, Exchange
  <2>4. CASE WriteStale(m) \/ WriteExpired(m) \/ ReplyDirect(m)
    BY <1>5, <2>4 DEF Conclude, WriteStale, WriteExpired, ReplyDirect
  <2> QED
    BY <1>5, <2>2, <2>3, <2>4 DEF Conclude
<1>6. ASSUME NEW c \in Chats, DeleteSession(c) PROVE ChatInv'
  BY <1>6 DEF DeleteSession, Open
<1>7. ASSUME Restart \/ UNCHANGED vars PROVE ChatInv'
  BY <1>7 DEF Restart, Busy, vars, chatVars
<1> QED
  BY <1>1, <1>2, <1>3, <1>4, <1>5, <1>6, <1>7 DEF Next, Step

LEMMA LostNext ==
  ASSUME \A m \in Requests, c \in Chats :
           row'[c] = "live" /\ pc'[m] = "done" /\ target'[m] = c /\ ~ Has(history'[c], m) =>
             \E n \in Requests \ {m} : pc'[n] = "done" /\ target'[n] = c
               /\ ~ Has(held'[n], m) /\ Has(history'[c], n)
  PROVE  LostOnlyByOverlap'
BY DEF LostOnlyByOverlap, Open, Has

\* A step that writes no history but of a chat nobody has named, and lets no
\* message of a chat be done, loses no exchange.
LEMMA LostFrame ==
  ASSUME LostOnlyByOverlap,
         \A c \in Chats : row'[c] = "live" =>
           (row[c] = "live" /\ history'[c] = history[c]) \/ \A m \in Requests : target'[m] # c,
         \A m \in Requests : pc'[m] = "done" /\ target'[m] \in Chats => pc[m] = "done",
         \A m \in Requests : pc[m] = "done" =>
           pc'[m] = "done" /\ target'[m] = target[m] /\ held'[m] = held[m]
  PROVE  LostOnlyByOverlap'
<1> SUFFICES ASSUME NEW m \in Requests, NEW c \in Chats, row'[c] = "live", pc'[m] = "done",
                    target'[m] = c, ~ Has(history'[c], m)
             PROVE  \E n \in Requests \ {m} : pc'[n] = "done" /\ target'[n] = c
                      /\ ~ Has(held'[n], m) /\ Has(history'[c], n)
  BY LostNext
<1>1. row[c] = "live" /\ history'[c] = history[c] /\ pc[m] = "done" /\ target[m] = c
  OBVIOUS
<1>2. PICK n \in Requests \ {m} : pc[n] = "done" /\ target[n] = c
        /\ ~ Has(held[n], m) /\ Has(history[c], n)
  BY <1>1 DEF LostOnlyByOverlap, Open
<1>3. pc'[n] = "done" /\ target'[n] = c /\ held'[n] = held[n]
  BY <1>2
<1> QED
  BY <1>1, <1>2, <1>3

LEMMA LostStep == IInv /\ [Next]_vars => LostOnlyByOverlap'
<1> SUFFICES ASSUME IInv, [Next]_vars PROVE LostOnlyByOverlap'
  OBVIOUS
<1> USE ChatAssumption DEF Goto, Record, IInv, TypeOK, Open
<1>1. ASSUME NEW m \in Requests, Receive(m) PROVE LostOnlyByOverlap'
  BY <1>1, LostFrame DEF Receive
<1>2. ASSUME NEW m \in Requests, Plan(m) PROVE LostOnlyByOverlap'
  BY <1>2, LostFrame DEF Plan
<1>3. ASSUME NEW m \in Requests, Quiz(m) \/ QuizFails(m) \/ RetryCall(m)
      PROVE  LostOnlyByOverlap'
  BY <1>3, LostFrame DEF Quiz, QuizFails, RetryCall, chatVars
<1>4. ASSUME NEW m \in Requests, Answer(m) PROVE LostOnlyByOverlap'
  BY <1>4, LostFrame DEF Answer
<1>5. ASSUME NEW m \in Requests, Write(m), Conclude(m) PROVE LostOnlyByOverlap'
  <2>1. Exchange(m) \in Exchanges /\ Exchange(m).msg = m
    BY <1>5 DEF Write, Exchange, Exchanges, ChatInv
  <2>2. target[m] \in Chats /\ \A c \in Chats \ {target[m]} : history'[c] = history[c]
    BY <1>5 DEF Write
  <2>3. /\ pc' = [pc EXCEPT ![m] = "done"] /\ UNCHANGED <<row, held, target>>
        /\ \A n \in Requests : pc[n] = "done" => n # m
    BY <1>5 DEF Write, Conclude
  <2>4. \A n \in Requests : Has(held[m], n) \/ n = m => Has(history'[target[m]], n)
    <3>1. history'[target[m]] = Append(held[m], Exchange(m)) /\ held[m] \in Seq(Exchanges)
      BY <1>5, <2>2 DEF Write
    <3>2. SUFFICES ASSUME NEW n \in Requests, Has(held[m], n) \/ n = m
                   PROVE  Has(Append(held[m], Exchange(m)), n)
      BY <3>1
    <3> DEFINE h == held[m]
               e == Exchange(m)
               g == Append(h, e)
    <3>3. /\ DOMAIN g = 1 .. Len(h) + 1 /\ DOMAIN h = 1 .. Len(h) /\ Len(h) \in Nat
          /\ \A i \in 1 .. Len(h) : g[i] = h[i]
          /\ g[Len(h) + 1] = e
      BY <2>1, <3>1, Appended
    <3>4. e.msg = m /\ (Has(h, n) \/ n = m)
      BY <2>1, <3>2
    <3> HIDE DEF h, e, g
    <3>5. ASSUME Has(h, n) PROVE Has(g, n)
      BY <3>3, <3>5 DEF Has
    <3>6. ASSUME n = m PROVE Has(g, n)
      BY <3>3, <3>4, <3>6 DEF Has
    <3>7. Has(g, n)
      BY <3>4, <3>5, <3>6
    <3> QED
      BY <3>7 DEF g, h, e
  <2> SUFFICES ASSUME NEW n \in Requests, NEW c \in Chats, row'[c] = "live",
                      pc'[n] = "done", target'[n] = c, ~ Has(history'[c], n)
               PROVE  \E k \in Requests \ {n} : pc'[k] = "done" /\ target'[k] = c
                        /\ ~ Has(held'[k], n) /\ Has(history'[c], k)
    BY LostNext
  <2>5. CASE c = target[m]
    BY <2>3, <2>4, <2>5
  <2>6. CASE c # target[m]
    <3>1. history'[c] = history[c] /\ n # m /\ pc[n] = "done"
      BY <2>2, <2>3, <2>6
    <3>2. PICK k \in Requests \ {n} : pc[k] = "done" /\ target[k] = c
            /\ ~ Has(held[k], n) /\ Has(history[c], k)
      <4> HIDE DEF Has, TypeOK
      <4>1. target[n] = c /\ row[c] = "live" /\ ~ Has(history[c], n)
        BY <2>3, <3>1
      <4> QED
        BY <3>1, <4>1 DEF LostOnlyByOverlap
    <3> QED
      BY <2>3, <3>1, <3>2
  <2> QED
    BY <2>5, <2>6
<1>6. ASSUME NEW m \in Requests, WriteNew(m), Conclude(m) PROVE LostOnlyByOverlap'
  BY <1>6, LostFrame DEF WriteNew, Conclude, ChatInv
<1>7. ASSUME NEW m \in Requests, WriteStale(m) \/ WriteExpired(m) \/ ReplyDirect(m), Conclude(m)
      PROVE  LostOnlyByOverlap'
  BY <1>7, LostFrame DEF WriteStale, WriteExpired, ReplyDirect, Conclude, Direct
<1>8. ASSUME NEW c \in Chats, DeleteSession(c) PROVE LostOnlyByOverlap'
  BY <1>8, LostFrame DEF DeleteSession
<1>9. ASSUME Restart \/ UNCHANGED vars PROVE LostOnlyByOverlap'
  BY <1>9, LostFrame DEF Restart, Busy, vars, chatVars
<1> QED
  BY <1>1, <1>2, <1>3, <1>4, <1>5, <1>6, <1>7, <1>8, <1>9 DEF Next, Step, Conclude

LEMMA SafetyIInv == Spec => []IInv
<1>1. IInv /\ [Next]_vars => IInv'
  BY ChatGate, StageStep, TypeStep, ChatInvStep, LostStep DEF IInv
<1> QED
  BY <1>1, InitIInv, PTL DEF Spec

\* Every variable of the chats and of the flow within them keeps its type.
THEOREM TypeCorrect == Spec => []TypeOK
<1>1. IInv => TypeOK
  BY DEF IInv
<1> QED
  BY <1>1, SafetyIInv, PTL

\* The gate is kept for messages of chats as for those of /qa/message, whatever
\* else the chats await, delete or lose.
THEOREM ChatKeepsGate == Spec => GateKept
<1>1. Init => Gate!GateInit
  BY InitGate DEF Init
<1> QED
  BY <1>1, SafetyIInv, ChatGate, PTL DEF Spec, GateKept, Gate!GateSpec

\* However many messages of a chat overlap, an exchange is lost only to one that
\* overlapped it.
THEOREM ExchangesLost == Spec => []LostOnlyByOverlap
<1>1. IInv => LostOnlyByOverlap
  BY DEF IInv
<1> QED
  BY <1>1, SafetyIInv, PTL

\* A self-check that a chat shows has its attempt.
THEOREM ShownAttempts == Spec => []ShownAttemptExists
<1>1. IInv => ShownAttemptExists
  BY DEF IInv, ChatInv, ShownAttemptExists, Open
<1> QED
  BY <1>1, SafetyIInv, PTL

\* No step brings a deleted chat back.
THEOREM DeletedForGood == Spec => DeletedStaysDeleted
<1>1. IInv /\ [Next]_vars => [\A c \in Chats : row[c] = "deleted" => row'[c] = "deleted"]_vars
  <2> SUFFICES ASSUME IInv, [Next]_vars, NEW c \in Chats, row[c] = "deleted"
               PROVE  row'[c] = "deleted"
    OBVIOUS
  <2> QED
    BY DEF IInv, TypeOK, Next, Step, Receive, Plan, Quiz, QuizFails, RetryCall, Answer, Conclude,
           Write, WriteStale, WriteExpired, WriteNew, ReplyDirect, DeleteSession, Restart,
           vars, chatVars, Open
<1> QED
  BY <1>1, SafetyIInv, PTL DEF Spec, DeletedStaysDeleted

=============================================================================
