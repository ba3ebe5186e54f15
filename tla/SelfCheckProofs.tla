-------------------------- MODULE SelfCheckProofs --------------------------
(***************************************************************************)
(* Attempts and their submits, for any number of either and any number of  *)
(* crashes.                                                                *)
(***************************************************************************)
EXTENDS SelfCheck, TLAPS

\* A submit on its way has an attempt with a row, and what its session holds of it.
SubmitInv ==
  \A s \in Submits :
    /\ pc[s] # "idle" => target[s] \in Attempts /\ status[target[s]] # "none"
    /\ pc[s] = "evaluating" => loaded[s] = "in_progress"
    /\ pc[s] = "evaluated" => loaded[s] = "completed"
    /\ pc[s] \in {"evaluating", "evaluated"} => answers[target[s]] # None

\* The answers and the evaluation of a row are those of submits of the attempt
\* that have come as far.
RowInv ==
  \A a \in Attempts :
    /\ answers[a] # None =>
         /\ target[answers[a]] = a
         /\ pc[answers[a]] \in {"evaluating", "evaluated", "ok", "failed", "lost"}
    /\ evaluation[a] # None =>
         /\ target[evaluation[a]] = a /\ loaded[evaluation[a]] = "completed"
         /\ pc[evaluation[a]] \in {"evaluated", "ok", "lost"}
         /\ answers[a] # None
    /\ status[a] = "completed" => evaluation[a] # None
    /\ status[a] = "invalid_evaluation" => answers[a] # None

\* As long as submits of an attempt have not overlapped, the one under way is alone
\* with the row: it is as the session has left it.
AloneInv ==
  \A s \in Submits : target[s] \notin overlap =>
    /\ pc[s] \in Working =>
         \A t \in Submits : target[t] = target[s] /\ pc[t] \in Working => t = s
    /\ pc[s] = "loaded" => loaded[s] = status[target[s]]
    /\ pc[s] = "evaluating" => status[target[s]] = "in_progress"
    /\ pc[s] \in {"evaluating", "evaluated"} => answers[target[s]] = s

IInv == TypeOK /\ SubmitInv /\ RowInv /\ AloneInv /\ SerialSubmitsAgree /\ ResponseOfOneSubmit

LEMMA InitIInv == Init => IInv
BY SelfCheckAssumption
   DEF Init, IInv, TypeOK, SubmitInv, RowInv, AloneInv, SerialSubmitsAgree,
       ResponseOfOneSubmit, Working, Evaluated

LEMMA IInvStep == IInv /\ [Next]_vars => IInv'
<1> SUFFICES ASSUME IInv, [Next]_vars PROVE IInv'
  OBVIOUS
<1> USE SelfCheckAssumption DEF Working, Evaluated
<1>1. ASSUME NEW a \in Attempts, SaveAttempt(a) PROVE IInv'
  <2>1. TypeOK'
    BY <1>1 DEF SaveAttempt, row, request, IInv, TypeOK
  <2>2. SubmitInv'
    BY <1>1 DEF SaveAttempt, row, request, IInv, TypeOK, SubmitInv, RowInv
  <2>3. RowInv'
    BY <1>1 DEF SaveAttempt, row, request, IInv, TypeOK, SubmitInv, RowInv
  <2>4. AloneInv'
    BY <1>1 DEF SaveAttempt, row, request, IInv, TypeOK, SubmitInv, RowInv, AloneInv
  <2>5. SerialSubmitsAgree'
    BY <1>1 DEF SaveAttempt, row, request, IInv, TypeOK, SubmitInv, RowInv, AloneInv, SerialSubmitsAgree
  <2>6. ResponseOfOneSubmit'
    BY <1>1 DEF SaveAttempt, row, request, IInv, TypeOK, SubmitInv, AloneInv, ResponseOfOneSubmit
  <2> QED BY <2>1, <2>2, <2>3, <2>4, <2>5, <2>6 DEF IInv
<1>2. ASSUME NEW s \in Submits, NEW a \in Attempts, ReceiveSubmit(s, a) PROVE IInv'
  <2>1. TypeOK'
    BY <1>2 DEF ReceiveSubmit, Submitting, row, request, IInv, TypeOK
  <2>2. SubmitInv'
    BY <1>2 DEF ReceiveSubmit, Submitting, row, request, IInv, TypeOK, SubmitInv, RowInv
  <2>3. RowInv'
    BY <1>2 DEF ReceiveSubmit, Submitting, row, request, IInv, TypeOK, SubmitInv, RowInv
  <2>4. AloneInv'
    BY <1>2 DEF ReceiveSubmit, Submitting, row, request, IInv, TypeOK, SubmitInv, RowInv, AloneInv
  <2>5. SerialSubmitsAgree'
    BY <1>2 DEF ReceiveSubmit, Submitting, row, request, IInv, TypeOK, SubmitInv, RowInv, AloneInv, SerialSubmitsAgree
  <2>6. ResponseOfOneSubmit'
    BY <1>2 DEF ReceiveSubmit, Submitting, row, request, IInv, TypeOK, SubmitInv, AloneInv, ResponseOfOneSubmit
  <2> QED BY <2>1, <2>2, <2>3, <2>4, <2>5, <2>6 DEF IInv
<1>3. ASSUME NEW s \in Submits, LoadAttempt(s) PROVE IInv'
  <2>1. TypeOK'
    BY <1>3 DEF LoadAttempt, row, request, IInv, TypeOK
  <2>2. SubmitInv'
    BY <1>3 DEF LoadAttempt, row, request, IInv, TypeOK, SubmitInv, RowInv
  <2>3. RowInv'
    BY <1>3 DEF LoadAttempt, row, request, IInv, TypeOK, SubmitInv, RowInv
  <2>4. AloneInv'
    BY <1>3 DEF LoadAttempt, row, request, IInv, TypeOK, SubmitInv, RowInv, AloneInv
  <2>5. SerialSubmitsAgree'
    BY <1>3 DEF LoadAttempt, row, request, IInv, TypeOK, SubmitInv, RowInv, AloneInv, SerialSubmitsAgree
  <2>6. ResponseOfOneSubmit'
    BY <1>3 DEF LoadAttempt, row, request, IInv, TypeOK, SubmitInv, AloneInv, ResponseOfOneSubmit
  <2> QED BY <2>1, <2>2, <2>3, <2>4, <2>5, <2>6 DEF IInv
<1>4. ASSUME NEW s \in Submits, StoreAnswers(s) PROVE IInv'
  <2>1. TypeOK'
    BY <1>4 DEF StoreAnswers, SetStatus, row, request, IInv, TypeOK
  <2>2. SubmitInv'
    BY <1>4 DEF StoreAnswers, SetStatus, row, request, IInv, TypeOK, SubmitInv, RowInv
  <2>3. RowInv'
    BY <1>4 DEF StoreAnswers, SetStatus, row, request, IInv, TypeOK, SubmitInv, RowInv
  <2>4. AloneInv'
    BY <1>4 DEF StoreAnswers, SetStatus, row, request, IInv, TypeOK, SubmitInv, RowInv, AloneInv
  <2>5. SerialSubmitsAgree'
    BY <1>4 DEF StoreAnswers, SetStatus, row, request, IInv, TypeOK, SubmitInv, RowInv, AloneInv, SerialSubmitsAgree
  <2>6. ResponseOfOneSubmit'
    BY <1>4 DEF StoreAnswers, SetStatus, row, request, IInv, TypeOK, SubmitInv, AloneInv, ResponseOfOneSubmit
  <2> QED BY <2>1, <2>2, <2>3, <2>4, <2>5, <2>6 DEF IInv
<1>5. ASSUME NEW s \in Submits, EvaluateAnswers(s) PROVE IInv'
  <2>1. TypeOK'
    BY <1>5 DEF EvaluateAnswers, SetStatus, row, request, IInv, TypeOK
  <2>2. SubmitInv'
    BY <1>5 DEF EvaluateAnswers, SetStatus, row, request, IInv, TypeOK, SubmitInv, RowInv
  <2>3. RowInv'
    BY <1>5 DEF EvaluateAnswers, SetStatus, row, request, IInv, TypeOK, SubmitInv, RowInv
  <2>4. AloneInv'
    BY <1>5 DEF EvaluateAnswers, SetStatus, row, request, IInv, TypeOK, SubmitInv, RowInv, AloneInv
  <2>5. SerialSubmitsAgree'
    BY <1>5 DEF EvaluateAnswers, SetStatus, row, request, IInv, TypeOK, SubmitInv, RowInv, AloneInv, SerialSubmitsAgree
  <2>6. ResponseOfOneSubmit'
    BY <1>5 DEF EvaluateAnswers, SetStatus, row, request, IInv, TypeOK, SubmitInv, AloneInv, ResponseOfOneSubmit
  <2> QED BY <2>1, <2>2, <2>3, <2>4, <2>5, <2>6 DEF IInv
<1>6. ASSUME NEW s \in Submits, RejectEvaluation(s) PROVE IInv'
  <2>1. TypeOK'
    BY <1>6 DEF RejectEvaluation, SetStatus, row, request, IInv, TypeOK
  <2>2. SubmitInv'
    BY <1>6 DEF RejectEvaluation, SetStatus, row, request, IInv, TypeOK, SubmitInv, RowInv
  <2>3. RowInv'
    BY <1>6 DEF RejectEvaluation, SetStatus, row, request, IInv, TypeOK, SubmitInv, RowInv
  <2>4. AloneInv'
    BY <1>6 DEF RejectEvaluation, SetStatus, row, request, IInv, TypeOK, SubmitInv, RowInv, AloneInv
  <2>5. SerialSubmitsAgree'
    BY <1>6 DEF RejectEvaluation, SetStatus, row, request, IInv, TypeOK, SubmitInv, RowInv, AloneInv, SerialSubmitsAgree
  <2>6. ResponseOfOneSubmit'
    BY <1>6 DEF RejectEvaluation, SetStatus, row, request, IInv, TypeOK, SubmitInv, AloneInv, ResponseOfOneSubmit
  <2> QED BY <2>1, <2>2, <2>3, <2>4, <2>5, <2>6 DEF IInv
<1>7. ASSUME NEW s \in Submits, Respond(s) PROVE IInv'
  <2>1. TypeOK'
    BY <1>7 DEF Respond, row, request, IInv, TypeOK, SubmitInv
  <2>2. SubmitInv'
    BY <1>7 DEF Respond, row, request, IInv, TypeOK, SubmitInv, RowInv
  <2>3. RowInv'
    BY <1>7 DEF Respond, row, request, IInv, TypeOK, SubmitInv, RowInv
  <2>4. AloneInv'
    BY <1>7 DEF Respond, row, request, IInv, TypeOK, SubmitInv, RowInv, AloneInv
  <2>5. SerialSubmitsAgree'
    BY <1>7 DEF Respond, row, request, IInv, TypeOK, SubmitInv, RowInv, AloneInv, SerialSubmitsAgree
  <2>6. ResponseOfOneSubmit'
    BY <1>7 DEF Respond, row, request, IInv, TypeOK, SubmitInv, AloneInv, ResponseOfOneSubmit
  <2> QED BY <2>1, <2>2, <2>3, <2>4, <2>5, <2>6 DEF IInv
<1>8. ASSUME SetTenantStatus PROVE IInv'
  <2>1. TypeOK'
    BY <1>8 DEF SetTenantStatus, row, request, IInv, TypeOK
  <2>2. SubmitInv'
    BY <1>8 DEF SetTenantStatus, row, request, IInv, TypeOK, SubmitInv, RowInv
  <2>3. RowInv'
    BY <1>8 DEF SetTenantStatus, row, request, IInv, TypeOK, SubmitInv, RowInv
  <2>4. AloneInv'
    BY <1>8 DEF SetTenantStatus, row, request, IInv, TypeOK, SubmitInv, RowInv, AloneInv
  <2>5. SerialSubmitsAgree'
    BY <1>8 DEF SetTenantStatus, row, request, IInv, TypeOK, SubmitInv, RowInv, AloneInv, SerialSubmitsAgree
  <2>6. ResponseOfOneSubmit'
    BY <1>8 DEF SetTenantStatus, row, request, IInv, TypeOK, SubmitInv, AloneInv, ResponseOfOneSubmit
  <2> QED BY <2>1, <2>2, <2>3, <2>4, <2>5, <2>6 DEF IInv
<1>9. ASSUME Crash PROVE IInv'
  <2>1. TypeOK'
    <3>1. crashes' \in 0 .. MaxCrashes
      BY <1>9 DEF Crash, IInv, TypeOK
    <3>2. dropped' \subseteq Attempts
      BY <1>9 DEF Crash, IInv, TypeOK, SubmitInv
    <3>3. pc' \in [Submits -> Working \cup {"idle", "not_found", "ok", "failed", "lost"}]
      BY <1>9 DEF Crash, IInv, TypeOK
    <3> QED
      BY <1>9, <3>1, <3>2, <3>3 DEF Crash, row, request, IInv, TypeOK
  <2>2. SubmitInv'
    BY <1>9 DEF Crash, row, request, IInv, TypeOK, SubmitInv, RowInv
  <2>3. RowInv'
    BY <1>9 DEF Crash, row, request, IInv, TypeOK, SubmitInv, RowInv
  <2>4. AloneInv'
    BY <1>9 DEF Crash, row, request, IInv, TypeOK, SubmitInv, RowInv, AloneInv
  <2>5. SerialSubmitsAgree'
    BY <1>9 DEF Crash, row, request, IInv, TypeOK, SubmitInv, RowInv, AloneInv, SerialSubmitsAgree
  <2>6. ResponseOfOneSubmit'
    BY <1>9 DEF Crash, row, request, IInv, TypeOK, SubmitInv, AloneInv, ResponseOfOneSubmit
  <2> QED BY <2>1, <2>2, <2>3, <2>4, <2>5, <2>6 DEF IInv
<1>10. ASSUME UNCHANGED vars PROVE IInv'
  <2>1. TypeOK'
    BY <1>10 DEF vars, row, request, IInv, TypeOK
  <2>2. SubmitInv'
    BY <1>10 DEF vars, row, request, IInv, TypeOK, SubmitInv, RowInv
  <2>3. RowInv'
    BY <1>10 DEF vars, row, request, IInv, TypeOK, SubmitInv, RowInv
  <2>4. AloneInv'
    BY <1>10 DEF vars, row, request, IInv, TypeOK, SubmitInv, RowInv, AloneInv
  <2>5. SerialSubmitsAgree'
    BY <1>10 DEF vars, row, request, IInv, TypeOK, SubmitInv, RowInv, AloneInv, SerialSubmitsAgree
  <2>6. ResponseOfOneSubmit'
    BY <1>10 DEF vars, row, request, IInv, TypeOK, SubmitInv, AloneInv, ResponseOfOneSubmit
  <2> QED BY <2>1, <2>2, <2>3, <2>4, <2>5, <2>6 DEF IInv
<1> QED
  BY <1>1, <1>2, <1>3, <1>4, <1>5, <1>6, <1>7, <1>8, <1>9, <1>10 DEF Next, Finish

LEMMA SafetyIInv == Spec => []IInv
<1>1. Spec => Init /\ [][Next]_vars
  BY DEF Spec, Safety
<1> QED
  BY <1>1, InitIInv, IInvStep, PTL

\* Every variable of the attempts and the submits keeps its type.
THEOREM TypeCorrect == Spec => []TypeOK
<1>1. IInv => TypeOK
  BY DEF IInv
<1> QED
  BY <1>1, SafetyIInv, PTL

\* However many submits overlap, fail or are lost: what is shown of a completed
\* attempt is the verdict that the evaluator gave one of its submits.
THEOREM CompletedIsEvaluated == Spec => []CompletedWasEvaluated
<1>1. IInv => CompletedWasEvaluated
  BY DEF IInv, RowInv, CompletedWasEvaluated
<1> QED
  BY <1>1, SafetyIInv, PTL

\* Without an overlap or a crash the row tells of one submit, the last.
THEOREM RowTellsOfOneSubmit == Spec => []SerialSubmitsAgree
<1>1. IInv => SerialSubmitsAgree
  BY DEF IInv
<1> QED
  BY <1>1, SafetyIInv, PTL

\* Without an overlap a response pairs the scores of a submit with its answers.
THEOREM ResponsesAreWhole == Spec => []ResponseOfOneSubmit
<1>1. IInv => ResponseOfOneSubmit
  BY DEF IInv
<1> QED
  BY <1>1, SafetyIInv, PTL

=============================================================================
