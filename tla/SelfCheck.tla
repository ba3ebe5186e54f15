----------------------------- MODULE SelfCheck -----------------------------
(***************************************************************************)
(* Self-check attempts: POST /self-check/start and                         *)
(* POST /self-check/{attempt_id}/submit.                                   *)
(*                                                                         *)
(* A submit reads the attempt, commits the answers, awaits the evaluator   *)
(* (an LLM call that takes seconds) and commits its verdict.  Nothing      *)
(* orders two submits of one attempt: a double click, a retry of the       *)
(* client, or a second tab.  The answers a request carries are identified  *)
(* with the request, and so is the evaluation made from them; completed_at *)
(* is left out.                                                            *)
(***************************************************************************)
EXTENDS Naturals, FiniteSets

CONSTANTS
  Attempts,    \* ids of selfcheck_attempts
  Submits,     \* submit requests
  Sees,        \* <<request, attempt>> that pass the tenant and owner filters
  Supers,      \* the requests made by a super-admin
  None,        \* SQL NULL
  MaxCrashes   \* bound on crashes of the process

ASSUME SelfCheckAssumption ==
  /\ Sees \subseteq Submits \X Attempts
  /\ Supers \subseteq Submits
  /\ None \notin Submits
  /\ MaxCrashes \in Nat

VARIABLES
  status,      \* selfcheck_attempts.status, "none" while there is no row
  answers,     \* selfcheck_attempts.answers, as the request that carried them
  evaluation,  \* selfcheck_attempts.evaluation, as the request it evaluates
  pc,          \* where a submit request stands
  target,      \* the attempt of a submit request, None before it is received
  loaded,      \* the status of the row in the request's database session
  response,    \* the request whose answers a response shows with its scores
  writable,    \* tenants.status is "active"
  overlap,     \* history: attempts two submits of which were under way at once
  dropped,     \* history: attempts a submit of which died in a crash
  crashes

row     == <<status, answers, evaluation>>
request == <<pc, target, loaded, response>>
vars    == <<row, request, writable, overlap, dropped, crashes>>

-----------------------------------------------------------------------------
Working == {"received", "loaded", "evaluating", "evaluated"}

Submitting(a) == {s \in Submits : target[s] = a /\ pc[s] \in Working}

Init ==
  /\ status = [a \in Attempts |-> "none"]
  /\ answers = [a \in Attempts |-> None]
  /\ evaluation = [a \in Attempts |-> None]
  /\ pc = [s \in Submits |-> "idle"]
  /\ target = [s \in Submits |-> None]
  /\ loaded = [s \in Submits |-> "none"]
  /\ response = [s \in Submits |-> None]
  /\ writable = TRUE
  /\ overlap = {} /\ dropped = {} /\ crashes = 0

\* _save_attempt: the questions are generated, and the row is inserted.  The
\* tenant was writable when start_selfcheck was called; it may not be now.
SaveAttempt(a) ==
  /\ status[a] = "none"
  /\ status' = [status EXCEPT ![a] = "in_progress"]
  /\ UNCHANGED <<answers, evaluation, request, writable, overlap, dropped, crashes>>

\* selfcheck_submit: assert_tenant_writable, before the attempt is looked up.
ReceiveSubmit(s, a) ==
  /\ pc[s] = "idle" /\ status[a] # "none"
  /\ writable \/ s \in Supers
  /\ pc' = [pc EXCEPT ![s] = "received"]
  /\ target' = [target EXCEPT ![s] = a]
  /\ overlap' = IF Submitting(a) = {} THEN overlap ELSE overlap \cup {a}
  /\ UNCHANGED <<loaded, response, row, writable, dropped, crashes>>

\* The SELECT by id, tenant and owner: 404 when there is no such row.
LoadAttempt(s) ==
  /\ pc[s] = "received"
  /\ IF <<s, target[s]>> \in Sees
       THEN /\ pc' = [pc EXCEPT ![s] = "loaded"]
            /\ loaded' = [loaded EXCEPT ![s] = status[target[s]]]
       ELSE /\ pc' = [pc EXCEPT ![s] = "not_found"]
            /\ UNCHANGED loaded
  /\ UNCHANGED <<target, response, row, writable, overlap, dropped, crashes>>

\* The session writes an attribute only if it changes the value it loaded.
SetStatus(s, new) ==
  status' = IF loaded[s] = new THEN status ELSE [status EXCEPT ![target[s]] = new]

\* Defect: the status of an attempt evaluated before is left as it was.
StoreAnswersOnly(s) ==
  /\ pc[s] = "loaded"
  /\ answers' = [answers EXCEPT ![target[s]] = s]
  /\ pc' = [pc EXCEPT ![s] = "evaluating"]
  /\ UNCHANGED <<target, loaded, response, status, evaluation, writable, overlap, dropped, crashes>>

\* status = in_progress, answers = the request's, commit.
StoreAnswers(s) ==
  /\ pc[s] = "loaded"
  /\ SetStatus(s, "in_progress")
  /\ answers' = [answers EXCEPT ![target[s]] = s]
  /\ loaded' = [loaded EXCEPT ![s] = "in_progress"]
  /\ pc' = [pc EXCEPT ![s] = "evaluating"]
  /\ UNCHANGED <<target, response, evaluation, writable, overlap, dropped, crashes>>

\* Defect: the result of the evaluation is not kept.
EvaluateUnsaved(s) ==
  /\ pc[s] = "evaluating"
  /\ SetStatus(s, "completed")
  /\ loaded' = [loaded EXCEPT ![s] = "completed"]
  /\ pc' = [pc EXCEPT ![s] = "evaluated"]
  /\ UNCHANGED <<target, response, answers, evaluation, writable, overlap, dropped, crashes>>

\* The evaluator returned a payload that passes schema validation.
EvaluateAnswers(s) ==
  /\ pc[s] = "evaluating"
  /\ SetStatus(s, "completed")
  /\ evaluation' = [evaluation EXCEPT ![target[s]] = s]
  /\ loaded' = [loaded EXCEPT ![s] = "completed"]
  /\ pc' = [pc EXCEPT ![s] = "evaluated"]
  /\ UNCHANGED <<target, response, answers, writable, overlap, dropped, crashes>>

\* Defect: an exception leaves the row as it is.
RejectQuietly(s) ==
  /\ pc[s] = "evaluating"
  /\ pc' = [pc EXCEPT ![s] = "failed"]
  /\ UNCHANGED <<target, loaded, response, row, writable, overlap, dropped, crashes>>

\* The LLM failed or its payload is invalid; an older evaluation stays.
RejectEvaluation(s) ==
  /\ pc[s] = "evaluating"
  /\ SetStatus(s, "invalid_evaluation")
  /\ loaded' = [loaded EXCEPT ![s] = "invalid_evaluation"]
  /\ pc' = [pc EXCEPT ![s] = "failed"]
  /\ UNCHANGED <<target, response, answers, evaluation, writable, overlap, dropped, crashes>>

\* Defect: the handler reads an attempt of the user, whichever it is.
RespondAny(s) ==
  /\ pc[s] = "evaluated"
  /\ \E a \in Attempts :
       /\ <<s, a>> \in Sees /\ status[a] # "none"
       /\ response' = [response EXCEPT ![s] = answers[a]]
  /\ pc' = [pc EXCEPT ![s] = "ok"]
  /\ UNCHANGED <<target, loaded, row, writable, overlap, dropped, crashes>>

\* The handler reads the row once more (the session no longer holds it), and
\* shows its answers beside the scores of the evaluation it was given.
Respond(s) ==
  /\ pc[s] = "evaluated"
  /\ response' = [response EXCEPT ![s] = answers[target[s]]]
  /\ pc' = [pc EXCEPT ![s] = "ok"]
  /\ UNCHANGED <<target, loaded, row, writable, overlap, dropped, crashes>>

\* PATCH /tenants/{slug}/status.
SetTenantStatus ==
  /\ writable' = ~ writable
  /\ UNCHANGED <<row, request, overlap, dropped, crashes>>

\* The process dies and comes back: nothing resumes or resets an attempt.
Crash ==
  /\ crashes < MaxCrashes
  /\ crashes' = crashes + 1
  /\ dropped' = dropped \cup {target[s] : s \in {x \in Submits :
                                            pc[x] \in Working \ {"evaluated"}}}
  /\ pc' = [s \in Submits |-> IF pc[s] \in Working THEN "lost" ELSE pc[s]]
  /\ UNCHANGED <<target, loaded, response, row, writable, overlap>>

Finish(s) == EvaluateAnswers(s) \/ RejectEvaluation(s)

Next ==
  \/ \E a \in Attempts : SaveAttempt(a) \/ \E s \in Submits : ReceiveSubmit(s, a)
  \/ \E s \in Submits : LoadAttempt(s) \/ StoreAnswers(s) \/ Finish(s) \/ Respond(s)
  \/ SetTenantStatus
  \/ Crash

Safety == Init /\ [][Next]_vars

\* A handler is resumed after each await; the LLM call returns or times out.
Fairness == \A s \in Submits : WF_vars(LoadAttempt(s) \/ StoreAnswers(s) \/ Finish(s) \/ Respond(s))

Spec == Safety /\ Fairness

-----------------------------------------------------------------------------
Evaluated == {"completed", "invalid_evaluation"}

\* Type of every variable.
TypeOK ==
  /\ status \in [Attempts -> {"none", "in_progress"} \cup Evaluated]
  /\ answers \in [Attempts -> Submits \cup {None}]
  /\ evaluation \in [Attempts -> Submits \cup {None}]
  /\ pc \in [Submits -> Working \cup {"idle", "not_found", "ok", "failed", "lost"}]
  /\ target \in [Submits -> Attempts \cup {None}]
  /\ loaded \in [Submits -> {"none", "in_progress"} \cup Evaluated]
  /\ response \in [Submits -> Submits \cup {None}]
  /\ writable \in BOOLEAN
  /\ overlap \subseteq Attempts /\ dropped \subseteq Attempts
  /\ crashes \in 0 .. MaxCrashes

\* What the history and the supervisor's heatmap read of a completed attempt
\* exists, and is the verdict one of its submits was told: an evaluation is
\* never that of a submit that failed, was lost, or answered another attempt.
CompletedWasEvaluated ==
  \A a \in Attempts : status[a] = "completed" =>
     /\ answers[a] # None
     /\ evaluation[a] # None
     /\ loaded[evaluation[a]] = "completed" /\ target[evaluation[a]] = a

\* As long as no two submits of an attempt were under way at once, its status,
\* its answers and its evaluation tell of the same submit: the last one.
SerialSubmitsAgree ==
  \A a \in Attempts \ (overlap \cup dropped) :
     /\ status[a] = "completed" => evaluation[a] = answers[a]
     /\ status[a] = "invalid_evaluation" => pc[answers[a]] = "failed"
     /\ status[a] = "in_progress" =>
           answers[a] = None \/ pc[answers[a]] = "evaluating"

\* Answers that are waiting for a verdict get one, unless the process died.
AnswersGetVerdict ==
  \A a \in Attempts :
     status[a] = "in_progress" /\ answers[a] # None
       ~> status[a] \in Evaluated \/ a \in dropped

\* A response shows the answers that were sent with it, unless another submit
\* of the same attempt was under way: then it may pair the scores of one with
\* the answers of the other.
ResponseOfOneSubmit ==
  \A s \in Submits : pc[s] = "ok" /\ target[s] \notin overlap => response[s] = s

=============================================================================
