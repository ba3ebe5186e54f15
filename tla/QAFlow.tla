------------------------------- MODULE QAFlow -------------------------------
(***************************************************************************)
(* run_qa_flow of orchestrator/qa_flow.py with the verifier, the answer    *)
(* node and the retries of the LLM client.  Each search and each call of   *)
(* the model is a step; between two of them other requests run.  An        *)
(* exception anywhere ends in a reply, TECHNICAL_ERROR.                    *)
(*                                                                         *)
(* A search is abstracted to what it found, a draft to whether it holds a  *)
(* marker "[Doc:".  The thresholds behind "enough" are those of module     *)
(* Retrieval.                                                              *)
(***************************************************************************)
EXTENDS Integers

CONSTANTS
  Requests,
  Gated,        \* those served with settings.verifier_enabled
  Attempts      \* stop_after_attempt of LLMClient.chat

ASSUME QAFlowAssumption ==
  /\ Gated \subseteq Requests
  /\ Attempts \in Nat \ {0}

VARIABLES
  stage,        \* what a request awaits
  found,        \* retrieval: candidates, and enough_evidence
  drafted,      \* drafts the verifier has seen
  tries,        \* failed attempts of the call of the LLM it awaits
  reply,        \* the QAResponse
  expired       \* requests whose session a search has rolled back or left aborted

qaVars == <<stage, found, drafted, tries, reply, expired>>

Nothing == [some |-> FALSE, enough |-> FALSE]
Found   == [some : BOOLEAN, enough : BOOLEAN]
Drafts  == {"cited", "uncited", "blank"}

QAInit ==
  /\ stage = [r \in Requests |-> "idle"]
  /\ found = [r \in Requests |-> Nothing]
  /\ drafted = [r \in Requests |-> 0]
  /\ tries = [r \in Requests |-> 0]
  /\ reply = [r \in Requests |-> "none"]
  /\ expired = {}

-----------------------------------------------------------------------------
Await(r, s) ==
  /\ stage' = [stage EXCEPT ![r] = s]
  /\ UNCHANGED reply

Reply(r, answer) ==
  /\ stage' = [stage EXCEPT ![r] = "replied"]
  /\ reply' = [reply EXCEPT ![r] = answer]

Ask(r) ==
  /\ stage[r] = "idle"
  /\ Await(r, "searching")
  /\ UNCHANGED <<found, drafted, tries, expired>>

\* A search, hybrid or, when that fails, with vectors only: in between it rolls
\* the session back, and with that it expires every object loaded in it.
Retrieve(r) ==
  /\ \E res \in Found : found' = [found EXCEPT ![r] = res]
  /\ expired' \in {expired, expired \cup {r}}
  /\ UNCHANGED <<drafted, tries>>

\* Defect: a first search that is not good enough goes on to the model.
SearchUngated(r) ==
  /\ stage[r] = "searching"
  /\ Retrieve(r)
  /\ \/ ~ found'[r].some /\ Reply(r, "low_evidence")
     \/ found'[r].some /\ Await(r, "drafting")

\* The first search.  Nothing found is a refusal in either mode.
Search(r) ==
  /\ stage[r] = "searching"
  /\ Retrieve(r)
  /\ \/ ~ found'[r].some /\ Reply(r, "low_evidence")
     \/ /\ found'[r].some
        /\ r \in Gated /\ ~ found'[r].enough
        /\ Await(r, "widening")
     \/ /\ found'[r].some
        /\ r \notin Gated \/ found'[r].enough
        /\ Await(r, "drafting")

\* The second, over twice as many chunks.
Widen(r) ==
  /\ stage[r] = "widening"
  /\ Retrieve(r)
  /\ \/ ~ (found'[r].some /\ found'[r].enough) /\ Reply(r, "low_evidence")
     \/ found'[r].some /\ found'[r].enough /\ Await(r, "drafting")

\* The embedding, a search, or the last attempt of a call raises.  When it is the
\* database, in the fallback or in what comes after it, the session is left
\* rolled back or aborted.
Raise(r) ==
  /\ stage[r] \in {"searching", "widening", "drafting"}
  /\ Reply(r, "error")
  /\ \/ expired' = expired
     \/ stage[r] # "drafting" /\ expired' = expired \cup {r}
  /\ UNCHANGED <<found, drafted, tries>>

\* Defect: nothing stops the attempts.
TryAgainForever(r) ==
  /\ tries' = [tries EXCEPT ![r] = (@ + 1) % Attempts]
  /\ UNCHANGED <<stage, found, drafted, reply, expired>>

\* 429, 5xx or a broken connection: the call is tried again, a few times.
TryAgain(r) ==
  /\ tries[r] < Attempts - 1
  /\ tries' = [tries EXCEPT ![r] = @ + 1]
  /\ UNCHANGED <<stage, found, drafted, reply, expired>>

RetryDraft(r) == stage[r] = "drafting" /\ TryAgain(r)

\* verify: the evidence once more, then the marker.
Passes(r, d) == found[r].enough /\ d = "cited"

\* generate_answer, and the judgement of its draft.
Draft(r) ==
  /\ stage[r] = "drafting"
  /\ drafted' = [drafted EXCEPT ![r] = @ + 1]
  /\ tries' = [tries EXCEPT ![r] = 0]
  /\ \E d \in Drafts :
       \/ r \notin Gated /\ Reply(r, d)
       \/ r \in Gated /\ Passes(r, d) /\ Reply(r, d)
       \/ r \in Gated /\ ~ Passes(r, d) /\ drafted[r] = 0 /\ Await(r, "drafting")
       \/ r \in Gated /\ ~ Passes(r, d) /\ drafted[r] = 1 /\ Reply(r, "no_citations")
  /\ UNCHANGED <<found, expired>>

QAStep(r) == Search(r) \/ Widen(r) \/ Draft(r) \/ Raise(r) \/ RetryDraft(r)

QANext == \E r \in Requests : Ask(r) \/ QAStep(r)
QASpec == QAInit /\ [][QANext]_qaVars

-----------------------------------------------------------------------------
\* Type of every variable of the flow.
QATypeOK ==
  /\ stage \in [Requests ->
       {"idle", "searching", "widening", "drafting", "replied"}]
  /\ found \in [Requests -> Found]
  /\ drafted \in [Requests -> 0 .. 2]
  /\ tries \in [Requests -> 0 .. Attempts - 1]
  /\ reply \in [Requests -> {"none", "low_evidence", "no_citations", "error"} \cup Drafts]
  /\ expired \subseteq Requests

\* How the flow appears to its callers.
EvidenceOf(r) ==
  IF ~ found[r].some THEN "none" ELSE IF found[r].enough THEN "enough" ELSE "some"

VerdictOf(r) ==
  CASE reply[r] = "none" -> "open"
    [] reply[r] = "cited" -> "cited"
    [] reply[r] \in {"uncited", "blank"} -> "uncited"
    [] reply[r] = "error" -> "failed"
    [] OTHER -> "refused"

Gate == INSTANCE EvidenceGate WITH
  evidence <- [r \in Requests |-> EvidenceOf(r)],
  drafts   <- drafted,
  verdict  <- [r \in Requests |-> VerdictOf(r)]

\* The flow, with its second search, second draft and its failures, keeps the
\* promise of the hard gate: no draft is asked for without enough evidence, none
\* is sent without a citation, and two are tried before the refusal.
GateKept == Gate!GateSpec

=============================================================================
