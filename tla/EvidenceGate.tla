---------------------------- MODULE EvidenceGate ----------------------------
(***************************************************************************)
(* What the question answering promises: no answer without evidence in the *)
(* corpus of the tenant.  A request gathers evidence, may have the model   *)
(* write drafts from it, and comes to one verdict.  With the gate on, an   *)
(* answer needs enough evidence and a draft that cites it, and a request   *)
(* that has the evidence is refused only after two drafts without          *)
(* citations.  Without the gate (the baseline of the A/B comparison) the   *)
(* first draft is the answer, but still there must be something to cite.   *)
(***************************************************************************)
EXTENDS Integers

CONSTANTS
  Requests,
  Gated       \* those for which the gate is on

VARIABLES
  evidence,   \* what the last search found
  drafts,     \* drafts that were written and judged
  verdict     \* "open" until the request is over

gateVars == <<evidence, drafts, verdict>>

Gathered  == {"none", "some", "enough"}
MaxDrafts(r) == IF r \in Gated THEN 2 ELSE 1

\* Whether the model may be asked at all.
Sufficient(r) ==
  evidence[r] = "enough" \/ (r \notin Gated /\ evidence[r] = "some")

GateInit ==
  /\ evidence = [r \in Requests |-> "none"]
  /\ drafts = [r \in Requests |-> 0]
  /\ verdict = [r \in Requests |-> "open"]

Decide(r, v) == verdict' = [verdict EXCEPT ![r] = v]

\* Evidence is gathered before anything is written.
Gather(r) ==
  /\ verdict[r] = "open" /\ drafts[r] = 0
  /\ \E e \in Gathered : evidence' = [evidence EXCEPT ![r] = e]
  /\ UNCHANGED <<drafts, verdict>>

RefuseUnfounded(r) ==
  /\ verdict[r] = "open" /\ drafts[r] = 0
  /\ \E e \in {"none", "some"} : evidence' = [evidence EXCEPT ![r] = e]
  /\ Decide(r, "refused")
  /\ UNCHANGED drafts

\* A draft is judged: it is sent, or one more may be written, or that is all.
Judge(r) ==
  /\ verdict[r] = "open" /\ drafts[r] < MaxDrafts(r)
  /\ Sufficient(r)
  /\ drafts' = [drafts EXCEPT ![r] = @ + 1]
  /\ \/ Decide(r, "cited")
     \/ r \notin Gated /\ Decide(r, "uncited")
     \/ r \in Gated /\ drafts'[r] < MaxDrafts(r) /\ UNCHANGED verdict
     \/ r \in Gated /\ drafts'[r] = MaxDrafts(r) /\ Decide(r, "refused")
  /\ UNCHANGED evidence

GiveUp(r) ==
  /\ verdict[r] = "open"
  /\ Decide(r, "failed")
  /\ UNCHANGED <<evidence, drafts>>

GateNext ==
  \E r \in Requests : Gather(r) \/ RefuseUnfounded(r) \/ Judge(r) \/ GiveUp(r)

GateSpec == GateInit /\ [][GateNext]_gateVars

=============================================================================
