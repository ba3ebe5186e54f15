-------------------------------- MODULE Chat --------------------------------
(***************************************************************************)
(* POST /chat/message, POST /qa/message and the deletion of chats.  A      *)
(* message loads its chat, has the planner choose a route, and takes it:   *)
(* a clarification, a self-check, or the question answering of QAFlow; in  *)
(* the end it writes the history it has loaded back, with one exchange     *)
(* more.  Everything in between awaits the model for seconds, and other    *)
(* messages and deletions run meanwhile.                                   *)
(*                                                                         *)
(* Left out: the context that is sent along (which does not steer the      *)
(* flow), the quota (module RateLimit), and tenants that become read-only  *)
(* (modules Ingestion and SelfCheck).                                      *)
(***************************************************************************)
EXTENDS QAFlow, Sequences

CONSTANTS
  Chats,        \* rows of chat_sessions that can exist
  OldChats      \* those that exist in the beginning

NewChat  == "new"
Direct   == "direct"    \* /qa/message, which keeps no history

ASSUME ChatAssumption ==
  /\ OldChats \subseteq Chats
  /\ {NewChat, Direct} \cap Chats = {}

VARIABLES
  pc,           \* where a message stands
  target,       \* the chat it names, or none, or that it is for /qa/message
  held,         \* the history it has loaded
  outcome,      \* what it has to record
  row,          \* whether the row of a chat is there
  history,      \* chat_sessions.history
  attempts      \* messages whose self-check is committed

chatVars == <<pc, target, held, outcome, row, history, attempts>>
vars     == <<qaVars, chatVars>>

Open     == {c \in Chats : row[c] = "live"}
Earlier  == [msg |-> "earlier", outcome |-> "replied"]

Init ==
  /\ QAInit
  /\ pc = [m \in Requests |-> "idle"]
  /\ target = [m \in Requests |-> NewChat]
  /\ held = [m \in Requests |-> << >>]
  /\ outcome = [m \in Requests |-> "none"]
  /\ row = [c \in Chats |-> IF c \in OldChats THEN "live" ELSE "absent"]
  /\ history = [c \in Chats |-> IF c \in OldChats THEN <<Earlier>> ELSE << >>]
  /\ attempts = {}

Goto(m, p) == pc' = [pc EXCEPT ![m] = p]

Record(m, o) ==
  /\ outcome' = [outcome EXCEPT ![m] = o]
  /\ Goto(m, "writing")

-----------------------------------------------------------------------------
\* The request arrives; _load_session answers 404 for a chat that is gone.
Receive(m) ==
  /\ pc[m] = "idle"
  /\ \E t \in {c \in Chats : row[c] # "absent"} \cup {NewChat, Direct} :
       /\ target' = [target EXCEPT ![m] = t]
       /\ \/ t = Direct /\ Ask(m) /\ Goto(m, "asking") /\ UNCHANGED held
          \/ t = NewChat /\ Goto(m, "planning") /\ UNCHANGED <<qaVars, held>>
          \/ /\ t \in Open
             /\ held' = [held EXCEPT ![m] = history[t]]
             /\ Goto(m, "planning") /\ UNCHANGED qaVars
          \/ /\ t \in Chats \ Open
             /\ Goto(m, "not_found") /\ UNCHANGED <<qaVars, held>>
  /\ UNCHANGED <<outcome, row, history, attempts>>

CallDone(m) == tries' = [tries EXCEPT ![m] = 0]

\* plan: the route the model names; whatever fails, and every answer that is no
\* route, is a question.
Plan(m) ==
  /\ pc[m] = "planning"
  /\ CallDone(m)
  /\ \/ Record(m, "clarify") /\ UNCHANGED stage
     \/ Goto(m, "quizzing") /\ UNCHANGED <<stage, outcome>>
     \/ /\ Goto(m, "asking") /\ UNCHANGED outcome
        /\ stage' = [stage EXCEPT ![m] = "searching"]
  /\ UNCHANGED <<found, drafted, reply, expired, target, held, row, history, attempts>>

\* Defect: the attempt is flushed, for the commit of the chat to take along.
QuizUncommitted(m) ==
  /\ pc[m] = "quizzing"
  /\ CallDone(m)
  /\ expired' \in {expired, expired \cup {m}}
  /\ Record(m, "self_check")
  /\ UNCHANGED <<stage, found, drafted, reply, target, held, row, history, attempts>>

\* start_selfcheck: materials are searched, the model writes the questions, and
\* the attempt is committed.  The reply comes later.
Quiz(m) ==
  /\ pc[m] = "quizzing"
  /\ CallDone(m)
  /\ expired' \in {expired, expired \cup {m}}
  /\ attempts' = attempts \cup {m}
  /\ Record(m, "self_check")
  /\ UNCHANGED <<stage, found, drafted, reply, target, held, row, history>>

\* It raises: 429 or 502, and nothing is recorded.
QuizFails(m) ==
  /\ pc[m] = "quizzing"
  /\ Goto(m, "unavailable")
  /\ UNCHANGED <<qaVars, target, held, outcome, row, history, attempts>>

RetryCall(m) ==
  /\ pc[m] \in {"planning", "quizzing"}
  /\ TryAgain(m)
  /\ UNCHANGED chatVars

Answer(m) ==
  /\ pc[m] = "asking"
  /\ QAStep(m)
  /\ IF stage'[m] = "replied" THEN Record(m, "replied") ELSE UNCHANGED <<pc, outcome>>
  /\ UNCHANGED <<target, held, row, history, attempts>>

Exchange(m) == [msg |-> m, outcome |-> outcome[m]]

\* Defect: the chat is looked for when it is written, and made when it is not
\* there.
WriteUpsert(m) ==
  /\ pc[m] = "writing" /\ target[m] \in Chats /\ m \notin expired
  /\ history' = [history EXCEPT ![target[m]] = Append(held[m], Exchange(m))]
  /\ row' = [row EXCEPT ![target[m]] = "live"]
  /\ Goto(m, "done")

\* Defect: what is written back is the context that was sent to the model.
WriteContext(m) ==
  /\ pc[m] = "writing" /\ target[m] \in Open /\ m \notin expired
  /\ history' = [history EXCEPT ![target[m]] =
       Append(SelectSeq(held[m], LAMBDA e : e.outcome = "replied"), Exchange(m))]
  /\ Goto(m, "done")
  /\ UNCHANGED row

\* The UPDATE of the chat that was loaded.
Write(m) ==
  /\ pc[m] = "writing" /\ target[m] \in Open /\ m \notin expired
  /\ history' = [history EXCEPT ![target[m]] = Append(held[m], Exchange(m))]
  /\ Goto(m, "done")
  /\ UNCHANGED row

\* It matches no row: the chat was deleted, and the request ends in a 500.
WriteStale(m) ==
  /\ pc[m] = "writing" /\ target[m] \in Chats \ Open /\ m \notin expired
  /\ Goto(m, "stale")
  /\ UNCHANGED <<row, history>>

\* A search has rolled the session back: sess.history and current_user.id are
\* expired, and to load them anew in async code raises.  Or it has left it in an
\* aborted transaction, which takes no more statements.
WriteExpired(m) ==
  /\ pc[m] = "writing" /\ target[m] # Direct /\ m \in expired
  /\ Goto(m, "expired")
  /\ UNCHANGED <<row, history>>

WriteNew(m) ==
  /\ pc[m] = "writing" /\ target[m] = NewChat /\ m \notin expired
  /\ \E c \in Chats :
       /\ row[c] = "absent" /\ row' = [row EXCEPT ![c] = "live"]
       /\ history' = [history EXCEPT ![c] = <<Exchange(m)>>]
  /\ Goto(m, "done")

ReplyDirect(m) ==
  /\ pc[m] = "writing" /\ target[m] = Direct
  /\ Goto(m, "done")
  /\ UNCHANGED <<row, history>>

Conclude(m) ==
  /\ Write(m) \/ WriteStale(m) \/ WriteExpired(m) \/ WriteNew(m) \/ ReplyDirect(m)
  /\ UNCHANGED <<qaVars, target, held, outcome, attempts>>

\* DELETE /chat/sessions/{id}.
DeleteSession(c) ==
  /\ c \in Open
  /\ row' = [row EXCEPT ![c] = "deleted"]
  /\ history' = [history EXCEPT ![c] = << >>]
  /\ UNCHANGED <<qaVars, pc, target, held, outcome, attempts>>

Busy == {m \in Requests : pc[m] \in {"planning", "quizzing", "asking", "writing"}}

\* The process is restarted, and with it every request is lost.
Restart ==
  /\ Busy # {}
  /\ pc' = [m \in Requests |-> IF m \in Busy THEN "lost" ELSE pc[m]]
  /\ UNCHANGED <<qaVars, target, held, outcome, row, history, attempts>>

Step(m) ==
  Plan(m) \/ Quiz(m) \/ QuizFails(m) \/ RetryCall(m) \/ Answer(m) \/ Conclude(m)

Next ==
  \/ \E m \in Requests : Receive(m) \/ Step(m)
  \/ \E c \in Chats : DeleteSession(c)
  \/ Restart

\* Searches and calls of the model have timeouts, so that a handler that awaits
\* one goes on.
Fairness == \A m \in Requests : WF_vars(Step(m))

Spec == Init /\ [][Next]_vars /\ Fairness

-----------------------------------------------------------------------------
Exchanges == [msg : Requests, outcome : {"clarify", "self_check", "replied"}]
               \cup {Earlier}

\* Type of every variable.
TypeOK ==
  /\ QATypeOK
  /\ pc \in [Requests -> {"idle", "planning", "quizzing", "asking", "writing", "done",
       "not_found", "unavailable", "stale", "expired", "lost"}]
  /\ target \in [Requests -> Chats \cup {NewChat, Direct}]
  /\ held \in [Requests -> Seq(Exchanges)]
  /\ outcome \in [Requests -> {"none", "clarify", "self_check", "replied"}]
  /\ row \in [Chats -> {"absent", "live", "deleted"}]
  /\ history \in [Chats -> Seq(Exchanges)]
  /\ attempts \subseteq Requests

Has(h, m) == \E i \in DOMAIN h : h[i].msg = m

\* The exchange of a message that was answered is in the history of its chat,
\* unless a message that ran at the same time, and had not seen it, has written
\* over it.
LostOnlyByOverlap ==
  \A m \in Requests : \A c \in Open :
    pc[m] = "done" /\ target[m] = c /\ ~ Has(history[c], m) =>
      \E n \in Requests \ {m} :
        pc[n] = "done" /\ target[n] = c /\ ~ Has(held[n], m) /\ Has(history[c], n)

\* An answer that comes late does not bring a deleted chat back.
DeletedStaysDeleted ==
  [][\A c \in Chats : row[c] = "deleted" => row'[c] = "deleted"]_vars

\* A self-check shown in a chat can be submitted: its attempt was committed.
ShownAttemptExists ==
  \A c \in Open : \A i \in DOMAIN history[c] :
    history[c][i].outcome = "self_check" => history[c][i].msg \in attempts

\* Every message comes to an end, through all retries and second attempts.
MessageSettles == \A m \in Requests : m \in Busy ~> m \notin Busy

\* retriever.py has a failed BM25 search fall back to vectors: a question that was
\* replied to by that search is not lost for the one that has failed.
FallbackServes == \A m \in Requests : pc[m] = "expired" => reply[m] \in {"none", "error"}

=============================================================================
